--------------------------------- MODULE Wire ---------------------------------
(***************************************************************************)
(* One message's way between the two programs: out of a std::string into   *)
(* the char arrays of a payload, through serialize() and FastWriter into a *)
(* datagram, into the other side's buffer, and through Reader and Value    *)
(* back to the fields the other main loop uses.  Delivery itself (loss,    *)
(* repetition, order) is in ClientServer.                                  *)
(*                                                                         *)
(* Texts are sequences of character codes, as in JsonText.  Reading or     *)
(* writing past a char array is a choice of what lies beyond it.           *)
(***************************************************************************)
EXTENDS JsonText

CONSTANTS BUFFER_SIZE,    \* bytes one read() or recvfrom() takes
          UsernameSize,   \* char username[20]
          MessageSize,    \* char body[128], char message[128]
          Usernames,      \* names is_valid_username accepts
          Messages,       \* messages is_valid_message accepts
          MsgIds,         \* the message ids that occur
          PlainTypes,     \* the server messages without payload that occur
          Times,          \* what ctime() makes of a timestamp
          Garbage,        \* what an array that was never written may hold
          Beyond          \* what may lie between an array and the next NUL

ASSUME ArraysAreSmall ==
    {BUFFER_SIZE, UsernameSize, MessageSize} \subseteq Nat \ {0}

is_valid_ascii(text, allow_space) ==
    \A i \in 1..Len(text) :
        text[i] \in 33..126 \/ (allow_space /\ text[i] = SPACE)

is_valid_username(text) == Len(text) \in 4..20 /\ is_valid_ascii(text, FALSE)

is_valid_message(text) == Len(text) \in 1..128 /\ is_valid_ascii(text, TRUE)

ASSUME InputsAreValid == /\ \A u \in Usernames : is_valid_username(u)
                         /\ \A m \in Messages : is_valid_message(m)

VARIABLES
    sent,       \* the server message under way or arrived last
    toClient,   \* its datagram, <<>> once read
    buffer,     \* fn_client_listener's buffer: what lies before its first NUL,
                \* or all of it
    shown,      \* what the client's main loop made of it
    command,    \* the client message under way or arrived last
    toServer,   \* its datagram, <<>> once read
    heard,      \* what the server's handlers made of it
    gone        \* the client ended in write_from_buffer

downVars == <<sent, toClient, buffer, shown>>
upVars   == <<command, toServer, heard, gone>>
vars     == <<downVars, upVars>>

\* Member names.
msg_id   == <<109, 115, 103, 95, 105, 100>>
msg_type == <<109, 115, 103, 95, 116, 121, 112, 101>>
username == <<117, 115, 101, 114, 110, 97, 109, 101>>
body     == <<98, 111, 100, 121>>
time     == <<116, 105, 109, 101>>
send     == <<115, 101, 110, 100>>

\* enum ServerMsgType.
LoginSuccess         == 0
ServerSendCommand    == 4
FollowCommandFail    == 5
FollowCommandSuccess == 6
PlainServerMsgTypes  == 0..8 \ {ServerSendCommand, FollowCommandFail,
                                FollowCommandSuccess}   \* no payload

\* enum ClientMsgType.
ClientLogin    == 0
ClientLogout   == 1
ClientSend     == 2
ClientFollow   == 3

ASSUME PlainTypesAreTypes == PlainTypes \subseteq PlainServerMsgTypes

(***************************************************************************)
(* Memory.  A payload is the sequence of its bytes.                        *)
(***************************************************************************)
\* strcpy(&memory[at], text): the text and its NUL.
strcpy(memory, at, text) ==
    [i \in DOMAIN memory |->
        IF i \in at..(at + Len(text) - 1) THEN text[i - at + 1]
        ELSE IF i = at + Len(text) THEN NUL ELSE memory[i]]

\* The C string that starts at a position of the memory.
CString(memory, at) ==
    LET nul == CHOOSE i \in at..(Len(memory) + 1) :
                   /\ i > Len(memory) \/ memory[i] = NUL
                   /\ \A j \in at..(i - 1) : memory[j] # NUL
    IN  SubSeq(memory, at, nul - 1)

\* A text kept in an array of its own: if its NUL did not fit, whoever
\* reads it goes on with what lies beyond.
Kept(text, size, beyond) == IF Len(text) < size THEN text ELSE text \o beyond

\* union ServerMsgPayload; four bytes of padding come before the timestamp.
ServerMsgPayload(garbage) ==
    [i \in 1..(UsernameSize + MessageSize + 4) |-> garbage]

usernameAt == 1
bodyAt     == UsernameSize + 1

\* The payload of a message, filled in the order the handlers fill it.
FilledPayload(m, garbage) ==
    CASE m.type = ServerSendCommand ->
             strcpy(strcpy(ServerMsgPayload(garbage), usernameAt, m.username),
                    bodyAt, m.body)
      [] m.type \in {FollowCommandFail, FollowCommandSuccess} ->
             strcpy(ServerMsgPayload(garbage), usernameAt, m.username)
      [] OTHER -> ServerMsgPayload(garbage)

(***************************************************************************)
(* serialize()                                                             *)
(***************************************************************************)
Header(m) == (msg_id :> intValue(m.id)) @@ (msg_type :> intValue(m.type))

ServerSerialize(m, payload) ==
    LET user == username :> stringValue(CString(payload, usernameAt))
        text == body :> stringValue(CString(payload, bodyAt))
    IN  write(objectValue(
            CASE m.type = ServerSendCommand ->
                     Header(m) @@ user @@ text @@ (time :> stringValue(m.time))
              [] m.type \in {FollowCommandFail, FollowCommandSuccess} ->
                     Header(m) @@ user
              [] OTHER -> Header(m)))

ClientSerialize(c, beyond) ==
    write(objectValue(
        CASE c.type = ClientLogin ->
                 Header(c) @@ (username :> stringValue(c.text))
          [] c.type = ClientFollow ->
                 Header(c) @@ (username :>
                     stringValue(Kept(c.text, UsernameSize, beyond)))
          [] c.type = ClientSend ->
                 Header(c)
                   @@ (send :> stringValue(Kept(c.text, MessageSize, beyond)))
          [] OTHER -> Header(c)))

(***************************************************************************)
(* The messages the programs build.                                        *)
(***************************************************************************)
ServerMessages ==
    [type : {ServerSendCommand}, id : MsgIds, username : Usernames,
     body : Messages, time : Times]
      \union [type : {FollowCommandFail, FollowCommandSuccess}, id : MsgIds,
              username : Usernames, body : {<<>>}, time : {<<>>}]
      \union [type : PlainTypes, id : MsgIds,
              username : {<<>>}, body : {<<>>}, time : {<<>>}]

ClientMessages ==
    [type : {ClientLogin, ClientFollow}, id : MsgIds, text : Usernames]
      \union [type : {ClientSend}, id : MsgIds, text : Messages]
      \union [type : {ClientLogout}, id : MsgIds, text : {<<>>}]

Nothing == [type |-> -1, id |-> 0, username |-> <<>>, body |-> <<>>,
            time |-> <<>>]

NoCommand == [type |-> -1, id |-> 0, text |-> <<>>]

\* asInt() throws, or the text was no document.
Failed == [Nothing EXCEPT !.type = -2]

FailedCommand == [NoCommand EXCEPT !.type = -2]

(***************************************************************************)
(* What the main loops take out of a parsed message.                       *)
(***************************************************************************)
\* A member of anything but an object or null throws, as asInt() may.
HeaderConvertible(r) ==
    /\ r.ok
    /\ r.value.type \in {"object", "null"}
    /\ convertibleToInt(Member(r.value, msg_id))
    /\ convertibleToInt(Member(r.value, msg_type))

Shown(r) ==
    LET field(n) == asString(Member(r.value, n))
    IN  IF ~HeaderConvertible(r) THEN Failed
        ELSE [type     |-> asInt(Member(r.value, msg_type)),
              id       |-> asInt(Member(r.value, msg_id)),
              username |-> field(username),
              body     |-> field(body),
              time     |-> field(time)]

Heard(r) ==
    LET type == asInt(Member(r.value, msg_type))
    IN  IF ~HeaderConvertible(r) THEN FailedCommand
        ELSE [type |-> type,
              id   |-> asInt(Member(r.value, msg_id)),
              text |-> CASE type \in {ClientLogin, ClientFollow} ->
                                asString(Member(r.value, username))
                         [] type = ClientSend -> asString(Member(r.value, send))
                         [] OTHER -> <<>>]

(***************************************************************************)
(* Specification                                                           *)
(***************************************************************************)
Init ==
    /\ sent = Nothing /\ toClient = <<>> /\ shown = Nothing
    /\ buffer \in Garbage
    /\ command = NoCommand /\ toServer = <<>> /\ heard = NoCommand
    /\ gone = FALSE

Prefix(text, n) == SubSeq(text, 1, IF n < Len(text) THEN n ELSE Len(text))

\* fn_server_sender: serialize, and send strlen bytes.
ServerSends ==
    /\ toClient = <<>>
    /\ \E m \in ServerMessages, g \in {NUL, 97} :
          /\ sent' = m
          /\ toClient' = ServerSerialize(m, FilledPayload(m, g))
    /\ UNCHANGED <<buffer, shown, upVars>>

\* read_to_buffer writes over the front of the buffer and ends it with
\* nothing.
read_to_buffer ==
    LET got == Prefix(toClient, BUFFER_SIZE)
    IN  buffer' = got \o SubSeq(buffer, Len(got) + 1, Len(buffer))

\* What is parsed ends at the first NUL, in the buffer or beyond it.  The
\* listener ends at a text that does not parse.
ClientReads ==
    /\ toClient # <<>> /\ shown # Failed
    /\ read_to_buffer
    /\ \E beyond \in Beyond :
          shown' = Shown(parse(Kept(buffer', BUFFER_SIZE, beyond)))
    /\ toClient' = <<>>
    /\ UNCHANGED <<sent, upVars>>

\* A write to a datagram socket sends all of the text, or fails and sends
\* nothing; then the client ends.
write_from_buffer(text) ==
    \/ toServer' = text /\ gone' = FALSE
    \/ UNCHANGED toServer /\ gone' = TRUE

ClientWrites ==
    /\ toServer = <<>> /\ ~gone
    /\ \E c \in ClientMessages, beyond \in Beyond :
          /\ command' = c
          /\ write_from_buffer(ClientSerialize(c, beyond))
    /\ UNCHANGED <<heard, downVars>>

\* fn_server_listener clears its buffer before every recvfrom.
ServerReads ==
    /\ toServer # <<>>
    /\ heard' = Heard(parse(Prefix(toServer, BUFFER_SIZE)))
    /\ toServer' = <<>>
    /\ UNCHANGED <<command, gone, downVars>>

\* The two directions share no state: a behaviour is about one of them.
Down == command = NoCommand /\ (ServerSends \/ ClientReads)

Up == sent = Nothing /\ (ClientWrites \/ ServerReads)

Next == Down \/ Up

Spec == Init /\ [][Next]_vars

(***************************************************************************)
(* Properties                                                              *)
(***************************************************************************)

\* An array has room for the NUL of what is copied into it.  The tests on
\* names and texts admit one character more.
NameHasRoom(m) ==
    m.type = ServerSendCommand => Len(m.username) < UsernameSize

HasRoom(c) == Len(c.text) < (CASE c.type = ClientSend   -> MessageSize
                               [] c.type = ClientFollow -> UsernameSize
                               [] OTHER                 -> BUFFER_SIZE)

(***************************************************************************)
(* What the client's main loop takes out of a message is what the server's *)
(* handler put in, whatever characters the name and the text hold, and     *)
(* although the client reads into a buffer that it neither clears nor      *)
(* ends with a NUL and that still holds the end of a longer message.  In a *)
(* user's message the name must leave room for its NUL.                    *)
(***************************************************************************)
ShownIsSent == toClient = <<>> /\ NameHasRoom(sent) => shown = sent

(***************************************************************************)
(* The client shows every name that client.cpp:43 calls legal as it is:    *)
(* what handle_send and handle_login copy into the payload (line 222) is   *)
(* the name the message arrives with.                                      *)
(***************************************************************************)
LegalNameIsShown == toClient = <<>> => shown.username = sent.username

(***************************************************************************)
(* What the server's handler takes out of a command is what the user       *)
(* typed: the text of a SEND, FOLLOW or login survives the char arrays,    *)
(* the escaping and the parser.  A text whose NUL had no room in its       *)
(* array arrives whole as well, but what lay behind it may follow.         *)
(***************************************************************************)
HeardIsCommand ==
    toServer = <<>> /\ ~gone =>
        /\ heard.type = command.type /\ heard.id = command.id
        /\ Prefix(heard.text, Len(command.text)) = command.text
        /\ HasRoom(command) => heard = command

(***************************************************************************)
(* A message that has room for its NULs fits the other side's buffer, with *)
(* room for a NUL there, even if name and text are the longest and every   *)
(* character is escaped: read() and recvfrom() do not cut it.  (A name of  *)
(* 20 characters is sent with the text behind it, and with a long text the *)
(* message is longer than the buffer.)                                     *)
(***************************************************************************)
FitsBuffer ==
    /\ NameHasRoom(sent) => Len(toClient) < BUFFER_SIZE
    /\ HasRoom(command)  => Len(toServer) < BUFFER_SIZE
===============================================================================
