------------------------ MODULE ClientMessageHandler ------------------------
(***************************************************************************)
(* The server's request handling: ClientMessageHandler                     *)
(* (server/client_message_handler.cpp) over the three managers it calls,   *)
(* with the part of the main loop (server/server.cpp) that turns the       *)
(* actions a handler returns into messages on the sender's queue.          *)
(*                                                                         *)
(* Each action is one datagram handled to its end, chosen from any address *)
(* with any content: the network may lose, repeat and reorder datagrams,   *)
(* so the receive queue holds nothing the handlers can rely on.  Handling  *)
(* is atomic because the main thread alone touches the managers; it shares *)
(* with the sender and the disk thread only two queues, to which it only   *)
(* adds.  A datagram that is answered by an early return without effect    *)
(* (commands and logout from an unknown address, an unknown type) is a     *)
(* stuttering step.                                                        *)
(*                                                                         *)
(* send_queue[a] is the part of the sender's queue that goes to a: the     *)
(* order of messages to different addresses is not observable.             *)
(***************************************************************************)
EXTENDS Notification

CONSTANTS MaxMsgId,             \* bound on a connection's message counter
          MaxNotificationId,    \* bound on the notifications stored
          MaxSendBacklog,       \* messages per address the sender may lag by
          MaxDiskBacklog        \* records the disk thread may lag by

VARIABLE send_queue

vars == <<connection_vars, user_vars, notification_vars, send_queue>>

ServerMsgType == {"LoginSuccess", "LoginFailInvalidUsername",
                  "LoginFailTooManySessions",
                  "LoginFailAlreadyConnectedToDifferentUser",
                  "FollowCommandSuccess", "FollowCommandFail",
                  "SendCommandSuccess", "SendCommandFail", "ServerSendCommand"}

\* ServerMessageData: username is the author of a ServerSendCommand or the
\* name of a follow response; body is the text of a ServerSendCommand.
ServerMessageData == [msg_id   : Nat,
                      msg_type : ServerMsgType,
                      username : Names \cup {NULL},
                      body     : Messages \cup {NULL}]

SendQueueTypeOK == send_queue \in [Addresses -> Seq(ServerMessageData)]

\* Every variable holds a value of its type.
TypeOK ==
  /\ ConnectionTypeOK
  /\ UserTypeOK
  /\ NotificationTypeOK
  /\ SendQueueTypeOK

Init ==
  /\ ConnectionInit
  /\ UserInit
  /\ NotificationInit
  /\ send_queue = [a \in Addresses |-> << >>]

-----------------------------------------------------------------------------
(***************************************************************************)
(* Messages, and the main loop's expansion of the actions of a handler.    *)
(***************************************************************************)
Response(id, type, name) ==
  [msg_id |-> id, msg_type |-> type, username |-> name, body |-> NULL]

Post(id, author, text) ==
  [msg_id |-> id, msg_type |-> "ServerSendCommand",
   username |-> get_username_from_user_id(author), body |-> text]

\* Mutant: the message goes to the other sessions as well.
to_address_and_sessions(a, msg) ==
  [b \in Addresses |-> IF b = a \/ address_exists(b)
                         THEN Append(send_queue[b], msg) ELSE send_queue[b]]

\* Mutant: the message is dropped.
to_address_nobody(a, msg) == send_queue

\* The one message of an ActionMessageAddress.
to_address(a, msg) == [send_queue EXCEPT ![a] = Append(@, msg)]

\* ActionMessageUser: msgs[u] go, in order, to every session that the
\* connection map conn has for u.  SessionsConsistent gives an address to
\* one user at most, so the CHOOSE has one candidate.
to_sessions(queue, conn, msgs) ==
  [a \in Addresses |->
     LET holders == {u \in DOMAIN conn : a \in get_address_from_user(conn, u)}
     IN  IF holders = {} THEN queue[a]
                         ELSE queue[a] \o msgs[CHOOSE u \in holders : TRUE]]

\* The bounds of the model: a datagram is handled only while the two
\* consumer threads lag by no more than the given backlogs, and only if its
\* handler keeps the counters within theirs.
ConsumersKeepUp ==
  /\ Len(user_data_update_queue) <= MaxDiskBacklog
  /\ \A a \in Addresses : Len(send_queue[a]) <= MaxSendBacklog

CountersBounded ==
  /\ last_notification_id <= MaxNotificationId
  /\ \A u \in DOMAIN user_id_to_connection_data :
       user_id_to_connection_data[u].last_msg_id <= MaxMsgId

-----------------------------------------------------------------------------
(***************************************************************************)
(* handle_login, by the answer it gives.                                   *)
(***************************************************************************)
LoginInvalidUsername(a, name) ==
  /\ ~is_valid_username(name)
  /\ send_queue' = to_address(a, Response(0, "LoginFailInvalidUsername", NULL))
  /\ UNCHANGED <<connection_vars, user_vars, notification_vars>>

\* Mutant: the limit is not checked.
TooManySessions_never(name) == FALSE

\* A valid name is registered first, whatever the login comes to.
TooManySessions(name) ==
  /\ user_connected(id_after_login(name))
  /\ ~session_available(id_after_login(name))

\* Mutant: an address may log in as another user.
LinkedToOther_never(a, name) == FALSE

LinkedToOther(a, name) ==
  get_user_id_from_address(a) \notin {INVALID_USER_ID, id_after_login(name)}

LoginTooManySessions(a, name) ==
  /\ is_valid_username(name)
  /\ TooManySessions(name)
  /\ add_or_update_user(name)
  /\ id_to_user' = registered(name)
  /\ send_queue' = to_address(a, Response(0, "LoginFailTooManySessions", NULL))
  /\ UNCHANGED <<connection_vars, notification_vars>>

LoginOtherUser(a, name) ==
  /\ is_valid_username(name)
  /\ ~TooManySessions(name)
  /\ LinkedToOther(a, name)
  /\ add_or_update_user(name)
  /\ id_to_user' = registered(name)
  /\ send_queue' =
       to_address(a, Response(0, "LoginFailAlreadyConnectedToDifferentUser",
                              NULL))
  /\ UNCHANGED <<connection_vars, notification_vars>>

(***************************************************************************)
(* A successful login.  The first session of a user also drains its        *)
(* pending notifications: each one found is sent with the next message id  *)
(* and counted down.                                                       *)
(***************************************************************************)
LoginSuccess(a, name) ==
  LET u       == id_after_login(name)
      first   == ~user_connected(u)
      drained == IF first THEN registered(name)[u].pending_notifications
                          ELSE << >>
      sent    == deliverable(drained)
      conn    == take_msg_ids(add_session(u, a), u, 1)
      id      == conn[u].last_msg_id
      posts   == [k \in DOMAIN sent |->
                    Post(id + k, sent[k].user_id,
                         notification_id_to_notification
                           [sent[k].notification_id].message)]
  IN  /\ is_valid_username(name)
      /\ ~TooManySessions(name)
      /\ ~LinkedToOther(a, name)
      /\ add_or_update_user(name)
      /\ id_to_user' = IF first
                         THEN drain_pending_notifications(registered(name), u)
                         ELSE registered(name)
      /\ user_id_to_connection_data' = take_msg_ids(conn, u, Len(sent))
      /\ address_to_user_id' = link_address(u, a)
      /\ notification_id_to_notification' = decrement_pending_users_from(sent)
      /\ UNCHANGED last_notification_id
      /\ send_queue' =
           to_sessions(to_address(a, Response(id, "LoginSuccess", NULL)), conn,
                       [v \in DOMAIN conn |-> IF v = u THEN posts ELSE << >>])

-----------------------------------------------------------------------------
handle_logout(a) ==
  /\ address_exists(a)
  /\ remove_address(a)
  /\ UNCHANGED <<user_vars, notification_vars, send_queue>>

\* The answer to a command of user u: it takes the next message id of u and
\* goes to every session of u.
respond(u, type, name) ==
  LET conn == take_msg_ids(user_id_to_connection_data, u, 1)
  IN  /\ user_id_to_connection_data' = conn
      /\ send_queue' =
           to_sessions(send_queue, conn,
             [v \in DOMAIN conn |->
                IF v = u THEN <<Response(conn[u].last_msg_id, type, name)>>
                         ELSE << >>])
      /\ UNCHANGED <<address_to_user_id, notification_vars>>

\* Mutant: one may follow oneself.
CanFollow_self(u, name) == get_user_id_from_username(name) # INVALID_USER_ID

\* handle_follow_command refuses an unknown name and one's own.
CanFollow(u, name) ==
  /\ get_user_id_from_username(name) # INVALID_USER_ID
  /\ get_username_from_user_id(u) # name

FollowFail(a, name) ==
  LET u == get_user_id_from_address(a)
  IN  /\ u # INVALID_USER_ID
      /\ ~CanFollow(u, name)
      /\ respond(u, "FollowCommandFail", name)
      /\ UNCHANGED user_vars

FollowSuccess(a, name) ==
  LET u == get_user_id_from_address(a)
  IN  /\ u # INVALID_USER_ID
      /\ CanFollow(u, name)
      /\ add_follow(get_user_id_from_username(name), u)
      /\ respond(u, "FollowCommandSuccess", name)

-----------------------------------------------------------------------------
(***************************************************************************)
(* handle_send_command.  The message id of the answer is taken first, but  *)
(* the answer is queued last, after the posts to the connected followers.  *)
(***************************************************************************)
SendInvalid(a, text) ==
  LET u == get_user_id_from_address(a)
  IN  /\ u # INVALID_USER_ID
      /\ ~is_valid_message(text)
      /\ respond(u, "SendCommandFail", NULL)
      /\ UNCHANGED user_vars

SendSuccess(a, text) ==
  LET u         == get_user_id_from_address(a)
      followers == get_followers(u)
      conn      == take_msg_ids(user_id_to_connection_data, u, 1)
      posts(v)  == [k \in 1 .. Occurrences(followers, v) |->
                      Post(conn[v].last_msg_id + k, u, text)]
      answer(v) == IF v = u
                     THEN <<Response(conn[u].last_msg_id, "SendCommandSuccess",
                                     NULL)>>
                     ELSE << >>
  IN  /\ u # INVALID_USER_ID
      /\ is_valid_message(text)
      /\ store_notification(u, followers, text)
      /\ user_id_to_connection_data' =
           [v \in DOMAIN conn |->
              [conn[v] EXCEPT !.last_msg_id = @ + Occurrences(followers, v)]]
      /\ send_queue' = to_sessions(send_queue, conn,
                           [v \in DOMAIN conn |-> posts(v) \o answer(v)])
      /\ UNCHANGED <<address_to_user_id, last_user_id, username_to_id,
                     user_data_update_queue>>

-----------------------------------------------------------------------------
\* The sender thread drains its queue and sends what it held.
SendQueueDrain ==
  /\ send_queue # [a \in Addresses |-> << >>]
  /\ send_queue' = [a \in Addresses |-> << >>]
  /\ UNCHANGED <<connection_vars, user_vars, notification_vars>>

\* The disk thread drains its queue.
DiskQueueDrain ==
  /\ user_data_update_queue # << >>
  /\ user_data_update_queue' = << >>
  /\ UNCHANGED <<connection_vars, last_user_id, username_to_id, id_to_user,
                 notification_vars, send_queue>>

handle_login(a, name) ==
  \/ LoginInvalidUsername(a, name)
  \/ LoginTooManySessions(a, name)
  \/ LoginOtherUser(a, name)
  \/ LoginSuccess(a, name)

handle_follow_command(a, name) == FollowFail(a, name) \/ FollowSuccess(a, name)

handle_send_command(a, text) == SendInvalid(a, text) \/ SendSuccess(a, text)

handle_incoming_datagram(a) ==
  \/ \E name \in Names : handle_login(a, name) \/ handle_follow_command(a, name)
  \/ \E text \in Messages : handle_send_command(a, text)
  \/ handle_logout(a)

Next ==
  \/ /\ ConsumersKeepUp
     /\ \E a \in Addresses : handle_incoming_datagram(a)
     /\ CountersBounded'
  \/ SendQueueDrain
  \/ DiskQueueDrain

Spec == Init /\ [][Next]_vars
-----------------------------------------------------------------------------
(***************************************************************************)
(* What a session is sent is numbered in order.  In the queue of an        *)
(* address, each message that carries an id (a failed login carries 0) has *)
(* a larger one than the message before it, unless it answers a login,     *)
(* which starts a new series; and the last one queued for a connected      *)
(* session is at most the user's counter, so what is queued after the      *)
(* sender has drained goes on from there.  The answer to a SEND takes its  *)
(* id before the posts to the followers and is queued after them, which    *)
(* keeps the order only because nobody follows itself.                     *)
(***************************************************************************)
MsgIdsIncrease ==
  \A a \in Addresses :
    LET queue == send_queue[a]
    IN  /\ \A i, j \in DOMAIN queue :
             (/\ i < j
              /\ queue[i].msg_id # 0 /\ queue[j].msg_id # 0
              /\ \A k \in (i + 1) .. j : queue[k].msg_type # "LoginSuccess")
             => queue[i].msg_id < queue[j].msg_id
        /\ \A i \in DOMAIN queue :
             (/\ address_exists(a)
              /\ \A k \in (i + 1) .. Len(queue) :
                   queue[k].msg_type # "LoginSuccess")
             => queue[i].msg_id <=
                  user_id_to_connection_data[address_to_user_id[a]].last_msg_id
=============================================================================
