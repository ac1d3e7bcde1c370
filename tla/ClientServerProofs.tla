------------------------- MODULE ClientServerProofs -------------------------
(***************************************************************************)
(* Proofs about ClientServer, for any number of clients and users, any     *)
(* number of datagrams lost and delivered again, and any number of clients *)
(* that fail.                                                              *)
(***************************************************************************)
EXTENDS ClientServer, ServerProofs

-----------------------------------------------------------------------------
(***************************************************************************)
(* What the network sees of the server's handlers.                         *)
(***************************************************************************)

\* The queue after is the queue before, with messages that a running client
\* knows behind it.
Grows(before, after) ==
  /\ DOMAIN before \subseteq DOMAIN after
  /\ \A i \in DOMAIN before : after[i] = before[i]
  /\ \A i \in DOMAIN after \ DOMAIN before : after[i].msg_type \notin LoginAnswers

\* The queue after is the queue before, with the answer to a login behind it
\* and then messages that a running client knows.
Answers(before, type, after) ==
  /\ DOMAIN before \subseteq DOMAIN after
  /\ \A i \in DOMAIN before : after[i] = before[i]
  /\ \E n \in DOMAIN after \ DOMAIN before :
       /\ after[n].msg_type = type
       /\ \A i \in DOMAIN after \ (DOMAIN before \cup {n}) :
            after[i].msg_type \notin LoginAnswers

LinkedAt(a) == a \in DOMAIN address_to_user_id

\* The session at a is what it was, and gets messages only if there is one.
SameSession(a) ==
  /\ LinkedAt(a)' <=> LinkedAt(a)
  /\ LinkedAt(a) => /\ address_to_user_id'[a] = address_to_user_id[a]
                    /\ Grows(send_queue[a], send_queue'[a])
  /\ ~LinkedAt(a) => send_queue'[a] = send_queue[a]

\* Names keep their ids.
SameNames ==
  \A name \in DOMAIN username_to_id :
    /\ name \in DOMAIN username_to_id'
    /\ username_to_id'[name] = username_to_id[name]

\* A login is answered.  If it succeeds the address speaks for the name.
LoginHandled(a, name) ==
  \E type \in LoginAnswers :
    /\ Answers(send_queue[a], type, send_queue'[a])
    /\ type = "LoginSuccess" => /\ LinkedAt(a)' /\ name \in DOMAIN username_to_id'
                                /\ address_to_user_id'[a] = username_to_id'[name]
    /\ type # "LoginSuccess" =>
         /\ LinkedAt(a)' <=> LinkedAt(a)
         /\ LinkedAt(a) => address_to_user_id'[a] = address_to_user_id[a]

\* A queue does not grow by nothing.
LEMMA GrowsByNothing == ASSUME NEW q PROVE Grows(q, q)
BY DEF Grows

\* What is appended makes a queue grow.
LEMMA GrowsThen ==
  ASSUME NEW q \in Seq(ServerMessageData), NEW s \in Seq(ServerMessageData),
         \A k \in DOMAIN s : s[k].msg_type \notin LoginAnswers
  PROVE  Grows(q, Then(q, s))
<1> DEFINE r == Then(q, s)
           n == Len(q)
           l == Len(s)
<1>1. /\ n \in Nat /\ l \in Nat /\ DOMAIN q = 1 .. n /\ DOMAIN s = 1 .. l
      /\ DOMAIN r = 1 .. n + l
      /\ \A i \in 1 .. n : r[i] = q[i]
      /\ \A i \in 1 .. n + l : i > n => r[i] = s[i - n]
  BY DEF Then
<1> HIDE DEF r, n, l
<1>2. \A i \in DOMAIN r \ DOMAIN q : i - n \in DOMAIN s /\ r[i] = s[i - n]
  BY <1>1
<1>3. DOMAIN q \subseteq DOMAIN r /\ \A i \in DOMAIN q : r[i] = q[i]
  BY <1>1
<1>4. QED
  BY <1>2, <1>3 DEF Grows, r

\* An answer and what is appended after it.
LEMMA AnswersThen ==
  ASSUME NEW q \in Seq(ServerMessageData), NEW m \in ServerMessageData,
         NEW s \in Seq(ServerMessageData),
         \A k \in DOMAIN s : s[k].msg_type \notin LoginAnswers
  PROVE  Answers(q, m.msg_type, Then(Append(q, m), s))
<1> DEFINE p == Append(q, m)
           r == Then(p, s)
           n == Len(q)
<1>1. /\ n \in Nat /\ DOMAIN q = 1 .. n /\ DOMAIN p = 1 .. n + 1
      /\ \A i \in 1 .. n : p[i] = q[i]
      /\ p[n + 1] = m /\ p \in Seq(ServerMessageData)
  OBVIOUS
<1> HIDE DEF p, n
<1>2. Grows(p, r)
  BY <1>1, GrowsThen
<1> HIDE DEF r
<1>3. n + 1 \in DOMAIN r \ DOMAIN q /\ r[n + 1].msg_type = m.msg_type
  BY <1>1, <1>2 DEF Grows
<1>4. \A i \in DOMAIN r \ (DOMAIN q \cup {n + 1}) : r[i].msg_type \notin LoginAnswers
  BY <1>1, <1>2 DEF Grows
<1>5. DOMAIN q \subseteq DOMAIN r /\ \A i \in DOMAIN q : r[i] = q[i]
  BY <1>1, <1>2 DEF Grows
<1>6. QED
  BY <1>3, <1>4, <1>5 DEF Answers, r, p

\* The queues hold messages.
LEMMA QueueType ==
  ASSUME ServerInv
  PROVE  send_queue \in [Addresses -> Seq(ServerMessageData)]
BY DEF ServerInv, TypeOK, SendQueueTypeOK

\* A handler whose messages all go to sessions that were there before.
LEMMA SeriesSeen ==
  ASSUME ServerInv, \E conn, msgs : SeriesSent(conn, msgs), NEW b \in Addresses
  PROVE  SameSession(b)
<1>1. PICK conn, msgs : SeriesSent(conn, msgs)
  OBVIOUS
<1>2. address_to_user_id' = address_to_user_id /\ SessionsMatch(conn, address_to_user_id)
  BY <1>1 DEF SeriesSent
<1>3. send_queue' = to_sessions(send_queue, conn, msgs)
  BY <1>1 DEF SeriesSent
<1>4. CASE ~LinkedAt(b)
  <2>1. send_queue'[b] = send_queue[b]
    BY <1>2, <1>3, <1>4, ToNobody DEF LinkedAt
  <2>2. QED
    BY <1>2, <1>4, <2>1 DEF SameSession, LinkedAt
<1>5. CASE LinkedAt(b)
  <2>1. PICK v : v = address_to_user_id[b]
    OBVIOUS
  <2>2. v \in DOMAIN conn /\ send_queue'[b] = Then(send_queue[b], msgs[v])
    BY <1>2, <1>3, <1>5, <2>1, ToSession DEF LinkedAt
  <2>3. /\ msgs[v] \in Seq(ServerMessageData)
        /\ \A k \in DOMAIN msgs[v] : msgs[v][k].msg_type \notin LoginAnswers
    BY <1>1, <2>2 DEF SeriesSent
  <2>4. send_queue[b] \in Seq(ServerMessageData)
    BY QueueType
  <2>5. Grows(send_queue[b], send_queue'[b])
    BY <2>2, <2>3, <2>4, GrowsThen
  <2>6. QED
    BY <1>2, <1>5, <2>5 DEF SameSession, LinkedAt
<1>6. QED
  BY <1>4, <1>5

\* A login that is refused.
LEMMA RefusedSeen ==
  ASSUME ServerInv, NEW a \in Addresses, NEW name,
         NEW type \in LoginAnswers \ {"LoginSuccess"},
         send_queue' = to_address(a, Response(0, type, NULL)),
         UNCHANGED connection_vars
  PROVE  /\ \A b \in Addresses \ {a} : SameSession(b)
         /\ LoginHandled(a, name)
<1> DEFINE m == Response(0, type, NULL)
<1>1. m \in ServerMessageData /\ m.msg_type = type
  BY DEF Response, ServerMessageData, ServerMsgType, LoginAnswers
<1> HIDE DEF m
<1>2. send_queue \in [Addresses -> Seq(ServerMessageData)]
  BY QueueType
<1>3. /\ send_queue'[a] = Append(send_queue[a], m)
      /\ \A b \in Addresses \ {a} : send_queue'[b] = send_queue[b]
  BY <1>2 DEF to_address, m
<1>4. address_to_user_id' = address_to_user_id
  BY DEF connection_vars
<1>5. \A b \in Addresses \ {a} : SameSession(b)
  BY <1>3, <1>4, GrowsByNothing DEF SameSession, LinkedAt
<1>6. Answers(send_queue[a], type, send_queue'[a])
  <2>1. << >> \in Seq(ServerMessageData) /\ DOMAIN << >> = {}
    OBVIOUS
  <2>2. Answers(send_queue[a], m.msg_type, Then(Append(send_queue[a], m), << >>))
    BY <1>1, <1>2, <2>1, AnswersThen
  <2>3. PICK q : q = Append(send_queue[a], m)
    OBVIOUS
  <2>4. q \in Seq(ServerMessageData)
    BY <1>1, <1>2, <2>3
  <2>5. Then(q, << >>) = q
    BY <2>4 DEF Then
  <2>6. QED
    BY <1>1, <1>3, <2>2, <2>3, <2>5
<1>7. QED
  BY <1>4, <1>5, <1>6 DEF LoginHandled, LinkedAt

\* A login that succeeds.
LEMMA SuccessSeen ==
  ASSUME ServerInv, NEW a \in Addresses, NEW name \in ValidNames,
         LoginEffect(a, name), add_or_update_user(name)
  PROVE  /\ \A b \in Addresses \ {a} : SameSession(b)
         /\ LoginHandled(a, name)
<1>1. PICK u \in UserIds, posts \in Seq(ServerMessageData) :
        LET conn == take_msg_ids(add_session(u, a), u, 1)
            id   == conn[u].last_msg_id
        IN  /\ u = id_after_login(name)
            /\ user_connected(u) => session_available(u) /\ posts = << >>
            /\ get_user_id_from_address(a) \in {INVALID_USER_ID, u}
            /\ \A k \in DOMAIN posts :
                 /\ posts[k].msg_id = id + k
                 /\ posts[k].msg_type = "ServerSendCommand"
            /\ user_id_to_connection_data' = take_msg_ids(conn, u, Len(posts))
            /\ address_to_user_id' = link_address(u, a)
            /\ send_queue' =
                 to_sessions(to_address(a, Response(id, "LoginSuccess", NULL)),
                   conn, [v \in DOMAIN conn |-> IF v = u THEN posts ELSE << >>])
  BY DEF LoginEffect
<1> DEFINE added == add_session(u, a)
           conn  == take_msg_ids(added, u, 1)
           id    == conn[u].last_msg_id
           hello == Response(id, "LoginSuccess", NULL)
           queue == to_address(a, hello)
           msgs  == [v \in DOMAIN conn |-> IF v = u THEN posts ELSE << >>]
           addr0 == address_to_user_id
           addr  == link_address(u, a)
<1>2. /\ u = id_after_login(name)
      /\ user_connected(u) => session_available(u) /\ posts = << >>
      /\ \A k \in DOMAIN posts : posts[k].msg_type \notin LoginAnswers
      /\ address_to_user_id' = addr
      /\ send_queue' = to_sessions(queue, conn, msgs)
  BY <1>1 DEF LoginAnswers
<1>3. ConnectionTypeOK /\ SessionsConsistent
  BY DEF ServerInv, TypeOK
<1>4. /\ ConnMap(added) /\ AddrMap(addr) /\ SessionsMatch(added, addr)
      /\ DOMAIN added = DOMAIN user_id_to_connection_data \cup {u}
  BY <1>1, <1>3, AddSession
<1>5. /\ a \in DOMAIN addr /\ addr[a] = u
      /\ \A b \in Addresses \ {a} :
           /\ b \in DOMAIN addr <=> b \in DOMAIN addr0
           /\ b \in DOMAIN addr0 => addr[b] = addr0[b]
  BY <1>2, <1>3, AddedSession
<1> HIDE DEF added, addr
<1>6. /\ ConnMap(conn) /\ DOMAIN conn = DOMAIN added
      /\ \A v \in DOMAIN added :
           /\ conn[v].session_one = added[v].session_one
           /\ conn[v].session_two = added[v].session_two
  BY <1>4, TakeMsgIds
<1>7. SessionsMatch(conn, addr)
  BY <1>4, <1>6, SameSessions
<1> HIDE DEF conn
<1>8. u \in DOMAIN conn /\ id \in Nat
  BY <1>4, <1>6 DEF ConnMap, IsMap, UserConnectionData
<1> HIDE DEF id
<1>9. hello \in ServerMessageData /\ hello.msg_type = "LoginSuccess"
  BY <1>8 DEF Response, ServerMessageData, ServerMsgType
<1> HIDE DEF hello
<1>10. send_queue \in [Addresses -> Seq(ServerMessageData)]
  BY QueueType
<1>11. /\ queue[a] = Append(send_queue[a], hello)
       /\ \A b \in Addresses \ {a} : queue[b] = send_queue[b]
  BY <1>10 DEF to_address
<1>12. \A v \in DOMAIN conn : msgs[v] = IF v = u THEN posts ELSE << >>
  OBVIOUS
<1> HIDE DEF queue, msgs
<1>13. Answers(send_queue[a], "LoginSuccess", send_queue'[a])
  <2>1. send_queue'[a] = Then(queue[a], msgs[addr[a]])
    BY <1>2, <1>5, <1>7, ToSession
  <2>2. send_queue'[a] = Then(Append(send_queue[a], hello), posts)
    BY <1>5, <1>8, <1>11, <1>12, <2>1
  <2>3. send_queue[a] \in Seq(ServerMessageData)
    BY <1>10
  <2>4. Answers(send_queue[a], hello.msg_type,
                Then(Append(send_queue[a], hello), posts))
    BY <1>2, <1>9, <2>3, AnswersThen
  <2>5. QED
    BY <1>9, <2>2, <2>4
<1>14. ASSUME NEW b \in Addresses \ {a}
       PROVE  SameSession(b)
  <2>1. send_queue'[b] = send_queue[b]
    <3>1. CASE b \notin DOMAIN addr
      <4>1. send_queue'[b] = queue[b]
        BY <1>2, <1>7, <3>1, ToNobody
      <4>2. QED
        BY <1>11, <4>1
    <3>2. CASE b \in DOMAIN addr
      <4>1. PICK v : v = addr[b]
        OBVIOUS
      <4>2. v \in DOMAIN conn /\ send_queue'[b] = Then(queue[b], msgs[v])
        BY <1>2, <1>7, <3>2, <4>1, ToSession
      <4>3. b \in DOMAIN addr0 /\ v = addr0[b]
        BY <1>5, <3>2, <4>1
      <4>4. v \in DOMAIN user_id_to_connection_data
        BY <1>3, <4>3, CounterType
      <4>5. msgs[v] = << >>
        BY <1>2, <1>12, <4>2, <4>4 DEF user_connected
      <4>6. Then(send_queue[b], << >>) = send_queue[b]
        BY <1>10 DEF Then
      <4>7. QED
        BY <1>11, <4>2, <4>5, <4>6
    <3>3. QED
      BY <3>1, <3>2
  <2>2. QED
    BY <1>2, <1>5, <2>1, GrowsByNothing DEF SameSession, LinkedAt
<1>15. name \in DOMAIN username_to_id' /\ username_to_id'[name] = u
  <2>1. CASE Registers(name)
    BY <1>2, <2>1 DEF add_or_update_user, id_after_login, Put
  <2>2. CASE ~Registers(name)
    BY <1>2, <2>2, RegisterFacts
    DEF add_or_update_user, id_after_login, ServerInv, TypeOK
  <2>3. QED
    BY <2>1, <2>2
<1>16. LoginHandled(a, name)
  <2>1. "LoginSuccess" \in LoginAnswers
    BY DEF LoginAnswers
  <2>2. LinkedAt(a)' /\ address_to_user_id'[a] = username_to_id'[name]
    BY <1>2, <1>5, <1>15 DEF LinkedAt
  <2>3. QED
    BY <1>13, <1>15, <2>1, <2>2 DEF LoginHandled
<1>17. QED
  BY <1>14, <1>16

\* Registering a name keeps the ids of the others.
LEMMA NamesKept ==
  ASSUME ServerInv, NEW name \in ValidNames, add_or_update_user(name)
  PROVE  SameNames
<1>1. Registers(name) => name \notin DOMAIN username_to_id
  BY RegisterFacts DEF ServerInv, TypeOK
<1>2. QED
  BY <1>1 DEF add_or_update_user, SameNames, Put

\* Any login of a valid name.
LEMMA LoginSeen ==
  ASSUME ServerInv, NEW a \in Addresses, NEW name \in ValidNames,
         handle_login(a, name)
  PROVE  /\ ServerInv' /\ SameNames
         /\ \A b \in Addresses \ {a} : SameSession(b)
         /\ LoginHandled(a, name)
<1>1. name \in Names
  BY ValidNamesAreNames
<1>2. ServerInv'
  BY <1>1, LoginInvalidUsernameInv, RefusedLogins, LoginSuccessInv DEF handle_login
<1>3. CASE LoginSuccess(a, name)
  <2>1. add_or_update_user(name)
    BY <1>3 DEF LoginSuccess
  <2>2. LoginEffect(a, name)
    BY <1>1, <1>3, LoginSuccessInv
  <2>3. QED
    BY <1>2, <2>1, <2>2, NamesKept, SuccessSeen
<1>4. CASE LoginTooManySessions(a, name)
  <2>1. /\ add_or_update_user(name) /\ UNCHANGED connection_vars
        /\ send_queue' = to_address(a, Response(0, "LoginFailTooManySessions", NULL))
    BY <1>4 DEF LoginTooManySessions
  <2>2. "LoginFailTooManySessions" \in LoginAnswers \ {"LoginSuccess"}
    BY DEF LoginAnswers
  <2>3. QED
    BY <1>2, <2>1, <2>2, NamesKept, RefusedSeen
<1>5. CASE LoginOtherUser(a, name)
  <2>1. /\ add_or_update_user(name) /\ UNCHANGED connection_vars
        /\ send_queue' =
             to_address(a, Response(0, "LoginFailAlreadyConnectedToDifferentUser",
                                    NULL))
    BY <1>5 DEF LoginOtherUser
  <2>2. "LoginFailAlreadyConnectedToDifferentUser" \in LoginAnswers \ {"LoginSuccess"}
    BY DEF LoginAnswers
  <2>3. QED
    BY <1>2, <2>1, <2>2, NamesKept, RefusedSeen
<1>6. QED
  BY <1>3, <1>4, <1>5 DEF handle_login, LoginInvalidUsername, is_valid_username

\* A command, from wherever it comes.
LEMMA CommandSeen ==
  ASSUME ServerInv, NEW a \in Addresses,
         \/ \E name \in Names : handle_follow_command(a, name)
         \/ \E text \in Messages : handle_send_command(a, text)
  PROVE  /\ ServerInv' /\ SameNames
         /\ \A b \in Addresses : SameSession(b)
<1>1. ServerInv'
  BY RefusedCommands, FollowSuccessInv, SendSuccessInv
  DEF handle_follow_command, handle_send_command
<1>2. \E conn, msgs : SeriesSent(conn, msgs)
  BY CommandSends
<1>3. username_to_id' = username_to_id
  BY DEF handle_follow_command, handle_send_command, FollowFail, FollowSuccess,
       SendInvalid, SendSuccess, add_follow, user_vars
<1>4. QED
  BY <1>1, <1>2, <1>3, SeriesSeen DEF SameNames

\* A logout.
LEMMA LogoutSeen ==
  ASSUME ServerInv, NEW a \in Addresses, handle_logout(a)
  PROVE  /\ ServerInv' /\ SameNames
         /\ \A b \in Addresses \ {a} : SameSession(b)
         /\ ~LinkedAt(a)' /\ send_queue'[a] = send_queue[a]
<1>1. ServerInv'
  BY LogoutInv
<1>2. /\ a \in DOMAIN address_to_user_id /\ remove_address(a)
      /\ send_queue' = send_queue /\ username_to_id' = username_to_id
  BY DEF handle_logout, address_exists, user_vars
<1>3. a \in get_address_from_user(user_id_to_connection_data, address_to_user_id[a])
  BY <1>2 DEF ServerInv, SessionsConsistent, SessionsMatch
<1>4. address_to_user_id' = Erase(address_to_user_id, a)
  BY <1>2, <1>3 DEF remove_address
<1>5. /\ DOMAIN address_to_user_id' = DOMAIN address_to_user_id \ {a}
      /\ \A b \in DOMAIN address_to_user_id \ {a} :
           address_to_user_id'[b] = address_to_user_id[b]
  BY <1>4 DEF Erase
<1>6. QED
  BY <1>1, <1>2, <1>5, GrowsByNothing DEF SameNames, SameSession, LinkedAt

-----------------------------------------------------------------------------
(***************************************************************************)
(* The inductive invariant.  RunningHasSession and NobodyConfused follow   *)
(* from where the answer to a login can be: a client writes one login, so  *)
(* unless a datagram is repeated there is one answer to it, in the queue   *)
(* or under way, and an address that is told LoginSuccess is linked before *)
(* it is told.                                                             *)
(***************************************************************************)
CSTypes ==
  /\ client \in [Addresses -> [state : {"off", "waiting", "running", "refused",
                                        "confused", "ended"},
                               name  : ValidNames \cup {NULL}]]
  /\ trouble \in [duplicates : Nat, losses : Nat, failures : Nat]
  /\ \A m \in answers : m.to \in Addresses /\ m.data \in ServerMessageData

\* A client writes its one login first and its Logout last.
RequestOK(r) ==
  /\ r.from \in Addresses
  /\ client[r.from].state # "off"
  /\ \/ /\ r = Request(r.from, "ClientLogin", client[r.from].name, 0)
        /\ client[r.from].name \in ValidNames
     \/ /\ client[r.from].state # "waiting"
        /\ \/ r.msg_type = "ClientFollow" /\ r.arg \in ValidNames
           \/ r.msg_type = "ClientSend" /\ r.arg \in ValidMessages
           \/ r.msg_type = "ClientLogout" /\ client[r.from].state = "ended"

\* The server has heard nothing from a and has nothing for it.
Untouched(a) ==
  /\ ~LinkedAt(a)
  /\ send_queue[a] = << >>
  /\ \A m \in answers : m.to # a

\* a speaks for the user whose name its client gave.
SpeaksForItsUser(a) ==
  /\ client[a].name \in DOMAIN username_to_id
  /\ username_to_id[client[a].name] = address_to_user_id[a]

\* LoginSuccess is on its way to a or has reached it.
Welcomed(a) ==
  \/ client[a].state \in {"running", "confused"}
  \/ \E i \in DOMAIN send_queue[a] : send_queue[a][i].msg_type = "LoginSuccess"
  \/ \E m \in answers : m.to = a /\ m.data.msg_type = "LoginSuccess"

LoginUnderway(a) == \E r \in requests : r.from = a /\ r.msg_type = "ClientLogin"

LogoutUnderway(a) == \E r \in requests : r.from = a /\ r.msg_type = "ClientLogout"

QueuedAnswer(a, i) ==
  i \in DOMAIN send_queue[a] /\ send_queue[a][i].msg_type \in LoginAnswers

SentAnswer(a, m) ==
  m \in answers /\ m.to = a /\ m.data.msg_type \in LoginAnswers

\* The login, or one answer to it, is under way, or it has been answered.
OneAnswer(a) ==
  /\ client[a].state # "confused"
  /\ LoginUnderway(a) => Untouched(a) /\ client[a].state # "running"
  /\ client[a].state = "running" =>
       (\A i : ~QueuedAnswer(a, i)) /\ (\A m : ~SentAnswer(a, m))
  /\ \A i, j : QueuedAnswer(a, i) /\ QueuedAnswer(a, j) => i = j
  /\ \A m, n : SentAnswer(a, m) /\ SentAnswer(a, n) => m = n
  /\ \A i, m : ~(QueuedAnswer(a, i) /\ SentAnswer(a, m))

\* A client that has ended has written its Logout.
LeftInOrder(a) ==
  client[a].state = "ended" =>
    /\ ~LoginUnderway(a)
    /\ LinkedAt(a) => LogoutUnderway(a)

\* Something is to come for a client that waits.
WillHear(a) ==
  client[a].state = "waiting" =>
    \/ \E r \in requests : r.from = a
    \/ send_queue[a] # << >>
    \/ \E m \in answers : m.to = a

ClientOK(a) ==
  /\ client[a].state = "off" => Untouched(a)
  /\ LinkedAt(a) => SpeaksForItsUser(a)
  /\ client[a].state # "ended" /\ Welcomed(a) => LinkedAt(a)
  /\ trouble.duplicates = 0 => OneAnswer(a)
  /\ trouble.duplicates = 0 /\ trouble.failures = 0 /\ trouble.losses = 0
       => LeftInOrder(a)
  /\ trouble.losses = 0 => WillHear(a)

CSInv ==
  /\ ServerInv
  /\ CSTypes
  /\ \A r \in requests : RequestOK(r)
  /\ \A a \in Addresses : ClientOK(a)

-----------------------------------------------------------------------------
(***************************************************************************)
(* What the invariant implies.                                             *)
(***************************************************************************)

\* An address that speaks for its user is one of the user's sessions.
LEMMA LinkedIsSession ==
  ASSUME ServerInv, NEW a \in Addresses, LinkedAt(a), SpeaksForItsUser(a)
  PROVE  a \in SessionsOf(client[a].name)
BY DEF LinkedAt, SpeaksForItsUser, SessionsOf, get_user_id_from_username,
     ServerInv, SessionsConsistent, SessionsMatch

\* A session of a user's name is linked to the user's id.
LEMMA SessionIsLinked ==
  ASSUME ServerInv, NEW name, NEW a \in SessionsOf(name)
  PROVE  /\ LinkedAt(a) /\ name \in DOMAIN username_to_id
         /\ address_to_user_id[a] = username_to_id[name]
<1>1. ConnMap(user_id_to_connection_data)
  BY DEF ServerInv, TypeOK, ConnectionTypeOK, ConnMap
<1>2. get_user_id_from_username(name) \in DOMAIN user_id_to_connection_data
  BY DEF SessionsOf, get_address_from_user
<1>3. get_user_id_from_username(name) # INVALID_USER_ID
  BY <1>1, <1>2 DEF ConnMap, IsMap, UserIds
<1>4. name \in DOMAIN username_to_id
  BY <1>3 DEF get_user_id_from_username
<1>5. a \in get_address_from_user(user_id_to_connection_data, username_to_id[name])
  BY <1>4 DEF SessionsOf, get_user_id_from_username
<1>6. QED
  BY <1>2, <1>4, <1>5 DEF ServerInv, SessionsConsistent, SessionsMatch, LinkedAt,
       get_user_id_from_username

\* A user has at most two sessions.
LEMMA AtMostTwo ==
  ASSUME NEW conn, NEW u, NEW S, S \subseteq get_address_from_user(conn, u)
  PROVE  Cardinality(S) <= 2
<1>1. PICK x, y : S \subseteq {x, y}
  BY DEF get_address_from_user
<1>2. IsFiniteSet({x}) /\ Cardinality({x}) = 1
  BY FS_Singleton
<1>3. IsFiniteSet({x} \cup {y}) /\ Cardinality({x} \cup {y}) <= 2
  <2>1. /\ IsFiniteSet({x} \cup {y})
        /\ Cardinality({x} \cup {y}) =
             IF y \in {x} THEN Cardinality({x}) ELSE Cardinality({x}) + 1
    BY <1>2, FS_AddElement
  <2>2. QED
    BY <1>2, <2>1
<1>4. {x, y} = {x} \cup {y}
  OBVIOUS
<1>5. /\ IsFiniteSet(S) /\ Cardinality(S) <= Cardinality({x} \cup {y})
      /\ Cardinality(S) \in Nat /\ Cardinality({x} \cup {y}) \in Nat
  BY <1>1, <1>3, <1>4, FS_Subset, FS_CardinalityType
<1>6. QED
  BY <1>3, <1>5

\* The invariant implies the four properties.
LEMMA Promises ==
  CSInv => RunningHasSession /\ NobodyConfused /\ LoginAnswered /\ SessionsInUse
<1> SUFFICES ASSUME CSInv
             PROVE  RunningHasSession /\ NobodyConfused /\ LoginAnswered
                      /\ SessionsInUse
  OBVIOUS
<1>0. ServerInv /\ \A a \in Addresses : ClientOK(a)
  BY DEF CSInv
<1>1. RunningHasSession
  <2> SUFFICES ASSUME NEW name \in ValidNames
               PROVE  /\ Running(name) \subseteq SessionsOf(name)
                      /\ Cardinality(Running(name)) <= 2
    BY DEF RunningHasSession
  <2>1. ASSUME NEW a \in Running(name)
        PROVE  a \in SessionsOf(name)
    <3>1. a \in Addresses /\ client[a].state = "running" /\ client[a].name = name
      BY DEF Running
    <3>2. LinkedAt(a) /\ SpeaksForItsUser(a)
      BY <1>0, <3>1 DEF ClientOK, Welcomed
    <3>3. QED
      BY <1>0, <3>1, <3>2, LinkedIsSession
  <2>2. Running(name) \subseteq SessionsOf(name)
    BY <2>1
  <2>3. Cardinality(Running(name)) <= 2
    BY <2>2, AtMostTwo DEF SessionsOf
  <2>4. QED
    BY <2>2, <2>3
<1>2. NobodyConfused
  BY <1>0 DEF ClientOK, OneAnswer, NobodyConfused
<1>3. LoginAnswered
  BY <1>0 DEF ClientOK, WillHear, LoginAnswered
<1>4. SessionsInUse
  <2> SUFFICES ASSUME NothingWentWrong, NEW name \in ValidNames,
                      NEW a \in Addresses, a \in SessionsOf(name)
               PROVE  client[a].name = name /\ InUse(a)
    BY DEF SessionsInUse
  <2>1. /\ LinkedAt(a) /\ name \in DOMAIN username_to_id
        /\ address_to_user_id[a] = username_to_id[name]
    BY <1>0, SessionIsLinked
  <2>2. SpeaksForItsUser(a)
    BY <1>0, <2>1 DEF ClientOK
  <2>3. client[a].name = name
    BY <1>0, <2>1, <2>2 DEF SpeaksForItsUser, ServerInv, RegistryConsistent
  <2>4. a \in SessionsOf(client[a].name)
    BY <1>0, <2>1, <2>2, LinkedIsSession
  <2>5. client[a].state # "refused"
    BY <2>4 DEF NothingWentWrong, TurnedAway
  <2>6. client[a].state # "off"
    BY <1>0, <2>1 DEF ClientOK, Untouched
  <2>7. client[a].state # "confused"
    BY <1>0 DEF ClientOK, OneAnswer, NothingWentWrong
  <2>8. client[a].state = "ended" => LogoutUnderway(a)
    BY <1>0, <2>1 DEF ClientOK, LeftInOrder, NothingWentWrong
  <2>9. client[a].state \in {"off", "waiting", "running", "refused", "confused",
                             "ended"}
    BY DEF CSInv, CSTypes
  <2>10. InUse(a)
    BY <2>5, <2>6, <2>7, <2>8, <2>9 DEF InUse, LogoutUnderway
  <2>11. QED
    BY <2>3, <2>10
<1>5. QED
  BY <1>1, <1>2, <1>3, <1>4

\* At the start every client is off and nothing is under way.
LEMMA CSInitInv == CSInit => CSInv
<1> SUFFICES ASSUME CSInit PROVE CSInv
  OBVIOUS
<1>1. ServerInv
  BY InitServerInv DEF CSInit
<1>2. CSTypes
  BY DEF CSInit, CSTypes
<1>3. \A a \in Addresses :
        /\ client[a].state = "off" /\ send_queue[a] = << >> /\ ~LinkedAt(a)
        /\ requests = {} /\ answers = {}
  BY DEF CSInit, Init, ConnectionInit, EmptyMap, LinkedAt
<1>4. ASSUME NEW a \in Addresses
      PROVE  ClientOK(a)
  <2>1. /\ client[a].state = "off" /\ send_queue[a] = << >> /\ ~LinkedAt(a)
        /\ requests = {} /\ answers = {}
    BY <1>3
  <2>2. Untouched(a) /\ ~Welcomed(a)
    BY <2>1 DEF Untouched, Welcomed
  <2>3. OneAnswer(a)
    BY <2>1 DEF OneAnswer, LoginUnderway, QueuedAnswer, SentAnswer
  <2>4. QED
    BY <2>1, <2>2, <2>3 DEF ClientOK, LeftInOrder, WillHear
<1>5. \A r \in requests : RequestOK(r)
  BY DEF CSInit
<1>6. QED
  BY <1>1, <1>2, <1>4, <1>5 DEF CSInv

-----------------------------------------------------------------------------
(***************************************************************************)
(* Steps.                                                                  *)
(***************************************************************************)

\* Troubles are counted up.
TroubleStays ==
  /\ trouble'.duplicates = 0 => trouble.duplicates = 0
  /\ trouble'.losses = 0 => trouble.losses = 0
  /\ trouble'.failures = 0 => trouble.failures = 0

\* Nothing comes or goes on the network that is from or for b.
SameDatagrams(b) ==
  /\ \A r : r.from = b => (r \in requests' <=> r \in requests)
  /\ \A m : m.to = b => (m \in answers' <=> m \in answers)

\* A trouble is counted, and the others are what they were.
LEMMA TroubleCounts ==
  ASSUME CSTypes, NEW kind \in {"duplicates", "losses", "failures"}, Trouble(kind)
  PROVE  /\ TroubleStays /\ trouble'[kind] # 0
         /\ trouble' \in [duplicates : Nat, losses : Nat, failures : Nat]
<1>1. /\ trouble \in [duplicates : Nat, losses : Nat, failures : Nat]
      /\ trouble' = [trouble EXCEPT ![kind] = @ + 1]
  BY DEF CSTypes, Trouble
<1>2. QED
  BY <1>1 DEF TroubleStays

\* What a queue that has grown says of the answers in it.
LEMMA GrownQueue ==
  ASSUME NEW q, NEW r, Grows(q, r)
  PROVE  /\ \A i : i \in DOMAIN r /\ r[i].msg_type \in LoginAnswers
               <=> i \in DOMAIN q /\ q[i].msg_type \in LoginAnswers
         /\ \A i : i \in DOMAIN r /\ r[i].msg_type = "LoginSuccess"
               <=> i \in DOMAIN q /\ q[i].msg_type = "LoginSuccess"
BY DEF Grows, LoginAnswers

\* A client that a step is not about.
LEMMA Bystander ==
  ASSUME ServerInv, ServerInv', NEW b \in Addresses, ClientOK(b),
         client'[b] = client[b], SameSession(b), SameNames, SameDatagrams(b),
         TroubleStays
  PROVE  ClientOK(b)'
<1>1. /\ send_queue[b] \in Seq(ServerMessageData)
      /\ send_queue'[b] \in Seq(ServerMessageData)
  BY DEF ServerInv, TypeOK, SendQueueTypeOK
<1>2. Grows(send_queue[b], send_queue'[b])
  BY GrowsByNothing DEF SameSession
<1>3. /\ \A i : QueuedAnswer(b, i)' <=> QueuedAnswer(b, i)
      /\ \A m : SentAnswer(b, m)' <=> SentAnswer(b, m)
  BY <1>2, GrownQueue DEF QueuedAnswer, SentAnswer, SameDatagrams
<1>4. Welcomed(b)' <=> Welcomed(b)
  <2>1. (\E i \in DOMAIN send_queue'[b] : send_queue'[b][i].msg_type = "LoginSuccess")
          <=> \E i \in DOMAIN send_queue[b] : send_queue[b][i].msg_type = "LoginSuccess"
    BY <1>2, GrownQueue
  <2>2. (\E m \in answers' : m.to = b /\ m.data.msg_type = "LoginSuccess")
          <=> \E m \in answers : m.to = b /\ m.data.msg_type = "LoginSuccess"
    BY DEF SameDatagrams
  <2>3. QED
    BY <2>1, <2>2 DEF Welcomed
<1>5. /\ LoginUnderway(b)' <=> LoginUnderway(b)
      /\ LogoutUnderway(b)' <=> LogoutUnderway(b)
  BY DEF LoginUnderway, LogoutUnderway, SameDatagrams
<1>6. Untouched(b) => Untouched(b)'
  BY DEF Untouched, SameSession, SameDatagrams
<1>7. LinkedAt(b)' <=> LinkedAt(b)
  BY DEF SameSession
<1>8. LinkedAt(b) /\ SpeaksForItsUser(b) => SpeaksForItsUser(b)'
  BY DEF SameSession, SameNames, SpeaksForItsUser
<1>9. OneAnswer(b) => OneAnswer(b)'
  BY <1>3, <1>5, <1>6 DEF OneAnswer
<1>10. LeftInOrder(b) => LeftInOrder(b)'
  BY <1>5, <1>7 DEF LeftInOrder
<1>11. WillHear(b) => WillHear(b)'
  <2>1. send_queue[b] # << >> => send_queue'[b] # << >>
    <3>1. send_queue[b] # << >> => 1 \in DOMAIN send_queue[b]
      BY <1>1
    <3>2. 1 \in DOMAIN send_queue'[b] => send_queue'[b] # << >>
      BY <1>1
    <3>3. QED
      BY <1>2, <3>1, <3>2 DEF Grows
  <2>2. (\E r \in requests : r.from = b) => \E r \in requests' : r.from = b
    BY DEF SameDatagrams
  <2>3. (\E m \in answers : m.to = b) => \E m \in answers' : m.to = b
    BY DEF SameDatagrams
  <2>4. QED
    BY <2>1, <2>2, <2>3 DEF WillHear
<1>12. QED
  BY <1>4, <1>6, <1>7, <1>8, <1>9, <1>10, <1>11 DEF ClientOK, TroubleStays

\* The server is not about a step of a client.
LEMMA ServerStill ==
  ASSUME ServerInv, UNCHANGED vars
  PROVE  ServerInv' /\ SameNames /\ \A b \in Addresses : SameSession(b)
<1>1. ServerInv'
  BY NextServerInv
<1>2. /\ username_to_id' = username_to_id /\ send_queue' = send_queue
      /\ address_to_user_id' = address_to_user_id
  BY DEF vars, user_vars, connection_vars
<1>3. QED
  BY <1>1, <1>2, GrowsByNothing DEF SameNames, SameSession, LinkedAt

\* A step of the client at a alone: the other clients keep their part.
LEMMA Alone ==
  ASSUME CSInv, NEW a \in Addresses, UNCHANGED vars, TroubleStays,
         \A b \in Addresses \ {a} : client'[b] = client[b] /\ SameDatagrams(b)
  PROVE  /\ ServerInv' /\ SameNames /\ SameSession(a)
         /\ \A b \in Addresses \ {a} : ClientOK(b)'
<1>1. ServerInv' /\ SameNames /\ \A b \in Addresses : SameSession(b)
  BY ServerStill DEF CSInv
<1>2. QED
  BY <1>1, Bystander DEF CSInv

\* A request stays what it was when its client's name does, and its client
\* neither starts nor waits anew.
LEMMA RequestKept ==
  ASSUME NEW r, RequestOK(r), client'[r.from].name = client[r.from].name,
         client'[r.from].state # "off",
         client'[r.from].state = "waiting" => client[r.from].state = "waiting",
         client[r.from].state = "ended" => client'[r.from].state = "ended"
  PROVE  RequestOK(r)'
BY DEF RequestOK

\* A client starts.
LEMMA StartStep ==
  ASSUME CSInv, NEW a \in Addresses, NEW name \in ValidNames, ClientStarts(a, name)
  PROVE  CSInv'
<1> DEFINE login == Request(a, "ClientLogin", name, 0)
<1>1. /\ client[a].state = "off" /\ UNCHANGED vars
      /\ client' = [client EXCEPT ![a] = [state |-> "waiting", name |-> name]]
      /\ requests' = requests \cup {login}
      /\ answers' = answers /\ trouble' = trouble
  BY DEF ClientStarts
<1>2. login.from = a /\ login.msg_type = "ClientLogin"
  BY DEF Request
<1> HIDE DEF login
<1>3. CSTypes /\ ClientOK(a) /\ \A r \in requests : RequestOK(r)
  BY DEF CSInv
<1>4. /\ client'[a] = [state |-> "waiting", name |-> name]
      /\ \A b \in Addresses \ {a} : client'[b] = client[b]
      /\ CSTypes'
  BY <1>1, <1>3 DEF CSTypes
<1>5. TroubleStays /\ \A b \in Addresses \ {a} : SameDatagrams(b)
  BY <1>1, <1>2 DEF TroubleStays, SameDatagrams
<1>6. /\ ServerInv' /\ SameNames /\ SameSession(a)
      /\ \A b \in Addresses \ {a} : ClientOK(b)'
  BY <1>1, <1>4, <1>5, Alone
<1>7. \A r \in requests : r.from # a
  BY <1>1, <1>3 DEF RequestOK
<1>8. ASSUME NEW r \in requests'
      PROVE  RequestOK(r)'
  <2>1. CASE r = login
    <3>1. r = Request(r.from, "ClientLogin", client'[r.from].name, 0)
      BY <1>2, <1>4, <2>1 DEF login
    <3>2. QED
      BY <1>2, <1>4, <2>1, <3>1 DEF RequestOK
  <2>2. CASE r \in requests
    <3>1. r.from \in Addresses \ {a} /\ RequestOK(r)
      BY <1>3, <1>7, <2>2 DEF RequestOK
    <3>2. QED
      BY <1>4, <3>1, RequestKept DEF RequestOK
  <2>3. QED
    BY <1>1, <2>1, <2>2
<1>9. Untouched(a)'
  BY <1>1, <1>3, <1>6 DEF ClientOK, Untouched, SameSession
<1>10. ClientOK(a)'
  <2>1. ~LinkedAt(a)' /\ ~Welcomed(a)'
    BY <1>4, <1>9 DEF Untouched, Welcomed
  <2>2. OneAnswer(a)'
    BY <1>4, <1>9 DEF OneAnswer, Untouched, QueuedAnswer, SentAnswer
  <2>3. WillHear(a)'
    BY <1>1, <1>2 DEF WillHear
  <2>4. LeftInOrder(a)'
    BY <1>4 DEF LeftInOrder
  <2>5. QED
    BY <1>9, <2>1, <2>2, <2>3, <2>4 DEF ClientOK
<1>11. QED
  BY <1>4, <1>6, <1>8, <1>10 DEF CSInv

\* A running client writes a command.
LEMMA CommandStep ==
  ASSUME CSInv, NEW a \in Addresses, NEW type, NEW arg,
         \/ type = "ClientFollow" /\ arg \in ValidNames
         \/ type = "ClientSend" /\ arg \in ValidMessages,
         ClientCommands(a, type, arg)
  PROVE  CSInv'
<1> DEFINE request == Request(a, type, arg, commands + 1)
<1>1. /\ client[a].state = "running" /\ UNCHANGED vars
      /\ client' = client
      /\ requests' = requests \cup {request}
      /\ answers' = answers /\ trouble' = trouble
  BY DEF ClientCommands
<1>2. request.from = a /\ request.msg_type = type /\ request.arg = arg
  BY DEF Request
<1> HIDE DEF request
<1>3. CSTypes /\ ClientOK(a) /\ \A r \in requests : RequestOK(r)
  BY DEF CSInv
<1>4. CSTypes'
  BY <1>1, <1>3 DEF CSTypes
<1>5. TroubleStays /\ \A b \in Addresses \ {a} : SameDatagrams(b)
  BY <1>1, <1>2 DEF TroubleStays, SameDatagrams
<1>6. /\ ServerInv' /\ SameNames /\ SameSession(a)
      /\ \A b \in Addresses \ {a} : ClientOK(b)'
  BY <1>1, <1>5, Alone
<1>7. ASSUME NEW r \in requests'
      PROVE  RequestOK(r)'
  <2>1. CASE r = request
    BY <1>1, <1>2, <2>1 DEF RequestOK
  <2>2. CASE r \in requests
    BY <1>1, <1>3, <2>2 DEF RequestOK
  <2>3. QED
    BY <1>1, <2>1, <2>2
<1>8. ClientOK(a)'
  <2>1. /\ send_queue' = send_queue /\ address_to_user_id' = address_to_user_id
        /\ username_to_id' = username_to_id
    BY <1>1 DEF vars, connection_vars, user_vars
  <2>2. LoginUnderway(a)' <=> LoginUnderway(a)
    BY <1>1, <1>2 DEF LoginUnderway
  <2>3. OneAnswer(a) => OneAnswer(a)'
    BY <1>1, <2>1, <2>2 DEF OneAnswer, QueuedAnswer, SentAnswer, Untouched, LinkedAt
  <2>4. LeftInOrder(a)' /\ WillHear(a)'
    BY <1>1 DEF LeftInOrder, WillHear
  <2>5. QED
    BY <1>1, <1>3, <2>1, <2>3, <2>4 DEF ClientOK, Untouched, LinkedAt,
         SpeaksForItsUser, Welcomed
<1>9. QED
  BY <1>4, <1>6, <1>7, <1>8 DEF CSInv

\* What Move does.
LEMMA MoveEffect ==
  ASSUME CSTypes, NEW a \in Addresses, NEW here,
         NEW there \in {"running", "refused", "confused", "ended"},
         Move(a, here, there)
  PROVE  /\ client[a].state = here
         /\ client'[a].state = there /\ client'[a].name = client[a].name
         /\ \A b \in Addresses \ {a} : client'[b] = client[b]
         /\ client' \in [Addresses -> [state : {"off", "waiting", "running",
                                                "refused", "confused", "ended"},
                                       name  : ValidNames \cup {NULL}]]
BY DEF CSTypes, Move

\* A client leaves, which ends it and writes its Logout.
LEMMA LeaveStep ==
  ASSUME CSInv, NEW a \in Addresses, ClientLeaves(a)
  PROVE  CSInv'
<1> DEFINE logout == Request(a, "ClientLogout", NULL, MaxRequests + 1)
<1>1. /\ UNCHANGED vars
      /\ Move(a, "running", "ended") \/ Move(a, "confused", "ended")
      /\ requests' = requests \cup {logout}
      /\ answers' = answers /\ trouble' = trouble
  BY DEF ClientLeaves
<1>2. logout.from = a /\ logout.msg_type = "ClientLogout"
  BY DEF Request
<1> HIDE DEF logout
<1>3. CSTypes /\ ClientOK(a) /\ \A r \in requests : RequestOK(r)
  BY DEF CSInv
<1>4. /\ client[a].state \in {"running", "confused"}
      /\ client'[a].state = "ended" /\ client'[a].name = client[a].name
      /\ \A b \in Addresses \ {a} : client'[b] = client[b]
      /\ client' \in [Addresses -> [state : {"off", "waiting", "running",
                                             "refused", "confused", "ended"},
                                    name  : ValidNames \cup {NULL}]]
  BY <1>1, <1>3, MoveEffect
<1>5. CSTypes'
  BY <1>1, <1>3, <1>4 DEF CSTypes
<1>6. TroubleStays /\ \A b \in Addresses \ {a} : SameDatagrams(b)
  BY <1>1, <1>2 DEF TroubleStays, SameDatagrams
<1>7. /\ ServerInv' /\ SameNames /\ SameSession(a)
      /\ \A b \in Addresses \ {a} : ClientOK(b)'
  BY <1>1, <1>4, <1>6, Alone
<1>8. ASSUME NEW r \in requests'
      PROVE  RequestOK(r)'
  <2>1. CASE r = logout
    BY <1>2, <1>4, <2>1 DEF RequestOK
  <2>2. CASE r \in requests
    <3>1. RequestOK(r)
      BY <1>3, <2>2
    <3>2. QED
      BY <1>4, <3>1, RequestKept DEF RequestOK
  <2>3. QED
    BY <1>1, <2>1, <2>2
<1>9. ClientOK(a)'
  <2>1. /\ send_queue' = send_queue /\ address_to_user_id' = address_to_user_id
        /\ username_to_id' = username_to_id
    BY <1>1 DEF vars, connection_vars, user_vars
  <2>2. LoginUnderway(a)' <=> LoginUnderway(a)
    BY <1>1, <1>2 DEF LoginUnderway
  <2>3. LogoutUnderway(a)'
    BY <1>1, <1>2 DEF LogoutUnderway
  <2>4. OneAnswer(a) => OneAnswer(a)'
    BY <1>1, <1>4, <2>1, <2>2
    DEF OneAnswer, QueuedAnswer, SentAnswer, Untouched, LinkedAt
  <2>5. OneAnswer(a) => LeftInOrder(a)'
    BY <1>4, <2>2, <2>3 DEF OneAnswer, LeftInOrder
  <2>6. WillHear(a)'
    BY <1>4 DEF WillHear
  <2>7. LinkedAt(a)' => SpeaksForItsUser(a)'
    BY <1>3, <1>4, <2>1 DEF ClientOK, LinkedAt, SpeaksForItsUser
  <2>8. QED
    BY <1>1, <1>3, <1>4, <2>4, <2>5, <2>6, <2>7 DEF ClientOK
<1>10. QED
  BY <1>5, <1>7, <1>8, <1>9 DEF CSInv

\* A client fails, which ends it without a Logout.
LEMMA FailsStep ==
  ASSUME CSInv, NEW a \in Addresses, ClientFails(a)
  PROVE  CSInv'
<1>1. /\ UNCHANGED vars /\ Trouble("failures")
      /\ Move(a, "waiting", "ended") \/ Move(a, "running", "ended")
      /\ requests' = requests /\ answers' = answers
  BY DEF ClientFails
<1>3. CSTypes /\ ClientOK(a) /\ \A r \in requests : RequestOK(r)
  BY DEF CSInv
<1>4. /\ client[a].state \in {"waiting", "running"}
      /\ client'[a].state = "ended" /\ client'[a].name = client[a].name
      /\ \A b \in Addresses \ {a} : client'[b] = client[b]
      /\ client' \in [Addresses -> [state : {"off", "waiting", "running",
                                             "refused", "confused", "ended"},
                                    name  : ValidNames \cup {NULL}]]
  BY <1>1, <1>3, MoveEffect
<1>5. /\ TroubleStays /\ trouble'.failures # 0
      /\ trouble' \in [duplicates : Nat, losses : Nat, failures : Nat]
  BY <1>1, <1>3, TroubleCounts
<1>6. CSTypes' /\ \A b \in Addresses \ {a} : SameDatagrams(b)
  BY <1>1, <1>3, <1>4, <1>5 DEF CSTypes, SameDatagrams
<1>7. /\ ServerInv' /\ SameNames /\ SameSession(a)
      /\ \A b \in Addresses \ {a} : ClientOK(b)'
  BY <1>1, <1>4, <1>5, <1>6, Alone
<1>8. ASSUME NEW r \in requests
      PROVE  RequestOK(r)'
  BY <1>3, <1>4, RequestKept DEF RequestOK
<1>9. ClientOK(a)'
  <2>1. /\ send_queue' = send_queue /\ address_to_user_id' = address_to_user_id
        /\ username_to_id' = username_to_id
    BY <1>1 DEF vars, connection_vars, user_vars
  <2>2. OneAnswer(a) => OneAnswer(a)'
    BY <1>1, <1>4, <2>1
    DEF OneAnswer, QueuedAnswer, SentAnswer, Untouched, LinkedAt, LoginUnderway
  <2>3. WillHear(a)'
    BY <1>4 DEF WillHear
  <2>4. LinkedAt(a)' => SpeaksForItsUser(a)'
    BY <1>3, <1>4, <2>1 DEF ClientOK, LinkedAt, SpeaksForItsUser
  <2>5. QED
    BY <1>3, <1>4, <1>5, <2>2, <2>3, <2>4 DEF ClientOK, TroubleStays
<1>10. QED
  BY <1>1, <1>6, <1>7, <1>8, <1>9 DEF CSInv

\* A datagram reaches a client, which takes it for the answer to its login or
\* for a message, and the network may keep a copy.
LEMMA HearStep ==
  ASSUME CSInv, NEW m \in answers, UNCHANGED vars, requests' = requests,
         \/ Move(m.to, "waiting",
                 IF m.data.msg_type = "LoginSuccess" THEN "running" ELSE "refused")
         \/ Move(m.to, "running",
                 IF m.data.msg_type \in KnownToMainLoop THEN "running"
                                                        ELSE "confused"),
         \/ answers' = answers \ {m} /\ trouble' = trouble
         \/ answers' = answers /\ Trouble("duplicates")
  PROVE  CSInv'
<1>1. PICK a : a = m.to
  OBVIOUS
<1>2. CSTypes /\ (\A r \in requests : RequestOK(r)) /\ a \in Addresses /\ ClientOK(a)
  BY <1>1 DEF CSInv, CSTypes
<1>3. /\ \/ /\ client[a].state = "waiting"
            /\ client'[a].state = IF m.data.msg_type = "LoginSuccess"
                                    THEN "running" ELSE "refused"
         \/ /\ client[a].state = "running"
            /\ client'[a].state = IF m.data.msg_type \in KnownToMainLoop
                                    THEN "running" ELSE "confused"
      /\ client'[a].name = client[a].name
      /\ \A b \in Addresses \ {a} : client'[b] = client[b]
      /\ client' \in [Addresses -> [state : {"off", "waiting", "running",
                                             "refused", "confused", "ended"},
                                    name  : ValidNames \cup {NULL}]]
  BY <1>1, <1>2, MoveEffect
<1>4. /\ TroubleStays
      /\ trouble' \in [duplicates : Nat, losses : Nat, failures : Nat]
      /\ trouble'.duplicates = 0 => answers' = answers \ {m}
      /\ answers' \subseteq answers
      /\ \A n : n # m => (n \in answers' <=> n \in answers)
  <2>1. CASE answers' = answers \ {m} /\ trouble' = trouble
    BY <1>2, <2>1 DEF TroubleStays, CSTypes
  <2>2. CASE answers' = answers /\ Trouble("duplicates")
    <3>1. /\ TroubleStays /\ trouble'.duplicates # 0
          /\ trouble' \in [duplicates : Nat, losses : Nat, failures : Nat]
      BY <1>2, <2>2, TroubleCounts
    <3>2. QED
      BY <2>2, <3>1
  <2>3. QED
    BY <2>1, <2>2
<1>5. CSTypes' /\ \A b \in Addresses \ {a} : SameDatagrams(b)
  BY <1>1, <1>2, <1>3, <1>4 DEF CSTypes, SameDatagrams
<1>6. /\ ServerInv' /\ SameNames /\ SameSession(a)
      /\ \A b \in Addresses \ {a} : ClientOK(b)'
  BY <1>2, <1>3, <1>4, <1>5, Alone
<1>7. ASSUME NEW r \in requests
      PROVE  RequestOK(r)'
  BY <1>2, <1>3, RequestKept DEF RequestOK
<1>8. ClientOK(a)'
  <2>1. /\ send_queue' = send_queue /\ address_to_user_id' = address_to_user_id
        /\ username_to_id' = username_to_id
    BY DEF vars, connection_vars, user_vars
  <2>2. client'[a].state \in {"running", "refused", "confused"}
    BY <1>3
  <2>3. LinkedAt(a)' => SpeaksForItsUser(a)'
    BY <1>2, <1>3, <2>1 DEF ClientOK, LinkedAt, SpeaksForItsUser
  <2>4. Welcomed(a)' => Welcomed(a)
    BY <1>1, <1>3, <1>4, <2>1 DEF Welcomed
  <2>5. ASSUME trouble'.duplicates = 0 PROVE OneAnswer(a)'
    <3>1. OneAnswer(a) /\ answers' = answers \ {m}
      BY <1>2, <1>4, <2>5 DEF TroubleStays, ClientOK
    <3>2. ~LoginUnderway(a)
      BY <1>1, <3>1 DEF OneAnswer, Untouched
    <3>3. m.data.msg_type \in LoginAnswers <=> m.data.msg_type \notin KnownToMainLoop
      <4>1. m.data.msg_type \in ServerMsgType
        BY <1>2 DEF CSTypes, ServerMessageData
      <4>2. QED
        BY <4>1 DEF ServerMsgType, LoginAnswers, KnownToMainLoop
    <3>4. client'[a].state # "confused"
      BY <1>1, <1>3, <3>1, <3>3 DEF OneAnswer, SentAnswer
    <3>5. client'[a].state = "running" =>
            (\A i : ~QueuedAnswer(a, i)) /\ (\A n : ~SentAnswer(a, n)')
      <4>1. CASE client[a].state = "running"
        BY <3>1, <4>1 DEF OneAnswer, SentAnswer
      <4>2. CASE client[a].state = "waiting" /\ m.data.msg_type = "LoginSuccess"
        <5>1. SentAnswer(a, m)
          BY <1>1, <4>2 DEF SentAnswer, LoginAnswers
        <5>2. QED
          BY <3>1, <5>1 DEF OneAnswer, SentAnswer
      <4>3. QED
        BY <1>3, <4>1, <4>2
    <3>6. \A n : SentAnswer(a, n)' => SentAnswer(a, n)
      BY <3>1 DEF SentAnswer
    <3>7. \A i : QueuedAnswer(a, i)' <=> QueuedAnswer(a, i)
      BY <2>1 DEF QueuedAnswer
    <3>8. ~LoginUnderway(a)'
      BY <3>2 DEF LoginUnderway
    <3>9. QED
      BY <3>1, <3>4, <3>5, <3>6, <3>7, <3>8 DEF OneAnswer
  <2>6. LeftInOrder(a)' /\ WillHear(a)'
    BY <2>2 DEF LeftInOrder, WillHear
  <2>7. client[a].state # "ended" /\ (LinkedAt(a)' <=> LinkedAt(a))
    BY <1>3, <2>1 DEF LinkedAt
  <2>8. QED
    BY <1>2, <2>2, <2>3, <2>4, <2>5, <2>6, <2>7 DEF ClientOK
<1>9. QED
  BY <1>5, <1>6, <1>7, <1>8 DEF CSInv

\* A datagram is lost.
LEMMA LostStep ==
  ASSUME CSInv, DatagramLost
  PROVE  CSInv'
<1>1. /\ UNCHANGED vars /\ client' = client /\ Trouble("losses")
      /\ requests' \subseteq requests /\ answers' \subseteq answers
  BY DEF DatagramLost
<1>2. ServerInv /\ CSTypes /\ \A r \in requests : RequestOK(r)
  BY DEF CSInv
<1>3. /\ TroubleStays /\ trouble'.losses # 0
      /\ trouble' \in [duplicates : Nat, losses : Nat, failures : Nat]
  BY <1>1, <1>2, TroubleCounts
<1>4. CSTypes' /\ ServerInv'
  BY <1>1, <1>2, <1>3, ServerStill DEF CSTypes
<1>5. \A r \in requests' : RequestOK(r)'
  BY <1>1, <1>2 DEF RequestOK
<1>6. ASSUME NEW a \in Addresses
      PROVE  ClientOK(a)'
  <2>1. /\ send_queue' = send_queue /\ address_to_user_id' = address_to_user_id
        /\ username_to_id' = username_to_id
    BY <1>1 DEF vars, connection_vars, user_vars
  <2>2. ClientOK(a)
    BY DEF CSInv
  <2>3. (Untouched(a) => Untouched(a)') /\ (LinkedAt(a)' <=> LinkedAt(a))
    BY <1>1, <2>1 DEF Untouched, LinkedAt
  <2>4. (SpeaksForItsUser(a) => SpeaksForItsUser(a)') /\ (Welcomed(a)' => Welcomed(a))
    BY <1>1, <2>1 DEF SpeaksForItsUser, Welcomed
  <2>5. OneAnswer(a) => OneAnswer(a)'
    <3>1. LoginUnderway(a)' => LoginUnderway(a)
      BY <1>1 DEF LoginUnderway
    <3>2. /\ \A i : QueuedAnswer(a, i)' <=> QueuedAnswer(a, i)
          /\ \A m : SentAnswer(a, m)' => SentAnswer(a, m)
      BY <1>1, <2>1 DEF QueuedAnswer, SentAnswer
    <3>3. QED
      BY <1>1, <2>3, <3>1, <3>2 DEF OneAnswer
  <2>6. QED
    BY <1>1, <1>3, <2>2, <2>3, <2>4, <2>5 DEF ClientOK, TroubleStays
<1>7. QED
  BY <1>4, <1>5, <1>6 DEF CSInv

\* The sender thread hands the queues to the network.
LEMMA SendsStep ==
  ASSUME CSInv, ServerSends
  PROVE  CSInv'
<1>1. /\ SendQueueDrain /\ client' = client /\ requests' = requests
      /\ trouble' = trouble
      /\ \A a \in Addresses : send_queue'[a] = << >>
      /\ address_to_user_id' = address_to_user_id
      /\ username_to_id' = username_to_id
  BY DEF ServerSends, SendQueueDrain, connection_vars, user_vars
<1>2. ServerInv /\ CSTypes /\ \A r \in requests : RequestOK(r)
  BY DEF CSInv
<1>3. ServerInv'
  BY <1>1, <1>2, ConsumersInv
<1>4. send_queue \in [Addresses -> Seq(ServerMessageData)]
  BY <1>2, QueueType
\* What is new comes from the queue of a client that waits or runs.
<1>5. \A m \in answers' :
        \/ m \in answers
        \/ \E a \in Addresses : \E i \in DOMAIN send_queue[a] :
             /\ client[a].state \in {"waiting", "running"}
             /\ m = [to |-> a, data |-> send_queue[a][i]]
  BY DEF ServerSends
<1>6. /\ answers \subseteq answers'
      /\ \A a \in Addresses : \A i \in DOMAIN send_queue[a] :
           client[a].state \in {"waiting", "running"} =>
             [to |-> a, data |-> send_queue[a][i]] \in answers'
  BY DEF ServerSends
<1>7. \A m \in answers' : m.to \in Addresses /\ m.data \in ServerMessageData
  <2> SUFFICES ASSUME NEW m \in answers', m \notin answers
               PROVE  m.to \in Addresses /\ m.data \in ServerMessageData
    BY <1>2 DEF CSTypes
  <2>1. PICK a \in Addresses : \E i \in DOMAIN send_queue[a] :
          m = [to |-> a, data |-> send_queue[a][i]]
    BY <1>5
  <2>2. PICK i \in DOMAIN send_queue[a] : m = [to |-> a, data |-> send_queue[a][i]]
    BY <2>1
  <2>3. send_queue[a] \in Seq(ServerMessageData)
    BY <1>4
  <2>4. send_queue[a][i] \in ServerMessageData
    BY <2>3
  <2>5. QED
    BY <2>2, <2>4
<1>8. CSTypes' /\ \A r \in requests' : RequestOK(r)'
  BY <1>1, <1>2, <1>7 DEF CSTypes, RequestOK
<1>9. ASSUME NEW a \in Addresses
      PROVE  ClientOK(a)'
  <2>1. ClientOK(a)
    BY DEF CSInv
  <2>2. \A m \in answers' : m.to = a =>
          \/ m \in answers
          \/ \E i \in DOMAIN send_queue[a] : m.data = send_queue[a][i]
               /\ m = [to |-> a, data |-> send_queue[a][i]]
    BY <1>5
  <2>3. Untouched(a) => Untouched(a)'
    BY <1>1, <2>2 DEF Untouched, LinkedAt
  <2>4. (LinkedAt(a)' <=> LinkedAt(a)) /\ (SpeaksForItsUser(a) => SpeaksForItsUser(a)')
    BY <1>1 DEF LinkedAt, SpeaksForItsUser
  <2>5. Welcomed(a)' => Welcomed(a)
    BY <1>1, <2>2 DEF Welcomed
  <2>6. OneAnswer(a) => OneAnswer(a)'
    <3>1. LoginUnderway(a)' <=> LoginUnderway(a)
      BY <1>1 DEF LoginUnderway
    <3>2. \A i : ~QueuedAnswer(a, i)'
      BY <1>1 DEF QueuedAnswer
    <3>3. \A m : SentAnswer(a, m)' =>
            \/ SentAnswer(a, m)
            \/ \E i : QueuedAnswer(a, i) /\ m = [to |-> a, data |-> send_queue[a][i]]
      BY <2>2 DEF SentAnswer, QueuedAnswer
    <3>4. QED
      BY <1>1, <2>3, <3>1, <3>2, <3>3 DEF OneAnswer
  <2>7. LeftInOrder(a) => LeftInOrder(a)'
    BY <1>1, <2>4 DEF LeftInOrder, LoginUnderway, LogoutUnderway
  <2>8. WillHear(a) => WillHear(a)'
    <3>1. SUFFICES ASSUME client[a].state = "waiting", send_queue[a] # << >>
                   PROVE  \E m \in answers' : m.to = a
      BY <1>1, <1>6 DEF WillHear
    <3>2. 1 \in DOMAIN send_queue[a]
      BY <1>4, <3>1
    <3>3. [to |-> a, data |-> send_queue[a][1]] \in answers'
      BY <1>6, <3>1, <3>2
    <3>4. [to |-> a, data |-> send_queue[a][1]].to = a
      OBVIOUS
    <3>5. QED
      BY <3>3, <3>4
  <2>9. QED
    BY <1>1, <2>1, <2>3, <2>4, <2>5, <2>6, <2>7, <2>8 DEF ClientOK
<1>10. QED
  BY <1>3, <1>8, <1>9 DEF CSInv

\* The disk thread.
LEMMA DiskStep ==
  ASSUME CSInv, DiskDrains
  PROVE  CSInv'
<1>1. /\ DiskQueueDrain /\ UNCHANGED <<client, requests, answers, trouble>>
      /\ address_to_user_id' = address_to_user_id
      /\ username_to_id' = username_to_id /\ send_queue' = send_queue
  BY DEF DiskDrains, DiskQueueDrain, connection_vars
<1>2. ServerInv /\ ServerInv'
  BY <1>1, ConsumersInv DEF CSInv
<1>3. CSTypes' /\ \A r \in requests' : RequestOK(r)'
  BY <1>1 DEF CSInv, CSTypes, RequestOK
<1>4. SameNames /\ TroubleStays
  BY <1>1 DEF SameNames, TroubleStays
<1>5. \A b \in Addresses : SameSession(b) /\ SameDatagrams(b) /\ client'[b] = client[b]
  BY <1>1, GrowsByNothing DEF SameSession, SameDatagrams, LinkedAt
<1>6. \A b \in Addresses : ClientOK(b)'
  BY <1>2, <1>4, <1>5, Bystander DEF CSInv
<1>7. QED
  BY <1>2, <1>3, <1>6 DEF CSInv

\* What the server's handling of a request comes to.
LEMMA RequestSeen ==
  ASSUME ServerInv, NEW r, RequestOK(r), ServerHandles(r)
  PROVE  /\ ServerInv' /\ SameNames
         /\ \A b \in Addresses \ {r.from} : SameSession(b)
         /\ \/ /\ r.msg_type = "ClientLogin"
               /\ LoginHandled(r.from, client[r.from].name)
            \/ /\ r.msg_type # "ClientLogin"
               /\ r.msg_type = "ClientLogout" => ~LinkedAt(r.from)
               /\ SameSession(r.from)
            \/ /\ r.msg_type = "ClientLogout" /\ ~LinkedAt(r.from)'
               /\ send_queue'[r.from] = send_queue[r.from]
<1>1. PICK a \in Addresses : a = r.from
  BY DEF RequestOK
<1>2. CASE r.msg_type = "ClientLogin" /\ handle_login(a, r.arg)
  <2>1. r.arg \in ValidNames /\ r.arg = client[a].name
    BY <1>1, <1>2 DEF RequestOK, Request
  <2>2. QED
    BY <1>1, <1>2, <2>1, LoginSeen
<1>3. CASE r.msg_type = "ClientFollow" /\ handle_follow_command(a, r.arg)
  <2>1. r.arg \in Names
    BY <1>3, ValidNamesAreNames DEF RequestOK, Request
  <2>2. QED
    BY <1>1, <1>3, <2>1, CommandSeen
<1>4. CASE r.msg_type = "ClientSend" /\ handle_send_command(a, r.arg)
  <2>1. r.arg \in Messages
    BY <1>4, ValidMessagesAreMessages DEF RequestOK, Request
  <2>2. QED
    BY <1>1, <1>4, <2>1, CommandSeen
<1>5. CASE r.msg_type = "ClientLogout" /\ handle_logout(a)
  BY <1>1, <1>5, LogoutSeen
<1>6. CASE r.msg_type # "ClientLogin" /\ ~address_exists(a) /\ UNCHANGED vars
  BY <1>1, <1>6, ServerStill DEF address_exists, LinkedAt
<1>7. QED
  BY <1>1, <1>2, <1>3, <1>4, <1>5, <1>6 DEF ServerHandles

\* What the network does with a request that is handled.
RequestTaken(r) ==
  /\ TroubleStays
  /\ trouble'.duplicates = 0 => r \notin requests'
  /\ requests' \subseteq requests
  /\ \A q : q # r => (q \in requests' <=> q \in requests)
  /\ answers' = answers
  /\ client' = client

\* The client whose login is handled.
LEMMA LoginTaken ==
  ASSUME CSInv, ServerInv', SameNames, NEW r \in requests, RequestTaken(r),
         r.msg_type = "ClientLogin", LoginHandled(r.from, client[r.from].name)
  PROVE  ClientOK(r.from)'
<1>1. PICK a : a = r.from
  OBVIOUS
<1>2. /\ a \in Addresses /\ client[a].state # "off" /\ ClientOK(a)
      /\ r = Request(a, "ClientLogin", client[a].name, 0)
  BY <1>1 DEF CSInv, RequestOK
<1>3. PICK type \in LoginAnswers :
        /\ Answers(send_queue[a], type, send_queue'[a])
        /\ type = "LoginSuccess" =>
             /\ LinkedAt(a)' /\ client[a].name \in DOMAIN username_to_id'
             /\ address_to_user_id'[a] = username_to_id'[client[a].name]
        /\ type # "LoginSuccess" =>
             /\ LinkedAt(a)' <=> LinkedAt(a)
             /\ LinkedAt(a) => address_to_user_id'[a] = address_to_user_id[a]
  BY <1>1 DEF LoginHandled
<1>4. PICK n \in DOMAIN send_queue'[a] \ DOMAIN send_queue[a] :
        /\ send_queue'[a][n].msg_type = type
        /\ \A i \in DOMAIN send_queue'[a] \ (DOMAIN send_queue[a] \cup {n}) :
             send_queue'[a][i].msg_type \notin LoginAnswers
  BY <1>3 DEF Answers
<1>5. \A i \in DOMAIN send_queue[a] : send_queue'[a][i] = send_queue[a][i]
  BY <1>3 DEF Answers
<1>6. client' = client /\ answers' = answers /\ TroubleStays
  BY DEF RequestTaken
<1>7. LinkedAt(a)' => SpeaksForItsUser(a)'
  BY <1>2, <1>3, <1>6 DEF ClientOK, SpeaksForItsUser, SameNames
<1>8. client[a].state # "ended" /\ Welcomed(a)' => LinkedAt(a)'
  <2>1. CASE type = "LoginSuccess"
    BY <1>3, <2>1
  <2>2. CASE type # "LoginSuccess"
    <3>1. \A i \in DOMAIN send_queue'[a] :
            send_queue'[a][i].msg_type = "LoginSuccess" =>
              i \in DOMAIN send_queue[a] /\ send_queue[a][i].msg_type = "LoginSuccess"
      BY <1>4, <1>5, <2>2 DEF LoginAnswers
    <3>2. Welcomed(a)' => Welcomed(a)
      BY <1>6, <3>1 DEF Welcomed
    <3>3. QED
      BY <1>2, <1>3, <2>2, <3>2 DEF ClientOK
  <2>3. QED
    BY <2>1, <2>2
<1>9. LoginUnderway(a)
  BY <1>1 DEF LoginUnderway
<1>10. ASSUME trouble'.duplicates = 0 PROVE OneAnswer(a)'
  <2>1. OneAnswer(a)
    BY <1>2, <1>6, <1>10 DEF ClientOK, TroubleStays
  <2>2. Untouched(a) /\ client[a].state # "running" /\ client[a].state # "confused"
    BY <1>9, <2>1 DEF OneAnswer
  <2>3. ~LoginUnderway(a)'
    <3>1. \A q \in requests : q.from = a /\ q.msg_type = "ClientLogin" => q = r
      <4> SUFFICES ASSUME NEW q \in requests, q.from = a, q.msg_type = "ClientLogin"
                   PROVE  q = r
        OBVIOUS
      <4>1. RequestOK(q)
        BY DEF CSInv
      <4>2. q = Request(a, "ClientLogin", client[a].name, 0)
        BY <4>1 DEF RequestOK
      <4>3. QED
        BY <1>2, <4>2
    <3>2. QED
      BY <1>10, <3>1 DEF LoginUnderway, RequestTaken
  <2>4. \A i : QueuedAnswer(a, i)' => i = n
    <3>1. DOMAIN send_queue[a] = {}
      BY <2>2 DEF Untouched
    <3>2. QED
      BY <1>4, <3>1 DEF QueuedAnswer
  <2>5. \A m : ~SentAnswer(a, m)'
    BY <1>6, <2>2 DEF Untouched, SentAnswer
  <2>6. QED
    BY <1>6, <2>2, <2>3, <2>4, <2>5 DEF OneAnswer
<1>11. LeftInOrder(a) => LeftInOrder(a)'
  BY <1>6, <1>9 DEF LeftInOrder
<1>12. WillHear(a)'
  <2>1. DOMAIN send_queue'[a] # {}
    BY <1>4
  <2>2. send_queue'[a] # << >>
    BY <2>1
  <2>3. QED
    BY <2>2 DEF WillHear
<1>13. QED
  BY <1>1, <1>2, <1>6, <1>7, <1>8, <1>10, <1>11, <1>12 DEF ClientOK, TroubleStays

\* The client whose command is handled, or whose datagram is ignored.
LEMMA CommandTaken ==
  ASSUME CSInv, ServerInv', SameNames, NEW r \in requests, RequestTaken(r),
         r.msg_type # "ClientLogin", SameSession(r.from),
         r.msg_type = "ClientLogout" => ~LinkedAt(r.from)
  PROVE  ClientOK(r.from)'
<1>1. PICK a : a = r.from
  OBVIOUS
<1>2. /\ a \in Addresses /\ client[a].state # "off" /\ ClientOK(a)
      /\ client[a].state # "waiting"
  BY <1>1 DEF CSInv, RequestOK, Request
<1>3. client' = client /\ answers' = answers /\ TroubleStays
  BY DEF RequestTaken
<1>4. (LinkedAt(a)' <=> LinkedAt(a)) /\ Grows(send_queue[a], send_queue'[a])
  BY <1>1, GrowsByNothing DEF SameSession
<1>5. /\ \A i : QueuedAnswer(a, i)' <=> QueuedAnswer(a, i)
      /\ \A m : SentAnswer(a, m)' <=> SentAnswer(a, m)
  BY <1>3, <1>4, GrownQueue DEF QueuedAnswer, SentAnswer
<1>6. Welcomed(a)' <=> Welcomed(a)
  <2>1. (\E i \in DOMAIN send_queue'[a] : send_queue'[a][i].msg_type = "LoginSuccess")
          <=> \E i \in DOMAIN send_queue[a] : send_queue[a][i].msg_type = "LoginSuccess"
    BY <1>4, GrownQueue
  <2>2. QED
    BY <1>3, <2>1 DEF Welcomed
<1>7. LinkedAt(a) /\ SpeaksForItsUser(a) => SpeaksForItsUser(a)'
  BY <1>1, <1>3 DEF SameSession, SameNames, SpeaksForItsUser
<1>8. LoginUnderway(a)' <=> LoginUnderway(a)
  BY DEF LoginUnderway, RequestTaken
<1>9. Untouched(a) => Untouched(a)'
  BY <1>1, <1>3 DEF Untouched, SameSession
<1>10. OneAnswer(a) => OneAnswer(a)'
  BY <1>3, <1>5, <1>8, <1>9 DEF OneAnswer
<1>11. LeftInOrder(a) => LeftInOrder(a)'
  <2>1. LinkedAt(a) /\ LogoutUnderway(a) => LogoutUnderway(a)'
    BY <1>1 DEF LogoutUnderway, RequestTaken
  <2>2. QED
    BY <1>3, <1>4, <1>8, <2>1 DEF LeftInOrder
<1>12. WillHear(a)'
  BY <1>2, <1>3 DEF WillHear
<1>13. QED
  BY <1>1, <1>2, <1>3, <1>4, <1>6, <1>7, <1>10, <1>11, <1>12
  DEF ClientOK, TroubleStays

\* The client whose Logout is handled.
LEMMA LogoutTaken ==
  ASSUME CSInv, ServerInv', SameNames, NEW r \in requests, RequestTaken(r),
         r.msg_type = "ClientLogout", ~LinkedAt(r.from)',
         send_queue'[r.from] = send_queue[r.from]
  PROVE  ClientOK(r.from)'
<1>1. PICK a : a = r.from
  OBVIOUS
<1>2. a \in Addresses /\ client[a].state = "ended" /\ ClientOK(a)
  BY <1>1 DEF CSInv, RequestOK, Request
<1>3. client' = client /\ answers' = answers /\ TroubleStays
  BY DEF RequestTaken
<1>4. /\ \A i : QueuedAnswer(a, i)' <=> QueuedAnswer(a, i)
      /\ \A m : SentAnswer(a, m)' <=> SentAnswer(a, m)
  BY <1>1, <1>3 DEF QueuedAnswer, SentAnswer
<1>5. LoginUnderway(a)' <=> LoginUnderway(a)
  BY DEF LoginUnderway, RequestTaken
<1>6. Untouched(a) => Untouched(a)'
  BY <1>1, <1>3 DEF Untouched
<1>7. OneAnswer(a) => OneAnswer(a)'
  BY <1>3, <1>4, <1>5, <1>6 DEF OneAnswer
<1>8. LeftInOrder(a) => LeftInOrder(a)'
  BY <1>1, <1>3, <1>5 DEF LeftInOrder
<1>9. WillHear(a)'
  BY <1>2, <1>3 DEF WillHear
<1>10. QED
  BY <1>1, <1>2, <1>3, <1>7, <1>8, <1>9 DEF ClientOK, TroubleStays

\* A datagram reaches the server.
LEMMA ReceiveStep ==
  ASSUME CSInv, NEW r \in requests, ServerReceives(r)
  PROVE  CSInv'
<1>1. ServerInv /\ CSTypes /\ RequestOK(r)
  BY DEF CSInv
<1>2. RequestTaken(r) /\ trouble' \in [duplicates : Nat, losses : Nat, failures : Nat]
  <2>1. client' = client /\ answers' = answers
    BY DEF ServerReceives
  <2>2. CASE requests' = requests \ {r} /\ trouble' = trouble
    BY <1>1, <2>1, <2>2 DEF RequestTaken, TroubleStays, CSTypes
  <2>3. CASE requests' = requests /\ Trouble("duplicates")
    <3>1. /\ TroubleStays /\ trouble'.duplicates # 0
          /\ trouble' \in [duplicates : Nat, losses : Nat, failures : Nat]
      BY <1>1, <2>3, TroubleCounts
    <3>2. QED
      BY <2>1, <2>3, <3>1 DEF RequestTaken
  <2>4. QED
    BY <2>2, <2>3 DEF ServerReceives
<1>3. CSTypes' /\ \A q \in requests' : RequestOK(q)'
  BY <1>1, <1>2 DEF CSInv, CSTypes, RequestOK, RequestTaken
<1>4. ServerHandles(r)
  BY DEF ServerReceives
<1>5. /\ ServerInv' /\ SameNames
      /\ \A b \in Addresses \ {r.from} : SameSession(b)
      /\ \/ /\ r.msg_type = "ClientLogin"
            /\ LoginHandled(r.from, client[r.from].name)
         \/ /\ r.msg_type # "ClientLogin"
            /\ r.msg_type = "ClientLogout" => ~LinkedAt(r.from)
            /\ SameSession(r.from)
         \/ /\ r.msg_type = "ClientLogout" /\ ~LinkedAt(r.from)'
            /\ send_queue'[r.from] = send_queue[r.from]
  BY <1>1, <1>4, RequestSeen
<1>6. ClientOK(r.from)'
  BY <1>2, <1>5, LoginTaken, CommandTaken, LogoutTaken
<1>7. \A b \in Addresses \ {r.from} : ClientOK(b)'
  <2>1. \A b \in Addresses \ {r.from} :
          SameDatagrams(b) /\ client'[b] = client[b] /\ ClientOK(b)
    BY <1>2 DEF RequestTaken, SameDatagrams, CSInv
  <2>2. QED
    BY <1>1, <1>2, <1>5, <2>1, Bystander DEF RequestTaken
<1>8. QED
  BY <1>3, <1>5, <1>6, <1>7 DEF CSInv

\* Every step of the system keeps the invariant.
LEMMA CSNextInv == CSInv /\ [CSNext]_cs_vars => CSInv'
<1> SUFFICES ASSUME CSInv, [CSNext]_cs_vars PROVE CSInv'
  OBVIOUS
<1>1. ASSUME NEW a \in Addresses, ClientStep(a)
      PROVE  CSInv'
  BY <1>1, StartStep, CommandStep, LeaveStep, FailsStep DEF ClientStep
<1>2. CASE Receives
  BY <1>2, HearStep DEF Receives, ClientGetsAnswer, ClientGetsMessage
<1>3. CASE Serves
  BY <1>3, ReceiveStep, SendsStep, DiskStep DEF Serves
<1>4. ASSUME NEW m \in answers, AnswerRepeated(m)
      PROVE  CSInv'
  BY <1>4, HearStep DEF AnswerRepeated
<1>5. CASE DatagramLost
  BY <1>5, LostStep
<1>6. CASE UNCHANGED cs_vars
  <2>1. /\ UNCHANGED <<client, requests, answers, trouble>> /\ UNCHANGED vars
    BY <1>6 DEF cs_vars
  <2>2. ServerInv' /\ SameNames /\ \A b \in Addresses : SameSession(b)
    BY <2>1, ServerStill DEF CSInv
  <2>3. CSTypes' /\ \A r \in requests' : RequestOK(r)'
    BY <2>1 DEF CSInv, CSTypes, RequestOK
  <2>4. \A b \in Addresses :
          SameDatagrams(b) /\ client'[b] = client[b] /\ TroubleStays
    BY <2>1 DEF SameDatagrams, TroubleStays
  <2>5. QED
    BY <2>2, <2>3, <2>4, Bystander DEF CSInv
<1>7. QED
  BY <1>1, <1>2, <1>3, <1>4, <1>5, <1>6 DEF CSNext

\* The invariant holds in every reachable state of clients and server.
THEOREM ClientServerInvariant == CSSpec => []CSInv
BY CSInitInv, CSNextInv, PTL DEF CSSpec

\* A client that was told LoginSuccess is a session of its user at the server
\* for as long as it runs, and at most two clients of a user run.
THEOREM RunningAlwaysHasSession == CSSpec => []RunningHasSession
BY ClientServerInvariant, Promises, PTL

\* Unless a datagram is repeated, no client's main loop ever meets the answer
\* to a login.
THEOREM NobodyEverConfused == CSSpec => []NobodyConfused
BY ClientServerInvariant, Promises, PTL

\* Unless a datagram is lost, a client that waits for the answer to its login
\* has its login or something for it under way.
THEOREM LoginAlwaysAnswered == CSSpec => []LoginAnswered
BY ClientServerInvariant, Promises, PTL

\* As long as nothing goes wrong, every session the server holds is in use.
THEOREM SessionsAlwaysInUse == CSSpec => []SessionsInUse
BY ClientServerInvariant, Promises, PTL
=============================================================================
