---------------------------- MODULE ServerProofs ----------------------------
(***************************************************************************)
(* Proofs about ClientMessageHandler, for any sets of addresses, names and *)
(* messages and any bounds.                                                *)
(***************************************************************************)
EXTENDS ClientMessageHandler, FiniteSetTheorems, TLAPS

-----------------------------------------------------------------------------
(***************************************************************************)
(* Maps.                                                                   *)
(***************************************************************************)

\* Put adds a key and keeps the others; the result is a map of the same
\* type when the key and the value are.
LEMMA PutMap ==
  ASSUME NEW K, NEW V, NEW map, IsMap(map, K, V), NEW k \in K, NEW v \in V
  PROVE  /\ IsMap(Put(map, k, v), K, V)
         /\ DOMAIN Put(map, k, v) = DOMAIN map \cup {k}
         /\ Put(map, k, v)[k] = v
         /\ \A x \in DOMAIN map : x # k => Put(map, k, v)[x] = map[x]
  BY DEF IsMap, Put

\* Erase removes the key and keeps the others.
LEMMA EraseMap ==
  ASSUME NEW K, NEW V, NEW map, IsMap(map, K, V), NEW k
  PROVE  /\ IsMap(Erase(map, k), K, V)
         /\ DOMAIN Erase(map, k) = DOMAIN map \ {k}
         /\ \A x \in DOMAIN map : x # k => Erase(map, k)[x] = map[x]
  BY DEF IsMap, Erase

\* The number of times a value stands in a sequence is a number.
LEMMA OccurrencesType ==
  ASSUME NEW S, NEW s \in Seq(S), NEW x
  PROVE  Occurrences(s, x) \in Nat
<1>1. IsFiniteSet(DOMAIN s)
  BY FS_Interval
<1>2. IsFiniteSet({i \in DOMAIN s : s[i] = x})
  BY <1>1, FS_Subset, {i \in DOMAIN s : s[i] = x} \subseteq DOMAIN s
<1> QED
  BY <1>2, FS_CardinalityType DEF Occurrences

-----------------------------------------------------------------------------
(***************************************************************************)
(* UserConnection.                                                         *)
(***************************************************************************)
ConnMap(conn) == IsMap(conn, UserIds, UserConnectionData)

AddrMap(addr) == IsMap(addr, Addresses, UserIds)

\* Sessions match whatever happens to the message counters.
LEMMA SameSessions ==
  ASSUME NEW conn, NEW conn2, NEW addr, SessionsMatch(conn, addr),
         AddrMap(addr),
         DOMAIN conn2 = DOMAIN conn,
         \A u \in DOMAIN conn : /\ conn2[u].session_one = conn[u].session_one
                                /\ conn2[u].session_two = conn[u].session_two
  PROVE  SessionsMatch(conn2, addr)
<1>1. \A u : get_address_from_user(conn2, u) = get_address_from_user(conn, u)
  BY DEF get_address_from_user
<1> QED
  BY <1>1 DEF SessionsMatch

\* Taking message ids changes a counter and nothing else.
LEMMA TakeMsgIds ==
  ASSUME NEW conn, ConnMap(conn), NEW u, NEW n \in Nat
  PROVE  LET conn2 == take_msg_ids(conn, u, n)
         IN  /\ ConnMap(conn2)
             /\ DOMAIN conn2 = DOMAIN conn
             /\ \A v \in DOMAIN conn :
                  /\ conn2[v].session_one = conn[v].session_one
                  /\ conn2[v].session_two = conn[v].session_two
  BY DEF ConnMap, IsMap, take_msg_ids, UserConnectionData

\* A login that passed the handler's checks stores a session that both
\* maps agree on.
LEMMA AddSession ==
  ASSUME ConnectionTypeOK, SessionsConsistent,
         NEW u \in UserIds, NEW a \in Addresses,
         user_connected(u) => session_available(u),
         get_user_id_from_address(a) \in {INVALID_USER_ID, u}
  PROVE  /\ ConnMap(add_session(u, a))
         /\ AddrMap(link_address(u, a))
         /\ SessionsMatch(add_session(u, a), link_address(u, a))
         /\ DOMAIN add_session(u, a) = DOMAIN user_id_to_connection_data \cup {u}
<1> DEFINE conn == user_id_to_connection_data
           addr == address_to_user_id
           new  == [session_one |-> a, session_two |-> NULL, last_msg_id |-> 0]
<1>0. ConnMap(conn) /\ AddrMap(addr) /\ a # NULL
  BY NullIsNoAddress DEF ConnectionTypeOK, ConnMap, AddrMap
<1>1. CASE ~user_connected(u)
  <2>1. /\ add_session(u, a) = Put(conn, u, new)
        /\ link_address(u, a) = Put(addr, a, u)
    BY <1>1 DEF add_session, link_address, Stores
  <2>2. new \in UserConnectionData
    BY DEF UserConnectionData
  <2>3. /\ ConnMap(Put(conn, u, new))
        /\ DOMAIN Put(conn, u, new) = DOMAIN conn \cup {u}
        /\ Put(conn, u, new)[u] = new
        /\ \A x \in DOMAIN conn : x # u => Put(conn, u, new)[x] = conn[x]
    BY <1>0, <2>2, PutMap DEF ConnMap
  <2>4. /\ AddrMap(Put(addr, a, u))
        /\ DOMAIN Put(addr, a, u) = DOMAIN addr \cup {a}
        /\ Put(addr, a, u)[a] = u
        /\ \A x \in DOMAIN addr : x # a => Put(addr, a, u)[x] = addr[x]
    BY <1>0, PutMap DEF AddrMap
  <2>5. a \notin DOMAIN addr
    BY <1>1, <1>0 DEF user_connected, get_user_id_from_address, address_exists,
         SessionsConsistent, SessionsMatch, get_address_from_user, AddrMap, IsMap,
         UserIds, INVALID_USER_ID
  <2>6. SessionsMatch(Put(conn, u, new), Put(addr, a, u))
    BY <1>0, <1>1, <2>3, <2>4, <2>5 DEF SessionsConsistent, SessionsMatch,
         get_address_from_user, user_connected
  <2> QED
    BY <2>1, <2>3, <2>4, <2>6
<1>2. CASE user_connected(u) /\ ~Stores(u, a)
  <2>1. add_session(u, a) = conn /\ link_address(u, a) = addr
    BY <1>2 DEF add_session, link_address
  <2> QED
    BY <1>0, <1>2, <2>1 DEF user_connected, SessionsConsistent
<1>3. CASE user_connected(u) /\ Stores(u, a)
  <2> DEFINE one  == [conn EXCEPT ![u].session_one = a]
             two  == [conn EXCEPT ![u].session_two = a]
  <2>1. link_address(u, a) = Put(addr, a, u)
    BY <1>3 DEF link_address
  <2>2. /\ AddrMap(Put(addr, a, u))
        /\ DOMAIN Put(addr, a, u) = DOMAIN addr \cup {a}
        /\ Put(addr, a, u)[a] = u
        /\ \A x \in DOMAIN addr : x # a => Put(addr, a, u)[x] = addr[x]
    BY <1>0, PutMap DEF AddrMap
  <2>3. /\ a \notin get_address_from_user(conn, u)
        /\ session_available(u)
        /\ u \in DOMAIN conn
    BY <1>3 DEF Stores, user_connected
  <2>4. a \notin DOMAIN addr
    BY <2>3, <1>0 DEF get_user_id_from_address, address_exists, AddrMap, IsMap,
         SessionsConsistent, SessionsMatch, UserIds, INVALID_USER_ID
  <2>5. CASE conn[u].session_one = NULL
    <3>1. add_session(u, a) = one
      BY <1>3, <2>5 DEF add_session
    <3>2. /\ ConnMap(one)
          /\ DOMAIN one = DOMAIN conn
          /\ one[u].session_one = a
          /\ one[u].session_two = conn[u].session_two
          /\ \A x \in DOMAIN conn : x # u => one[x] = conn[x]
      BY <1>0, <2>3 DEF ConnMap, IsMap, UserConnectionData
    <3>3. SessionsMatch(one, Put(addr, a, u))
      BY <1>0, <2>2, <2>3, <2>4, <2>5, <3>2 DEF SessionsConsistent,
           SessionsMatch, get_address_from_user
    <3> QED
      BY <2>1, <2>2, <2>3, <3>1, <3>2, <3>3
  <2>6. CASE conn[u].session_one # NULL
    <3>1. add_session(u, a) = two
      BY <1>3, <2>6 DEF add_session
    <3>2. /\ ConnMap(two)
          /\ DOMAIN two = DOMAIN conn
          /\ two[u].session_one = conn[u].session_one
          /\ two[u].session_two = a
          /\ \A x \in DOMAIN conn : x # u => two[x] = conn[x]
      BY <1>0, <2>3 DEF ConnMap, IsMap, UserConnectionData
    <3>3. conn[u].session_two = NULL
      BY <2>3, <2>6 DEF session_available
    <3>4. SessionsMatch(two, Put(addr, a, u))
      BY <1>0, <2>2, <2>3, <2>4, <2>6, <3>2, <3>3 DEF SessionsConsistent,
           SessionsMatch, get_address_from_user
    <3> QED
      BY <2>1, <2>2, <2>3, <3>1, <3>2, <3>4
  <2> QED
    BY <2>5, <2>6
<1> QED
  BY <1>1, <1>2, <1>3

\* A logout takes the address out of both maps, and the user's entry with
\* its last session.
LEMMA RemoveSession ==
  ASSUME ConnectionTypeOK, SessionsConsistent, NEW a \in Addresses,
         address_exists(a), remove_address(a)
  PROVE  /\ ConnectionTypeOK'
         /\ SessionsConsistent'
         /\ DOMAIN user_id_to_connection_data' \subseteq
              DOMAIN user_id_to_connection_data
<1> DEFINE conn == user_id_to_connection_data
           addr == address_to_user_id
           u    == addr[a]
           data == without_session(conn[u], a)
<1>0. ConnMap(conn) /\ AddrMap(addr) /\ a # NULL
  BY NullIsNoAddress DEF ConnectionTypeOK, ConnMap, AddrMap
<1>1. /\ u \in DOMAIN conn
      /\ a \in get_address_from_user(conn, u)
      /\ u \in UserIds
  BY <1>0 DEF address_exists, SessionsConsistent, SessionsMatch,
       get_address_from_user, AddrMap, IsMap
<1>2. /\ data \in UserConnectionData
      /\ data.session_one = a => FALSE
      /\ data.session_two = a => FALSE
      /\ {data.session_one, data.session_two} \ {NULL} =
           get_address_from_user(conn, u) \ {a}
      /\ ~(data.session_one = NULL /\ data.session_two = NULL)
           => data.session_one # data.session_two
  <2>1. conn[u] \in UserConnectionData
    BY <1>0, <1>1 DEF ConnMap, IsMap
  <2>2. conn[u].session_one # conn[u].session_two
    BY <1>1 DEF SessionsConsistent, SessionsMatch
  <2>3. conn[u].session_one = a \/ conn[u].session_two = a
    BY <1>1 DEF get_address_from_user
  <2> QED
    BY <1>0, <1>1, <2>1, <2>2, <2>3
    DEF without_session, UserConnectionData, get_address_from_user
<1>3. /\ address_to_user_id' = Erase(addr, a)
      /\ user_id_to_connection_data' =
           IF data.session_one = NULL /\ data.session_two = NULL
             THEN Erase(conn, u) ELSE Put(conn, u, data)
  BY <1>1 DEF remove_address
<1>4. /\ AddrMap(Erase(addr, a))
      /\ DOMAIN Erase(addr, a) = DOMAIN addr \ {a}
      /\ \A x \in DOMAIN addr : x # a => Erase(addr, a)[x] = addr[x]
  BY <1>0, EraseMap DEF AddrMap
<1>5. CASE data.session_one = NULL /\ data.session_two = NULL
  <2>1. /\ ConnMap(Erase(conn, u))
        /\ DOMAIN Erase(conn, u) = DOMAIN conn \ {u}
        /\ \A x \in DOMAIN conn : x # u => Erase(conn, u)[x] = conn[x]
    BY <1>0, EraseMap DEF ConnMap
  <2>2. get_address_from_user(conn, u) = {a}
    BY <1>1, <1>2, <1>5
  <2>3. SessionsMatch(Erase(conn, u), Erase(addr, a))
    <3>1. \A v \in DOMAIN Erase(conn, u) :
            get_address_from_user(Erase(conn, u), v) = get_address_from_user(conn, v)
      BY <2>1 DEF get_address_from_user
    <3>2. \A b \in DOMAIN Erase(addr, a) : addr[b] # u /\ addr[b] \in DOMAIN conn
      BY <1>4, <2>2 DEF SessionsConsistent, SessionsMatch, get_address_from_user
    <3>3. \A v \in DOMAIN Erase(conn, u) :
            a \notin get_address_from_user(conn, v)
      BY <2>1 DEF SessionsConsistent, SessionsMatch
    <3> HIDE DEF u, data
    <3> QED
      BY <1>4, <2>1, <3>1, <3>2, <3>3 DEF SessionsConsistent, SessionsMatch
  <2> QED
    BY <1>3, <1>4, <1>5, <2>1, <2>3
    DEF ConnectionTypeOK, SessionsConsistent, ConnMap, AddrMap
<1>6. CASE ~(data.session_one = NULL /\ data.session_two = NULL)
  <2>1. /\ ConnMap(Put(conn, u, data))
        /\ DOMAIN Put(conn, u, data) = DOMAIN conn
        /\ Put(conn, u, data)[u] = data
        /\ \A x \in DOMAIN conn : x # u => Put(conn, u, data)[x] = conn[x]
    <3>1. \A v \in UserIds, d \in UserConnectionData :
            /\ ConnMap(Put(conn, v, d))
            /\ DOMAIN Put(conn, v, d) = DOMAIN conn \cup {v}
            /\ Put(conn, v, d)[v] = d
            /\ \A x \in DOMAIN conn : x # v => Put(conn, v, d)[x] = conn[x]
      BY <1>0 DEF ConnMap, IsMap, Put
    <3>2. u \in UserIds /\ data \in UserConnectionData /\ u \in DOMAIN conn
      BY <1>1, <1>2
    <3> HIDE DEF u, data
    <3> QED
      BY <3>1, <3>2
  <2>2. SessionsMatch(Put(conn, u, data), Erase(addr, a))
    <3>1. \A v \in DOMAIN conn : v # u =>
            /\ get_address_from_user(Put(conn, u, data), v)
                 = get_address_from_user(conn, v)
            /\ a \notin get_address_from_user(conn, v)
      BY <2>1 DEF get_address_from_user, SessionsConsistent, SessionsMatch
    <3>2. get_address_from_user(Put(conn, u, data), u)
            = get_address_from_user(conn, u) \ {a}
      BY <1>1, <1>2, <2>1 DEF get_address_from_user
    <3>3. \A b \in DOMAIN addr : addr[b] \in DOMAIN conn
      BY DEF SessionsConsistent, SessionsMatch, get_address_from_user
    <3>4. data.session_one # data.session_two
      BY <1>2, <1>6
    <3> HIDE DEF u, data
    <3> QED
      BY <1>4, <2>1, <3>1, <3>2, <3>3, <3>4
      DEF SessionsConsistent, SessionsMatch
  <2> QED
    BY <1>3, <1>4, <1>6, <2>1, <2>2
    DEF ConnectionTypeOK, SessionsConsistent, ConnMap, AddrMap
<1> QED
  BY <1>5, <1>6

-----------------------------------------------------------------------------
(***************************************************************************)
(* Messages.                                                               *)
(***************************************************************************)

\* Queues stay queues of messages when messages are appended to sessions.
LEMMA ToSessionsType ==
  ASSUME NEW queue \in [Addresses -> Seq(ServerMessageData)], NEW conn,
         NEW msgs \in [DOMAIN conn -> Seq(ServerMessageData)]
  PROVE  to_sessions(queue, conn, msgs)
           \in [Addresses -> Seq(ServerMessageData)]
<1> SUFFICES ASSUME NEW a \in Addresses
             PROVE  to_sessions(queue, conn, msgs)[a] \in Seq(ServerMessageData)
  BY DEF to_sessions
<1> DEFINE holders == {u \in DOMAIN conn : a \in get_address_from_user(conn, u)}
<1>1. CASE holders = {}
  BY <1>1 DEF to_sessions
<1>2. CASE holders # {}
  <2>1. (CHOOSE u \in holders : TRUE) \in DOMAIN conn
    BY <1>2
  <2>2. msgs[CHOOSE u \in holders : TRUE] \in Seq(ServerMessageData)
    BY <2>1
  <2> QED
    BY <1>2, <2>2 DEF to_sessions
<1> QED
  BY <1>1, <1>2

\* So does the queue of an address that is answered.
LEMMA ToAddressType ==
  ASSUME SendQueueTypeOK, NEW a \in Addresses, NEW msg \in ServerMessageData
  PROVE  to_address(a, msg) \in [Addresses -> Seq(ServerMessageData)]
  BY DEF SendQueueTypeOK, to_address

\* Answers and posts are messages.
LEMMA MessageTypes ==
  ASSUME UserTypeOK, NEW id \in Nat
  PROVE  /\ \A type \in ServerMsgType, name \in Names \cup {NULL} :
              Response(id, type, name) \in ServerMessageData
         /\ \A author : \A text \in Messages :
              Post(id, author, text) \in ServerMessageData
  BY DEF Response, Post, ServerMessageData, ServerMsgType, UserTypeOK, IsMap,
         get_username_from_user_id, user_id_exists, UserData

-----------------------------------------------------------------------------
(***************************************************************************)
(* UserPersistence.                                                        *)
(***************************************************************************)
UserMap(users) == IsMap(users, UserIds, UserData)

\* What registering leaves: every user as it was, and the name under an id
\* of its own, with nobody following and nothing waiting if it is new.
LEMMA RegisterFacts ==
  ASSUME UserTypeOK, RegistryConsistent, NEW name \in ValidNames
  PROVE  LET u == id_after_login(name)
             r == registered(name)
         IN  /\ u \in UserIds
             /\ UserMap(r)
             /\ DOMAIN r = DOMAIN id_to_user \cup {u}
             /\ r[u].username = name
             /\ \A v \in DOMAIN id_to_user : r[v] = id_to_user[v]
             /\ u \notin DOMAIN id_to_user => /\ r[u].followed_by = << >>
                                              /\ r[u].pending_notifications = << >>
             /\ Registers(name) <=> name \notin DOMAIN username_to_id
             /\ Registers(name) => u = last_user_id + 1 /\ u \notin DOMAIN id_to_user
             /\ ~Registers(name) => u = username_to_id[name] /\ u \in DOMAIN id_to_user
<1>1. Registers(name) <=> name \notin DOMAIN username_to_id
  BY DEF Registers, get_user_id_from_username, UserTypeOK, IsMap, UserIds,
       INVALID_USER_ID
<1>2. CASE Registers(name)
  <2> DEFINE new == [username |-> name, followed_by |-> << >>,
                     pending_notifications |-> << >>]
             u   == last_user_id + 1
  <2>1. new \in UserData
    BY ValidNamesAreNames DEF UserData
  <2>2. u \in UserIds /\ u \notin DOMAIN id_to_user
    BY DEF UserTypeOK, RegistryConsistent, UserIds, INVALID_USER_ID, IsMap
  <2>3. id_after_login(name) = u /\ registered(name) = Put(id_to_user, u, new)
    BY <1>2 DEF id_after_login, registered, next_user_id
  <2>4. UserMap(id_to_user)
    BY DEF UserTypeOK, UserMap
  <2> HIDE DEF u
  <2>5. /\ UserMap(Put(id_to_user, u, new))
        /\ DOMAIN Put(id_to_user, u, new) = DOMAIN id_to_user \cup {u}
        /\ Put(id_to_user, u, new)[u] = new
        /\ \A v \in DOMAIN id_to_user : Put(id_to_user, u, new)[v] = id_to_user[v]
    BY <2>1, <2>2, <2>4 DEF UserMap, IsMap, Put
  <2> QED
    BY <1>1, <1>2, <2>2, <2>3, <2>5 DEF u
<1>3. CASE ~Registers(name)
  BY <1>1, <1>3 DEF id_after_login, registered, UserTypeOK, RegistryConsistent,
       user_id_exists, IsMap, UserMap
<1> QED
  BY <1>2, <1>3

\* Registering keeps the registry and the follower lists sound, whatever
\* it does to what waits for the users.
LEMMA RegisterStep ==
  ASSUME UserTypeOK, RegistryConsistent, FollowersConsistent,
         NEW name \in ValidNames, add_or_update_user(name),
         UserMap(id_to_user'), DOMAIN id_to_user' = DOMAIN registered(name),
         \A v \in DOMAIN registered(name) :
           /\ id_to_user'[v].username = registered(name)[v].username
           /\ id_to_user'[v].followed_by = registered(name)[v].followed_by
  PROVE  UserTypeOK' /\ RegistryConsistent' /\ FollowersConsistent'
<1> DEFINE u == id_after_login(name)
           r == registered(name)
<1>1. /\ u \in UserIds
      /\ DOMAIN r = DOMAIN id_to_user \cup {u}
      /\ r[u].username = name
      /\ \A v \in DOMAIN id_to_user : r[v] = id_to_user[v]
      /\ u \notin DOMAIN id_to_user => r[u].followed_by = << >>
      /\ Registers(name) <=> name \notin DOMAIN username_to_id
      /\ Registers(name) => u = last_user_id + 1 /\ u \notin DOMAIN id_to_user
      /\ ~Registers(name) => u = username_to_id[name] /\ u \in DOMAIN id_to_user
  BY RegisterFacts
<1>2. FollowersConsistent'
  <2> SUFFICES ASSUME NEW v \in DOMAIN id_to_user'
               PROVE  LET followers == id_to_user'[v].followed_by
                      IN  /\ \A i \in DOMAIN followers :
                               /\ followers[i] \in DOMAIN id_to_user'
                               /\ followers[i] # v
                          /\ \A i, j \in DOMAIN followers :
                               followers[i] = followers[j] => i = j
    BY DEF FollowersConsistent, user_id_exists
  <2>1. CASE v \in DOMAIN id_to_user
    <3>1. id_to_user'[v].followed_by = id_to_user[v].followed_by
      BY <1>1, <2>1
    <3> QED
      BY <1>1, <2>1, <3>1 DEF FollowersConsistent, user_id_exists
  <2>2. CASE v \notin DOMAIN id_to_user
    <3>1. id_to_user'[v].followed_by = << >>
      BY <1>1, <2>2
    <3> QED
      BY <3>1
  <2> QED
    BY <2>1, <2>2
<1>3. CASE Registers(name)
  <2>1. /\ last_user_id' = u
        /\ username_to_id' = Put(username_to_id, name, u)
        /\ user_data_update_queue' =
             Append(user_data_update_queue,
                    [user_id |-> u, username |-> name, followed_by |-> << >>])
        /\ u = last_user_id + 1
    BY <1>1, <1>3 DEF add_or_update_user, next_user_id
  <2>2. /\ IsMap(username_to_id', Names, UserIds)
        /\ DOMAIN username_to_id' = DOMAIN username_to_id \cup {name}
        /\ username_to_id'[name] = u
        /\ \A n \in DOMAIN username_to_id : username_to_id'[n] = username_to_id[n]
    BY <1>1, <1>3, <2>1, ValidNamesAreNames DEF UserTypeOK, IsMap, Put
  <2>3. UserTypeOK'
    <3>1. [user_id |-> u, username |-> name, followed_by |-> << >>]
            \in UserPersistentData
      BY <1>1, ValidNamesAreNames DEF UserPersistentData
    <3>2. user_data_update_queue' \in Seq(UserPersistentData)
      BY <2>1, <3>1 DEF UserTypeOK
    <3>3. last_user_id' \in Nat
      BY <2>1 DEF UserTypeOK
    <3> QED
      BY <2>2, <3>2, <3>3 DEF UserTypeOK, UserMap
  <2>4. RegistryConsistent'
    <3>1. \A n \in DOMAIN username_to_id' :
            /\ username_to_id'[n] \in DOMAIN id_to_user'
            /\ id_to_user'[username_to_id'[n]].username = n
      BY <1>1, <1>3, <2>2 DEF RegistryConsistent, user_id_exists
    <3>2. \A v \in DOMAIN id_to_user' :
            /\ v <= last_user_id'
            /\ id_to_user'[v].username \in DOMAIN username_to_id'
            /\ username_to_id'[id_to_user'[v].username] = v
      <4> SUFFICES ASSUME NEW v \in DOMAIN id_to_user'
                   PROVE  /\ v <= last_user_id'
                          /\ id_to_user'[v].username \in DOMAIN username_to_id'
                          /\ username_to_id'[id_to_user'[v].username] = v
        OBVIOUS
      <4>1. CASE v = u
        <5>1. id_to_user'[v].username = name
          BY <1>1, <4>1
        <5>2. v <= last_user_id'
          BY <2>1, <4>1 DEF UserTypeOK
        <5> QED
          BY <2>2, <4>1, <5>1, <5>2
      <4>2. CASE v # u
        <5>1. v \in DOMAIN id_to_user
          BY <1>1, <4>2
        <5>2. id_to_user'[v].username = id_to_user[v].username
          BY <1>1, <5>1
        <5>3. v <= last_user_id'
          BY <2>1, <5>1 DEF UserTypeOK, RegistryConsistent, IsMap, UserIds
        <5> QED
          BY <2>2, <5>1, <5>2, <5>3 DEF RegistryConsistent
      <4> QED
        BY <4>1, <4>2
    <3> QED
      BY <3>1, <3>2 DEF RegistryConsistent, user_id_exists
  <2> QED
    BY <1>2, <2>3, <2>4
<1>4. CASE ~Registers(name)
  <2>1. UNCHANGED <<last_user_id, username_to_id, user_data_update_queue>>
    BY <1>4 DEF add_or_update_user
  <2>2. DOMAIN id_to_user' = DOMAIN id_to_user
    BY <1>1, <1>4
  <2>3. RegistryConsistent'
    BY <1>1, <2>1, <2>2 DEF RegistryConsistent, user_id_exists
  <2> QED
    BY <1>2, <2>1, <2>3 DEF UserTypeOK, UserMap
<1> QED
  BY <1>3, <1>4

\* Adding a follower keeps them sound, since a user that is listed already
\* is not listed again and nobody is asked to follow itself.
LEMMA FollowStep ==
  ASSUME UserTypeOK, RegistryConsistent, FollowersConsistent,
         NEW followed, NEW follower, followed # follower,
         add_follow(followed, follower)
  PROVE  /\ UserTypeOK' /\ RegistryConsistent' /\ FollowersConsistent'
         /\ DOMAIN id_to_user' = DOMAIN id_to_user
         /\ \A v \in DOMAIN id_to_user :
              id_to_user'[v].pending_notifications
                = id_to_user[v].pending_notifications
<1>0. UNCHANGED <<last_user_id, username_to_id>>
  BY DEF add_follow, add_followed_by
<1>1. CASE /\ user_id_exists(followed)
           /\ user_id_exists(follower)
           /\ ~already_follows(followed, follower)
  <2> DEFINE list == id_to_user[followed].followed_by
             rec  == [user_id |-> followed,
                      username |-> id_to_user[followed].username,
                      followed_by |-> Append(list, follower)]
  <2>1. /\ id_to_user' = [id_to_user EXCEPT
                            ![followed].followed_by = Append(@, follower)]
        /\ user_data_update_queue' = Append(user_data_update_queue, rec)
    BY <1>1 DEF add_follow, add_followed_by
  <2>2. /\ followed \in DOMAIN id_to_user
        /\ follower \in DOMAIN id_to_user
        /\ followed \in UserIds /\ follower \in UserIds
        /\ list \in Seq(UserIds)
        /\ id_to_user[followed] \in UserData
        /\ id_to_user[followed].username \in Names
    BY <1>1 DEF user_id_exists, UserTypeOK, IsMap, UserData
  <2>3. \A i \in DOMAIN list : list[i] # follower
    BY <1>1 DEF already_follows
  <2>4. /\ Append(list, follower) \in Seq(UserIds)
        /\ DOMAIN Append(list, follower) = DOMAIN list \cup {Len(list) + 1}
        /\ Append(list, follower)[Len(list) + 1] = follower
        /\ \A i \in DOMAIN list : Append(list, follower)[i] = list[i]
    BY <2>2
  <2>5. /\ DOMAIN id_to_user' = DOMAIN id_to_user
        /\ UserMap(id_to_user')
        /\ id_to_user'[followed].followed_by = Append(list, follower)
        /\ id_to_user'[followed].username = id_to_user[followed].username
        /\ id_to_user'[followed].pending_notifications
             = id_to_user[followed].pending_notifications
        /\ \A v \in DOMAIN id_to_user : v # followed => id_to_user'[v] = id_to_user[v]
    BY <2>1, <2>2, <2>4 DEF UserTypeOK, UserMap, IsMap, UserData
  <2>6. UserTypeOK'
    <3>1. rec \in UserPersistentData
      BY <2>2, <2>4 DEF UserPersistentData
    <3>2. user_data_update_queue' \in Seq(UserPersistentData)
      BY <2>1, <3>1 DEF UserTypeOK
    <3> QED
      BY <1>0, <2>5, <3>2 DEF UserTypeOK, UserMap
  <2>7. RegistryConsistent'
    BY <1>0, <2>5 DEF RegistryConsistent, user_id_exists
  <2>8. FollowersConsistent'
    <3> SUFFICES ASSUME NEW v \in DOMAIN id_to_user
                 PROVE  LET followers == id_to_user'[v].followed_by
                        IN  /\ \A i \in DOMAIN followers :
                                 /\ followers[i] \in DOMAIN id_to_user
                                 /\ followers[i] # v
                            /\ \A i, j \in DOMAIN followers :
                                 followers[i] = followers[j] => i = j
      BY <2>5 DEF FollowersConsistent, user_id_exists
    <3>1. CASE v = followed
      <4>1. /\ \A i \in DOMAIN list : list[i] \in DOMAIN id_to_user /\ list[i] # followed
            /\ \A i, j \in DOMAIN list : list[i] = list[j] => i = j
        BY <2>2 DEF FollowersConsistent, user_id_exists
      <4> HIDE DEF list
      <4> QED
        BY <2>2, <2>3, <2>4, <2>5, <3>1, <4>1, SMTT(30)
    <3>2. CASE v # followed
      BY <2>5, <3>2 DEF FollowersConsistent, user_id_exists
    <3> QED
      BY <3>1, <3>2
  <2> QED
    BY <2>5, <2>6, <2>7, <2>8
<1>2. CASE ~(/\ user_id_exists(followed)
             /\ user_id_exists(follower)
             /\ ~already_follows(followed, follower))
  <2>1. UNCHANGED <<id_to_user, user_data_update_queue>>
    BY <1>2 DEF add_follow, add_followed_by
  <2> QED
    BY <1>0, <2>1 DEF UserTypeOK, RegistryConsistent, FollowersConsistent,
         user_id_exists
<1> QED
  BY <1>1, <1>2

-----------------------------------------------------------------------------
(***************************************************************************)
(* Notification.                                                           *)
(***************************************************************************)

\* Users are numbered 1 .. last_user_id, so finitely many wait for anything.
LEMMA WaitingFinite ==
  ASSUME UserTypeOK, RegistryConsistent, NEW n
  PROVE  IsFiniteSet(waiting_for(n))
<1>1. waiting_for(n) \in SUBSET (1 .. last_user_id)
  BY DEF waiting_for, UserTypeOK, RegistryConsistent, IsMap, UserIds,
       INVALID_USER_ID
<1>2. IsFiniteSet(1 .. last_user_id)
  BY FS_Interval DEF UserTypeOK
<1> QED
  BY <1>1, <1>2, FS_Subset

\* Positions of a sequence that satisfy a condition no two of them share
\* are none or one.
LEMMA AtMostOne ==
  ASSUME NEW P, \A i, j \in P : i = j
  PROVE  IsFiniteSet(P) /\ Cardinality(P) = IF P = {} THEN 0 ELSE 1
<1>1. CASE P = {}
  BY <1>1, FS_EmptySet
<1>2. CASE P # {}
  <2>1. PICK i \in P : TRUE
    BY <1>2
  <2>2. P = {i}
    BY <2>1
  <2> QED
    BY <1>2, <2>2, FS_Singleton
<1> QED
  BY <1>1, <1>2

\* A step that stores nothing and leaves every list as it was, new users
\* starting with an empty one, keeps the counts exact.
LEMMA PendingFrame ==
  ASSUME PendingConsistent, UNCHANGED notification_vars,
         DOMAIN id_to_user \subseteq DOMAIN id_to_user',
         \A v \in DOMAIN id_to_user :
           id_to_user'[v].pending_notifications
             = id_to_user[v].pending_notifications,
         \A v \in DOMAIN id_to_user' \ DOMAIN id_to_user :
           id_to_user'[v].pending_notifications = << >>
  PROVE  PendingConsistent'
<1>1. \A n : waiting_for(n)' = waiting_for(n)
  BY DEF waiting_for
<1>2. \A v \in DOMAIN id_to_user' :
        LET list == id_to_user'[v].pending_notifications
        IN  /\ \A i \in DOMAIN list :
                 /\ list[i].notification_id
                      \in DOMAIN notification_id_to_notification
                 /\ notification_id_to_notification[list[i].notification_id].author
                      = list[i].user_id
            /\ \A i, j \in DOMAIN list :
                 list[i].notification_id = list[j].notification_id => i = j
  <2> SUFFICES ASSUME NEW v \in DOMAIN id_to_user'
               PROVE  LET list == id_to_user'[v].pending_notifications
                      IN  /\ \A i \in DOMAIN list :
                               /\ list[i].notification_id
                                    \in DOMAIN notification_id_to_notification
                               /\ notification_id_to_notification
                                    [list[i].notification_id].author
                                    = list[i].user_id
                          /\ \A i, j \in DOMAIN list :
                               list[i].notification_id = list[j].notification_id
                                 => i = j
    OBVIOUS
  <2>1. CASE v \in DOMAIN id_to_user
    BY <2>1 DEF PendingConsistent, notification_exists
  <2>2. CASE v \notin DOMAIN id_to_user
    <3>1. id_to_user'[v].pending_notifications = << >>
      BY <2>2
    <3> QED
      BY <3>1
  <2> QED
    BY <2>1, <2>2
<1>3. /\ last_notification_id' = last_notification_id
      /\ notification_id_to_notification' = notification_id_to_notification
  BY DEF notification_vars
<1> QED
  BY <1>1, <1>2, <1>3 DEF PendingConsistent, notification_exists

\* Draining the list of user u: every entry is found, every notification is
\* counted down by one, and those that u was the last to wait for are freed.
LEMMA DrainStep ==
  ASSUME UserTypeOK, RegistryConsistent, NotificationTypeOK, PendingConsistent,
         NEW u, NEW list \in Seq(PendingNotification),
         u \in DOMAIN id_to_user => list = id_to_user[u].pending_notifications,
         u \notin DOMAIN id_to_user => list = << >>,
         DOMAIN id_to_user' = DOMAIN id_to_user \cup {u},
         id_to_user'[u].pending_notifications = << >>,
         \A v \in DOMAIN id_to_user : v # u =>
           id_to_user'[v].pending_notifications
             = id_to_user[v].pending_notifications,
         notification_id_to_notification' = decrement_pending_users_from(list),
         UNCHANGED last_notification_id
  PROVE  NotificationTypeOK' /\ PendingConsistent'
<1> DEFINE notes == notification_id_to_notification
           inlist(n) == \E i \in DOMAIN list : list[i].notification_id = n
           kept == {n \in DOMAIN notes : mentions(list, n) = 0
                                         \/ notes[n].pending_users - mentions(list, n) > 0}
<1>1. \A n : mentions(list, n) = IF inlist(n) THEN 1 ELSE 0
  <2> SUFFICES ASSUME NEW n
               PROVE  mentions(list, n) = IF inlist(n) THEN 1 ELSE 0
    OBVIOUS
  <2> DEFINE P == {i \in DOMAIN list : list[i].notification_id = n}
  <2>1. \A i, j \in P : i = j
    BY DEF PendingConsistent
  <2>2. Cardinality(P) = IF P = {} THEN 0 ELSE 1
    <3> HIDE DEF P
    <3> QED
      BY <2>1, AtMostOne
  <2> QED
    BY <2>2 DEF mentions
<1>2. \A n : waiting_for(n)' = waiting_for(n) \ {u}
  BY DEF waiting_for
<1>3. \A n : inlist(n) <=> u \in waiting_for(n)
  BY DEF waiting_for
<1>4. \A n \in DOMAIN notes :
        /\ IsFiniteSet(waiting_for(n))
        /\ notes[n] \in NotificationData
        /\ notes[n].pending_users \in Nat
        /\ notes[n].pending_users = Cardinality(waiting_for(n))
        /\ Cardinality(waiting_for(n) \ {u}) =
             notes[n].pending_users - mentions(list, n)
        /\ IsFiniteSet(waiting_for(n) \ {u})
  <2> SUFFICES ASSUME NEW n \in DOMAIN notes
               PROVE  /\ IsFiniteSet(waiting_for(n))
                      /\ notes[n] \in NotificationData
                      /\ notes[n].pending_users \in Nat
                      /\ notes[n].pending_users = Cardinality(waiting_for(n))
                      /\ Cardinality(waiting_for(n) \ {u}) =
                           notes[n].pending_users - mentions(list, n)
                      /\ IsFiniteSet(waiting_for(n) \ {u})
    OBVIOUS
  <2>1. IsFiniteSet(waiting_for(n))
    BY WaitingFinite
  <2>2. /\ notes[n] \in NotificationData
        /\ notes[n].pending_users \in Nat
    BY DEF NotificationTypeOK, IsMap, NotificationData
  <2>3. notes[n].pending_users = Cardinality(waiting_for(n))
    BY DEF PendingConsistent
  <2>4. /\ IsFiniteSet(waiting_for(n) \ {u})
        /\ Cardinality(waiting_for(n) \ {u}) =
             IF u \in waiting_for(n) THEN Cardinality(waiting_for(n)) - 1
                                     ELSE Cardinality(waiting_for(n))
    BY <2>1, FS_RemoveElement
  <2> QED
    BY <1>1, <1>3, <2>1, <2>2, <2>3, <2>4
<1>5. /\ DOMAIN notification_id_to_notification' = kept
      /\ \A n \in kept :
           notification_id_to_notification'[n] =
             [notes[n] EXCEPT !.pending_users = @ - mentions(list, n)]
  BY DEF decrement_pending_users_from
<1>6. \A n \in kept :
        /\ n \in DOMAIN notes
        /\ notification_id_to_notification'[n].author = notes[n].author
        /\ notification_id_to_notification'[n].pending_users
             = Cardinality(waiting_for(n) \ {u})
        /\ notification_id_to_notification'[n] \in NotificationData
        /\ waiting_for(n) \ {u} # {}
  <2> SUFFICES ASSUME NEW n \in kept
               PROVE  /\ n \in DOMAIN notes
                      /\ notification_id_to_notification'[n].author = notes[n].author
                      /\ notification_id_to_notification'[n].pending_users
                           = Cardinality(waiting_for(n) \ {u})
                      /\ notification_id_to_notification'[n] \in NotificationData
                      /\ waiting_for(n) \ {u} # {}
    OBVIOUS
  <2>1. n \in DOMAIN notes /\ mentions(list, n) \in {0, 1}
    BY <1>1
  <2>2. notes[n].pending_users - mentions(list, n) \in Nat
    <3>1. /\ notes[n].pending_users \in Nat
          /\ mentions(list, n) = 0
               \/ notes[n].pending_users - mentions(list, n) > 0
      BY <1>4, <2>1
    <3> HIDE DEF notes, kept
    <3> QED
      BY <2>1, <3>1
  <2>3. /\ notification_id_to_notification'[n].author = notes[n].author
        /\ notification_id_to_notification'[n].pending_users
             = notes[n].pending_users - mentions(list, n)
        /\ notification_id_to_notification'[n] \in NotificationData
    BY <1>4, <1>5, <2>1, <2>2 DEF NotificationData
  <2>4. waiting_for(n) \ {u} # {}
    <3>1. CASE mentions(list, n) = 0
      <4>1. u \notin waiting_for(n)
        BY <1>1, <1>3, <3>1
      <4>2. waiting_for(n) # {}
        BY <2>1 DEF PendingConsistent
      <4> QED
        BY <4>1, <4>2
    <3>2. CASE mentions(list, n) # 0
      <4>1. Cardinality(waiting_for(n) \ {u}) # 0
        <5>1. /\ notes[n].pending_users \in Nat
              /\ notes[n].pending_users - mentions(list, n) > 0
              /\ Cardinality(waiting_for(n) \ {u}) =
                   notes[n].pending_users - mentions(list, n)
          BY <1>4, <2>1, <3>2
        <5> HIDE DEF notes, kept
        <5> QED
          BY <2>1, <5>1
      <4> QED
        BY <4>1, FS_EmptySet
    <3> QED
      BY <3>1, <3>2
  <2> QED
    BY <1>4, <2>1, <2>3, <2>4
<1>7. \A n \in DOMAIN notes : waiting_for(n) \ {u} # {} => n \in kept
  <2> SUFFICES ASSUME NEW n \in DOMAIN notes, waiting_for(n) \ {u} # {}
               PROVE  n \in kept
    OBVIOUS
  <2>1. Cardinality(waiting_for(n) \ {u}) # 0
    BY <1>4, FS_EmptySet
  <2>2. Cardinality(waiting_for(n) \ {u}) \in Nat
    BY <1>4, FS_CardinalityType
  <2> QED
    BY <1>4, <2>1, <2>2
<1>8. NotificationTypeOK'
  <2>1. notification_id_to_notification' \in [kept -> NotificationData]
    <3>1. notification_id_to_notification' =
            [n \in kept |-> notification_id_to_notification'[n]]
      BY <1>5 DEF decrement_pending_users_from
    <3> HIDE DEF kept
    <3> QED
      BY <1>6, <3>1
  <2>2. kept \subseteq NotificationIds
    BY DEF NotificationTypeOK, IsMap
  <2> QED
    BY <1>5, <2>1, <2>2 DEF NotificationTypeOK, IsMap
<1>9. \A n \in DOMAIN notification_id_to_notification' :
        /\ n <= last_notification_id'
        /\ waiting_for(n)' # {}
        /\ notification_id_to_notification'[n].pending_users
             = Cardinality(waiting_for(n)')
  BY <1>2, <1>5, <1>6 DEF PendingConsistent
<1>10. \A v \in DOMAIN id_to_user' :
         LET l == id_to_user'[v].pending_notifications
         IN  /\ \A i \in DOMAIN l :
                  /\ l[i].notification_id \in DOMAIN notification_id_to_notification'
                  /\ notification_id_to_notification'[l[i].notification_id].author
                       = l[i].user_id
             /\ \A i, j \in DOMAIN l :
                  l[i].notification_id = l[j].notification_id => i = j
  <2> SUFFICES ASSUME NEW v \in DOMAIN id_to_user'
               PROVE  LET l == id_to_user'[v].pending_notifications
                      IN  /\ \A i \in DOMAIN l :
                               /\ l[i].notification_id
                                    \in DOMAIN notification_id_to_notification'
                               /\ notification_id_to_notification'
                                    [l[i].notification_id].author = l[i].user_id
                          /\ \A i, j \in DOMAIN l :
                               l[i].notification_id = l[j].notification_id => i = j
    OBVIOUS
  <2>1. CASE v = u
    <3>1. id_to_user'[v].pending_notifications = << >>
      BY <2>1
    <3> QED
      BY <3>1
  <2>2. CASE v # u
    <3> DEFINE l == id_to_user[v].pending_notifications
    <3>1. v \in DOMAIN id_to_user /\ id_to_user'[v].pending_notifications = l
      BY <2>2
    <3>2. /\ \A i \in DOMAIN l : /\ l[i].notification_id \in DOMAIN notes
                                 /\ notes[l[i].notification_id].author = l[i].user_id
          /\ \A i, j \in DOMAIN l :
               l[i].notification_id = l[j].notification_id => i = j
      BY <3>1 DEF PendingConsistent, notification_exists
    <3>3. \A i \in DOMAIN l : v \in waiting_for(l[i].notification_id) \ {u}
      BY <2>2, <3>1 DEF waiting_for
    <3>4. \A i \in DOMAIN l : l[i].notification_id \in kept
      BY <1>7, <3>2, <3>3
    <3> HIDE DEF kept, l, notes
    <3> QED
      BY <1>5, <1>6, <3>1, <3>2, <3>4
  <2> QED
    BY <2>1, <2>2
<1> QED
  BY <1>8, <1>9, <1>10 DEF PendingConsistent, notification_exists

\* A list extended by c copies of one entry.
LEMMA ExtendList ==
  ASSUME NEW S, NEW l \in Seq(S), NEW c \in Nat, NEW p \in S
  PROVE  LET m == l \o [k \in 1 .. c |-> p]
         IN  /\ m \in Seq(S)
             /\ DOMAIN m = 1 .. (Len(l) + c)
             /\ DOMAIN l = 1 .. Len(l)
             /\ Len(l) \in Nat
             /\ \A i \in DOMAIN l : m[i] = l[i]
             /\ \A i \in (Len(l) + 1) .. (Len(l) + c) : m[i] = p
<1> DEFINE t == [k \in 1 .. c |-> p]
<1>1. t \in Seq(S) /\ Len(t) = c
  OBVIOUS
<1> QED
  BY <1>1

\* Storing a message for the followers that are offline: a fresh id, counted
\* once for each of them and entered once in each of their lists.
LEMMA StoreStep ==
  ASSUME UserTypeOK, RegistryConsistent, FollowersConsistent,
         NotificationTypeOK, PendingConsistent,
         NEW u \in DOMAIN id_to_user, NEW text \in Messages,
         store_notification(u, get_followers(u), text)
  PROVE  /\ NotificationTypeOK' /\ PendingConsistent'
         /\ UserMap(id_to_user')
         /\ DOMAIN id_to_user' = DOMAIN id_to_user
         /\ \A v \in DOMAIN id_to_user :
              /\ id_to_user'[v].username = id_to_user[v].username
              /\ id_to_user'[v].followed_by = id_to_user[v].followed_by
              /\ user_connected(v) => id_to_user'[v].pending_notifications
                                        = id_to_user[v].pending_notifications
<1>id. PICK id : id = last_notification_id + 1
  OBVIOUS
<1> DEFINE followers == id_to_user[u].followed_by
           off       == offline_users(followers)
           pending   == [user_id |-> u, notification_id |-> id]
           notes     == notification_id_to_notification
           note      == [author |-> u, message |-> text,
                         pending_users |-> Cardinality(off)]
           at(v)     == {i \in off : followers[i] = v}
           list(v)   == id_to_user[v].pending_notifications
           list2(v)  == list(v) \o [k \in 1 .. Cardinality(at(v)) |-> pending]
<1>0. get_followers(u) = followers
  BY DEF get_followers, user_id_exists
<1>1. CASE off = {}
  <2>1. UNCHANGED <<notification_vars, id_to_user>>
    BY <1>0, <1>1 DEF store_notification
  <2>2. PendingConsistent'
    BY <2>1, PendingFrame
  <2>3. NotificationTypeOK'
    BY <2>1 DEF NotificationTypeOK, notification_vars
  <2> QED
    BY <2>1, <2>2, <2>3 DEF UserTypeOK, UserMap
<1>2. CASE off # {}
  <2>1. /\ last_notification_id' = id
        /\ notification_id_to_notification' = Put(notes, id, note)
        /\ id_to_user' = [v \in DOMAIN id_to_user |->
                            [id_to_user[v] EXCEPT !.pending_notifications =
                               @ \o [k \in 1 .. Cardinality(at(v)) |-> pending]]]
    <3> DEFINE next == last_notification_id + 1
               p    == [user_id |-> u, notification_id |-> next]
    <3>1. /\ last_notification_id' = next
          /\ notification_id_to_notification' = Put(notes, next, note)
          /\ id_to_user' = [v \in DOMAIN id_to_user |->
                              [id_to_user[v] EXCEPT !.pending_notifications =
                                 @ \o [k \in 1 .. Cardinality(at(v)) |-> p]]]
      BY <1>0, <1>2, ZenonT(30) DEF store_notification, add_pending_notification
    <3>2. next = id
      BY <1>id
    <3>3. p = pending
      BY <3>2
    <3> HIDE DEF next, p, pending, note, at
    <3> QED
      BY <3>1, <3>2, <3>3
  <2>2. /\ followers \in Seq(UserIds)
        /\ u \in UserIds
        /\ \A i \in DOMAIN followers : followers[i] \in DOMAIN id_to_user
        /\ \A i, j \in DOMAIN followers : followers[i] = followers[j] => i = j
    BY DEF UserTypeOK, IsMap, UserData, FollowersConsistent, user_id_exists
  <2>3. /\ off \subseteq DOMAIN followers
        /\ IsFiniteSet(off)
        /\ Cardinality(off) \in Nat
        /\ \A i \in off : ~user_connected(followers[i])
    <3>1. off \subseteq DOMAIN followers
      BY DEF offline_users
    <3>2. IsFiniteSet(DOMAIN followers)
      BY <2>2, FS_Interval
    <3> QED
      BY <3>1, <3>2, FS_Subset, FS_CardinalityType DEF offline_users
  <2>4. \A v : Cardinality(at(v)) = IF at(v) = {} THEN 0 ELSE 1
    <3> SUFFICES ASSUME NEW v
                 PROVE  Cardinality(at(v)) = IF at(v) = {} THEN 0 ELSE 1
      OBVIOUS
    <3>1. \A i, j \in at(v) : i = j
      BY <2>2, <2>3
    <3> HIDE DEF at
    <3> QED
      BY <3>1, AtMostOne
  <2>5. id \in NotificationIds /\ id \notin DOMAIN notes /\ id = last_notification_id + 1
    BY <1>id DEF NotificationTypeOK, PendingConsistent, NotificationIds, IsMap,
         INVALID_NOTIFICATION_ID
  <2>6. pending \in PendingNotification
    BY <2>2, <2>5 DEF PendingNotification
  <2>7. \A v \in DOMAIN id_to_user :
          /\ list(v) \in Seq(PendingNotification)
          /\ list2(v) \in Seq(PendingNotification)
          /\ DOMAIN list(v) \subseteq DOMAIN list2(v)
          /\ \A i \in DOMAIN list(v) : list2(v)[i] = list(v)[i]
          /\ \A i \in DOMAIN list2(v) \ DOMAIN list(v) : list2(v)[i] = pending
          /\ at(v) = {} => DOMAIN list2(v) = DOMAIN list(v)
          /\ at(v) # {} => \E i : DOMAIN list2(v) \ DOMAIN list(v) = {i}
    <3> SUFFICES ASSUME NEW v \in DOMAIN id_to_user
                 PROVE  /\ list(v) \in Seq(PendingNotification)
                        /\ list2(v) \in Seq(PendingNotification)
                        /\ DOMAIN list(v) \subseteq DOMAIN list2(v)
                        /\ \A i \in DOMAIN list(v) : list2(v)[i] = list(v)[i]
                        /\ \A i \in DOMAIN list2(v) \ DOMAIN list(v) :
                             list2(v)[i] = pending
                        /\ at(v) = {} => DOMAIN list2(v) = DOMAIN list(v)
                        /\ at(v) # {} =>
                             \E i : DOMAIN list2(v) \ DOMAIN list(v) = {i}
      OBVIOUS
    <3>1. list(v) \in Seq(PendingNotification)
      BY DEF UserTypeOK, IsMap, UserData
    <3> DEFINE c == Cardinality(at(v))
               l == list(v)
               m == l \o [k \in 1 .. c |-> pending]
    <3>2. c \in Nat /\ (at(v) = {} => c = 0) /\ (at(v) # {} => c = 1)
      <4> HIDE DEF at
      <4> QED
        BY <2>4
    <3>3. list2(v) = m /\ list(v) = l
      OBVIOUS
    <3> HIDE DEF c, l, list, list2, at, pending
    <3>4. /\ m \in Seq(PendingNotification)
          /\ DOMAIN m = 1 .. (Len(l) + c)
          /\ DOMAIN l = 1 .. Len(l)
          /\ Len(l) \in Nat
          /\ \A i \in DOMAIN l : m[i] = l[i]
          /\ \A i \in (Len(l) + 1) .. (Len(l) + c) : m[i] = pending
      BY <2>6, <3>1, <3>2, <3>3, ExtendList
    <3> HIDE DEF m
    <3>5. at(v) # {} => DOMAIN m \ DOMAIN l = {Len(l) + 1}
      BY <3>2, <3>4
    <3>6. at(v) = {} => DOMAIN m = DOMAIN l
      BY <3>2, <3>4
    <3>7. /\ DOMAIN l \subseteq DOMAIN m
          /\ DOMAIN m \ DOMAIN l \subseteq (Len(l) + 1) .. (Len(l) + c)
      BY <3>2, <3>4
    <3>8. \A i \in DOMAIN m \ DOMAIN l : m[i] = pending
      BY <3>4, <3>7
    <3> QED
      BY <3>1, <3>3, <3>4, <3>5, <3>6, <3>7, <3>8
  <2>8. /\ DOMAIN id_to_user' = DOMAIN id_to_user
        /\ \A v \in DOMAIN id_to_user :
             /\ id_to_user'[v] \in UserData
             /\ id_to_user'[v].username = id_to_user[v].username
             /\ id_to_user'[v].followed_by = id_to_user[v].followed_by
             /\ id_to_user'[v].pending_notifications = list2(v)
    <3>1. \A v \in DOMAIN id_to_user : id_to_user[v] \in UserData
      BY DEF UserTypeOK, IsMap
    <3> HIDE DEF at, pending
    <3> QED
      BY <2>1, <2>7, <3>1 DEF UserData
  <2>9. \A v \in DOMAIN id_to_user : user_connected(v) => list2(v) = list(v)
    <3> SUFFICES ASSUME NEW v \in DOMAIN id_to_user, user_connected(v)
                 PROVE  list2(v) = list(v)
      OBVIOUS
    <3>1. at(v) = {}
      BY <2>3
    <3> HIDE DEF list, list2, at
    <3> QED
      BY <2>7, <3>1
  <2>10. UserMap(id_to_user')
    <3> HIDE DEF list, list2, at, pending
    <3>1. id_to_user' = [v \in DOMAIN id_to_user |-> id_to_user'[v]]
      BY <2>1
    <3> QED
      BY <2>8, <3>1 DEF UserMap, IsMap, UserTypeOK
  <2>11. /\ DOMAIN notification_id_to_notification' = DOMAIN notes \cup {id}
         /\ notification_id_to_notification'[id] = note
         /\ \A n \in DOMAIN notes : notification_id_to_notification'[n] = notes[n]
         /\ NotificationTypeOK'
    <3>1. note \in NotificationData
      BY <2>2, <2>3 DEF NotificationData
    <3> HIDE DEF note
    <3> QED
      BY <2>1, <2>5, <3>1 DEF NotificationTypeOK, IsMap, Put
  <2>12. \A n \in DOMAIN notes : waiting_for(n)' = waiting_for(n)
    <3> SUFFICES ASSUME NEW n \in DOMAIN notes
                 PROVE  waiting_for(n)' = waiting_for(n)
      OBVIOUS
    <3>1. pending.notification_id # n
      BY <2>5
    <3>2. waiting_for(n) = {v \in DOMAIN id_to_user : \E i \in DOMAIN list(v) :
                              list(v)[i].notification_id = n}
      BY DEF waiting_for
    <3> HIDE DEF list, list2, at, pending
    <3>3. waiting_for(n)' = {v \in DOMAIN id_to_user : \E i \in DOMAIN list2(v) :
                               list2(v)[i].notification_id = n}
      BY <2>8 DEF waiting_for
    <3>4. \A v \in DOMAIN id_to_user :
            (\E i \in DOMAIN list2(v) : list2(v)[i].notification_id = n)
            <=> (\E i \in DOMAIN list(v) : list(v)[i].notification_id = n)
      BY <2>7, <3>1
    <3> QED
      BY <3>2, <3>3, <3>4
  <2>13. waiting_for(id)' = {v \in DOMAIN id_to_user : at(v) # {}}
    <3>1. \A v \in DOMAIN id_to_user :
            \A i \in DOMAIN list(v) : list(v)[i].notification_id # id
      BY <2>5 DEF PendingConsistent, notification_exists
    <3>2. pending.notification_id = id
      OBVIOUS
    <3> HIDE DEF list, list2, at, pending
    <3>3. waiting_for(id)' = {v \in DOMAIN id_to_user : \E i \in DOMAIN list2(v) :
                                list2(v)[i].notification_id = id}
      BY <2>8 DEF waiting_for
    <3>4. \A v \in DOMAIN id_to_user :
            (\E i \in DOMAIN list2(v) : list2(v)[i].notification_id = id)
            <=> at(v) # {}
      BY <2>7, <3>1, <3>2
    <3> QED
      BY <3>3, <3>4
  <2>14. /\ waiting_for(id)' # {}
         /\ Cardinality(waiting_for(id)') = Cardinality(off)
    <3> DEFINE W == {v \in DOMAIN id_to_user : at(v) # {}}
               f == [i \in off |-> followers[i]]
    <3>1. f \in [off -> W]
      BY <2>2, <2>3
    <3>2. \A i, j \in off : f[i] = f[j] => i = j
      BY <2>2, <2>3
    <3>3. \A v \in W : \E i \in off : f[i] = v
      OBVIOUS
    <3>4. f \in Bijection(off, W)
      <4> HIDE DEF f, W, off
      <4> QED
        BY <3>1, <3>2, <3>3 DEF Bijection, Injection, Surjection, IsInjective
    <3>5. ExistsBijection(off, W)
      <4> HIDE DEF f, W, off
      <4> QED
        BY <3>4 DEF ExistsBijection
    <3>6. Cardinality(W) = Cardinality(off)
      <4> HIDE DEF f, W, off
      <4> QED
        BY <2>3, <3>5, FS_Bijection
    <3>7. W # {}
      <4> HIDE DEF f, W, off
      <4> QED
        BY <1>2, <3>1
    <3> QED
      BY <2>13, <3>6, <3>7
  <2>15. \A n \in DOMAIN notification_id_to_notification' :
           /\ n <= last_notification_id'
           /\ waiting_for(n)' # {}
           /\ notification_id_to_notification'[n].pending_users
                = Cardinality(waiting_for(n)')
    <3> SUFFICES ASSUME NEW n \in DOMAIN notes \cup {id}
                 PROVE  /\ n <= last_notification_id'
                        /\ waiting_for(n)' # {}
                        /\ notification_id_to_notification'[n].pending_users
                             = Cardinality(waiting_for(n)')
      BY <2>11
    <3>1. CASE n = id
      <4>1. notification_id_to_notification'[n].pending_users = Cardinality(off)
        BY <2>11, <3>1
      <4>2. n <= last_notification_id'
        BY <1>id, <2>1, <3>1 DEF NotificationTypeOK
      <4> HIDE DEF off
      <4> QED
        BY <2>14, <3>1, <4>1, <4>2
    <3>2. CASE n \in DOMAIN notes
      <4>1. /\ n <= last_notification_id
            /\ waiting_for(n) # {}
            /\ notes[n].pending_users = Cardinality(waiting_for(n))
        BY <3>2 DEF PendingConsistent
      <4>2. n <= last_notification_id'
        BY <1>id, <2>1, <3>2, <4>1 DEF NotificationTypeOK, IsMap, NotificationIds
      <4> QED
        BY <2>11, <2>12, <3>2, <4>1, <4>2
    <3> QED
      BY <3>1, <3>2
  <2>16. \A v \in DOMAIN id_to_user :
           /\ \A i \in DOMAIN list2(v) :
                /\ list2(v)[i].notification_id
                     \in DOMAIN notification_id_to_notification'
                /\ notification_id_to_notification'
                     [list2(v)[i].notification_id].author = list2(v)[i].user_id
           /\ \A i, j \in DOMAIN list2(v) :
                list2(v)[i].notification_id = list2(v)[j].notification_id => i = j
    <3> SUFFICES ASSUME NEW v \in DOMAIN id_to_user
                 PROVE  /\ \A i \in DOMAIN list2(v) :
                             /\ list2(v)[i].notification_id
                                  \in DOMAIN notification_id_to_notification'
                             /\ notification_id_to_notification'
                                  [list2(v)[i].notification_id].author
                                  = list2(v)[i].user_id
                        /\ \A i, j \in DOMAIN list2(v) :
                             list2(v)[i].notification_id
                               = list2(v)[j].notification_id => i = j
      OBVIOUS
    <3>1. /\ \A i \in DOMAIN list(v) :
               /\ list(v)[i].notification_id \in DOMAIN notes
               /\ notes[list(v)[i].notification_id].author = list(v)[i].user_id
          /\ \A i, j \in DOMAIN list(v) :
               list(v)[i].notification_id = list(v)[j].notification_id => i = j
      BY DEF PendingConsistent, notification_exists
    <3>2. /\ pending.notification_id = id
          /\ pending.user_id = u
          /\ note.author = u
      OBVIOUS
    <3>3. \A i, j \in DOMAIN list2(v) \ DOMAIN list(v) : i = j
      <4> HIDE DEF list, list2, at
      <4> QED
        BY <2>7
    <3> HIDE DEF list, list2, at, pending, note, notes
    <3>4. \A i \in DOMAIN list2(v) :
            \/ i \in DOMAIN list(v) /\ list2(v)[i] = list(v)[i]
            \/ i \notin DOMAIN list(v) /\ list2(v)[i] = pending
      BY <2>7
    <3>5. \A i \in DOMAIN list2(v) :
            /\ list2(v)[i].notification_id
                 \in DOMAIN notification_id_to_notification'
            /\ notification_id_to_notification'
                 [list2(v)[i].notification_id].author = list2(v)[i].user_id
      BY <2>11, <3>1, <3>2, <3>4
    <3>6. ASSUME NEW i \in DOMAIN list2(v), NEW j \in DOMAIN list2(v),
                 list2(v)[i].notification_id = list2(v)[j].notification_id
          PROVE  i = j
      <4>1. CASE i \in DOMAIN list(v) /\ j \in DOMAIN list(v)
        BY <3>1, <3>4, <3>6, <4>1
      <4>2. CASE i \notin DOMAIN list(v) /\ j \notin DOMAIN list(v)
        BY <3>3, <4>2
      <4>3. CASE i \in DOMAIN list(v) /\ j \notin DOMAIN list(v)
        BY <2>5, <3>1, <3>2, <3>4, <3>6, <4>3
      <4>4. CASE i \notin DOMAIN list(v) /\ j \in DOMAIN list(v)
        BY <2>5, <3>1, <3>2, <3>4, <3>6, <4>4
      <4> QED
        BY <4>1, <4>2, <4>3, <4>4
    <3> QED
      BY <3>5, <3>6
  <2>17. PendingConsistent'
    <3> HIDE DEF list2, note
    <3> QED
      BY <2>8, <2>15, <2>16 DEF PendingConsistent, notification_exists
  <2> QED
    BY <2>8, <2>9, <2>10, <2>11, <2>17
<1> QED
  BY <1>1, <1>2

-----------------------------------------------------------------------------
(***************************************************************************)
(* The inductive invariant: the type invariant and the consistency of each *)
(* manager.  They need one another.  The message counter of a login is a   *)
(* number because every drained entry is found (PendingConsistent); the    *)
(* counts are exact because follower lists have no duplicates              *)
(* (FollowersConsistent) and users are finitely many (RegistryConsistent); *)
(* and a name followed is not one's own because names and ids match.       *)
(***************************************************************************)
ServerInv ==
  /\ TypeOK
  /\ SessionsConsistent
  /\ RegistryConsistent
  /\ FollowersConsistent
  /\ PendingConsistent
  /\ NothingWaitsForConnected

\* The server starts with empty maps and queues.
LEMMA InitServerInv == Init => ServerInv
<1> SUFFICES ASSUME Init PROVE ServerInv
  OBVIOUS
<1> USE DEF Init, ConnectionInit, UserInit, NotificationInit, EmptyMap
<1>1. ConnectionTypeOK
  BY DEF ConnectionTypeOK, IsMap
<1>2. UserTypeOK
  BY DEF UserTypeOK, IsMap, INVALID_USER_ID
<1>3. NotificationTypeOK
  BY DEF NotificationTypeOK, IsMap, INVALID_NOTIFICATION_ID
<1>4. SendQueueTypeOK
  BY DEF SendQueueTypeOK
<1>5. SessionsConsistent
  BY DEF SessionsConsistent, SessionsMatch
<1>6. RegistryConsistent /\ FollowersConsistent
  BY DEF RegistryConsistent, FollowersConsistent
<1>7. PendingConsistent /\ NothingWaitsForConnected
  BY DEF PendingConsistent, NothingWaitsForConnected
<1> QED
  BY <1>1, <1>2, <1>3, <1>4, <1>5, <1>6, <1>7 DEF ServerInv, TypeOK

\* A command from a linked address comes from a connected, registered user.
LEMMA Linked ==
  ASSUME ServerInv, NEW a \in Addresses,
         get_user_id_from_address(a) # INVALID_USER_ID
  PROVE  LET u == get_user_id_from_address(a)
         IN  /\ u \in UserIds
             /\ u \in DOMAIN user_id_to_connection_data
             /\ u \in DOMAIN id_to_user
  BY DEF ServerInv, TypeOK, ConnectionTypeOK, IsMap, SessionsConsistent,
       SessionsMatch, get_user_id_from_address, address_exists,
       get_address_from_user, NothingWaitsForConnected, user_id_exists

\* The answer to a command.
LEMMA RespondStep ==
  ASSUME ServerInv, NEW u \in DOMAIN user_id_to_connection_data,
         NEW type \in ServerMsgType, NEW name \in Names \cup {NULL},
         respond(u, type, name)
  PROVE  /\ ConnectionTypeOK' /\ SessionsConsistent' /\ SendQueueTypeOK'
         /\ DOMAIN user_id_to_connection_data' = DOMAIN user_id_to_connection_data
         /\ UNCHANGED notification_vars
<1> DEFINE conn  == user_id_to_connection_data
           conn2 == take_msg_ids(conn, u, 1)
           msg   == Response(conn2[u].last_msg_id, type, name)
           msgs  == [v \in DOMAIN conn2 |-> IF v = u THEN <<msg>> ELSE << >>]
<1>1. ConnMap(conn) /\ AddrMap(address_to_user_id)
  BY DEF ServerInv, TypeOK, ConnectionTypeOK, ConnMap, AddrMap
<1>2. /\ ConnMap(conn2)
      /\ DOMAIN conn2 = DOMAIN conn
      /\ \A v \in DOMAIN conn :
           /\ conn2[v].session_one = conn[v].session_one
           /\ conn2[v].session_two = conn[v].session_two
  BY <1>1, TakeMsgIds
<1>3. SessionsMatch(conn2, address_to_user_id)
  BY <1>1, <1>2, SameSessions DEF ServerInv, SessionsConsistent
<1>4. /\ user_id_to_connection_data' = conn2
      /\ send_queue' = to_sessions(send_queue, conn2, msgs)
      /\ UNCHANGED <<address_to_user_id, notification_vars>>
  BY DEF respond
<1>5. conn2[u].last_msg_id \in Nat
  BY <1>2 DEF ConnMap, IsMap, UserConnectionData
<1>6. msg \in ServerMessageData
  BY <1>5, MessageTypes DEF ServerInv, TypeOK
<1>7. msgs \in [DOMAIN conn2 -> Seq(ServerMessageData)]
  <2> HIDE DEF msg, conn2
  <2> QED
    BY <1>6
<1>8. SendQueueTypeOK'
  <2>1. send_queue \in [Addresses -> Seq(ServerMessageData)]
    BY DEF ServerInv, TypeOK, SendQueueTypeOK
  <2> HIDE DEF msgs, conn2
  <2> QED
    BY <1>4, <1>7, <2>1, ToSessionsType DEF SendQueueTypeOK
<1> QED
  BY <1>1, <1>2, <1>3, <1>4, <1>8
  DEF ConnectionTypeOK, ConnMap, AddrMap, SessionsConsistent

\* A step that leaves the managers alone, but for the disk queue, keeps what
\* they promise.
LEMMA ManagersFrame ==
  ASSUME ServerInv,
         UNCHANGED <<connection_vars, last_user_id, username_to_id, id_to_user,
                     notification_vars>>,
         user_data_update_queue' \in Seq(UserPersistentData),
         SendQueueTypeOK'
  PROVE  ServerInv'
<1>1. ConnectionTypeOK' /\ SessionsConsistent'
  BY DEF ServerInv, TypeOK, ConnectionTypeOK, SessionsConsistent, connection_vars
<1>2. UserTypeOK'
  BY DEF ServerInv, TypeOK, UserTypeOK
<1>3. RegistryConsistent' /\ FollowersConsistent'
  BY DEF ServerInv, RegistryConsistent, FollowersConsistent, user_id_exists
<1>4. NotificationTypeOK'
  BY DEF ServerInv, TypeOK, NotificationTypeOK, notification_vars
<1>5. PendingConsistent'
  BY PendingFrame DEF ServerInv
<1>6. NothingWaitsForConnected'
  BY DEF ServerInv, NothingWaitsForConnected, user_id_exists, connection_vars
<1> QED
  BY <1>1, <1>2, <1>3, <1>4, <1>5, <1>6 DEF ServerInv, TypeOK

\* A login with an invalid name is answered and changes nothing else.
LEMMA LoginInvalidUsernameInv ==
  ASSUME ServerInv, NEW a \in Addresses, NEW name \in Names,
         LoginInvalidUsername(a, name)
  PROVE  ServerInv'
<1>1. Response(0, "LoginFailInvalidUsername", NULL) \in ServerMessageData
  BY DEF Response, ServerMessageData, ServerMsgType
<1>2. SendQueueTypeOK'
  BY <1>1, ToAddressType DEF LoginInvalidUsername, SendQueueTypeOK, ServerInv, TypeOK
<1>3. user_data_update_queue' \in Seq(UserPersistentData)
  BY DEF LoginInvalidUsername, user_vars, ServerInv, TypeOK, UserTypeOK
<1> QED
  BY <1>2, <1>3, ManagersFrame DEF LoginInvalidUsername, user_vars

\* A login refused after its name has been registered.
LEMMA RefusedLoginInv ==
  ASSUME ServerInv, NEW a \in Addresses, NEW name \in ValidNames,
         NEW type \in ServerMsgType,
         add_or_update_user(name), id_to_user' = registered(name),
         send_queue' = to_address(a, Response(0, type, NULL)),
         UNCHANGED <<connection_vars, notification_vars>>
  PROVE  ServerInv'
<1> DEFINE u == id_after_login(name)
<1>1. /\ UserMap(registered(name))
      /\ DOMAIN registered(name) = DOMAIN id_to_user \cup {u}
      /\ \A v \in DOMAIN id_to_user : registered(name)[v] = id_to_user[v]
      /\ u \notin DOMAIN id_to_user =>
           registered(name)[u].pending_notifications = << >>
  BY RegisterFacts DEF ServerInv, TypeOK
<1>2. UserTypeOK' /\ RegistryConsistent' /\ FollowersConsistent'
  BY <1>1, RegisterStep DEF ServerInv, TypeOK
<1>3. PendingConsistent'
  BY <1>1, PendingFrame DEF ServerInv
<1>4. Response(0, type, NULL) \in ServerMessageData
  BY DEF Response, ServerMessageData
<1>5. SendQueueTypeOK'
  BY <1>4, ToAddressType DEF SendQueueTypeOK, ServerInv, TypeOK
<1>6. NothingWaitsForConnected'
  BY <1>1 DEF ServerInv, NothingWaitsForConnected, user_id_exists, connection_vars
<1> QED
  BY <1>2, <1>3, <1>5, <1>6 DEF ServerInv, TypeOK, ConnectionTypeOK,
       NotificationTypeOK, SessionsConsistent, connection_vars, notification_vars

\* The two refusals of a valid name: a third session, and an address that
\* speaks for another user.
LEMMA RefusedLogins ==
  ASSUME ServerInv, NEW a \in Addresses, NEW name \in Names,
         LoginTooManySessions(a, name) \/ LoginOtherUser(a, name)
  PROVE  ServerInv'
<1>1. name \in ValidNames
  BY DEF LoginTooManySessions, LoginOtherUser, is_valid_username
<1>2. CASE LoginTooManySessions(a, name)
  BY <1>1, <1>2, RefusedLoginInv DEF LoginTooManySessions, ServerMsgType
<1>3. CASE LoginOtherUser(a, name)
  BY <1>1, <1>3, RefusedLoginInv DEF LoginOtherUser, ServerMsgType
<1> QED
  BY <1>2, <1>3

\* A logout removes a session and touches nothing but the connections.
LEMMA LogoutInv ==
  ASSUME ServerInv, NEW a \in Addresses, handle_logout(a)
  PROVE  ServerInv'
<1>1. /\ ConnectionTypeOK' /\ SessionsConsistent'
      /\ DOMAIN user_id_to_connection_data' \subseteq
           DOMAIN user_id_to_connection_data
  BY RemoveSession DEF handle_logout, ServerInv, TypeOK
<1>2. UNCHANGED <<user_vars, notification_vars, send_queue>>
  BY DEF handle_logout
<1>3. UserTypeOK' /\ NotificationTypeOK' /\ SendQueueTypeOK'
  BY <1>2 DEF ServerInv, TypeOK, UserTypeOK, NotificationTypeOK,
       SendQueueTypeOK, user_vars, notification_vars
<1>4. RegistryConsistent' /\ FollowersConsistent'
  BY <1>2 DEF ServerInv, RegistryConsistent, FollowersConsistent,
       user_id_exists, user_vars
<1>5. PendingConsistent'
  BY <1>2, PendingFrame DEF ServerInv, user_vars
<1>6. NothingWaitsForConnected'
  BY <1>1, <1>2 DEF ServerInv, NothingWaitsForConnected, user_id_exists, user_vars
<1> QED
  BY <1>1, <1>3, <1>4, <1>5, <1>6 DEF ServerInv, TypeOK

\* A command that is only answered.
LEMMA AnsweredInv ==
  ASSUME ServerInv, NEW u \in DOMAIN user_id_to_connection_data,
         NEW type \in ServerMsgType, NEW name \in Names \cup {NULL},
         respond(u, type, name), UNCHANGED user_vars
  PROVE  ServerInv'
<1>1. /\ ConnectionTypeOK' /\ SessionsConsistent' /\ SendQueueTypeOK'
      /\ DOMAIN user_id_to_connection_data' = DOMAIN user_id_to_connection_data
      /\ UNCHANGED notification_vars
  BY RespondStep
<1>2. UserTypeOK' /\ NotificationTypeOK'
  BY <1>1 DEF ServerInv, TypeOK, UserTypeOK, NotificationTypeOK, user_vars,
       notification_vars
<1>3. RegistryConsistent' /\ FollowersConsistent'
  BY DEF ServerInv, RegistryConsistent, FollowersConsistent, user_id_exists,
       user_vars
<1>4. PendingConsistent'
  BY <1>1, PendingFrame DEF ServerInv, user_vars
<1>5. NothingWaitsForConnected'
  BY <1>1 DEF ServerInv, NothingWaitsForConnected, user_id_exists, user_vars
<1> QED
  BY <1>1, <1>2, <1>3, <1>4, <1>5 DEF ServerInv, TypeOK

\* A follow that is granted.  The name is not the follower's own, and names
\* and ids match, so the two ids differ.
LEMMA FollowSuccessInv ==
  ASSUME ServerInv, NEW a \in Addresses, NEW name \in Names,
         FollowSuccess(a, name)
  PROVE  ServerInv'
<1> DEFINE u == get_user_id_from_address(a)
           f == get_user_id_from_username(name)
<1>1. /\ u # INVALID_USER_ID
      /\ CanFollow(u, name)
      /\ add_follow(f, u)
      /\ respond(u, "FollowCommandSuccess", name)
  BY DEF FollowSuccess
<1>2. u \in DOMAIN user_id_to_connection_data /\ u \in DOMAIN id_to_user
  BY <1>1, Linked
<1>3. f # u
  BY <1>1, <1>2 DEF CanFollow, ServerInv, RegistryConsistent,
       get_user_id_from_username, get_username_from_user_id, user_id_exists
<1>4. "FollowCommandSuccess" \in ServerMsgType
  BY DEF ServerMsgType
<1>c. PICK cu, cf : cu = u /\ cf = f
  OBVIOUS
<1> HIDE DEF u, f
<1>5. /\ ConnectionTypeOK' /\ SessionsConsistent' /\ SendQueueTypeOK'
      /\ DOMAIN user_id_to_connection_data' = DOMAIN user_id_to_connection_data
      /\ UNCHANGED notification_vars
  BY <1>1, <1>2, <1>4, <1>c, RespondStep
<1>6. /\ UserTypeOK' /\ RegistryConsistent' /\ FollowersConsistent'
      /\ DOMAIN id_to_user' = DOMAIN id_to_user
      /\ \A v \in DOMAIN id_to_user :
           id_to_user'[v].pending_notifications
             = id_to_user[v].pending_notifications
  BY <1>1, <1>3, <1>c, FollowStep DEF ServerInv, TypeOK
<1>7. NotificationTypeOK'
  BY <1>5 DEF ServerInv, TypeOK, NotificationTypeOK, notification_vars
<1>8. PendingConsistent'
  BY <1>5, <1>6, PendingFrame DEF ServerInv
<1>9. NothingWaitsForConnected'
  BY <1>5, <1>6 DEF ServerInv, NothingWaitsForConnected, user_id_exists
<1> QED
  BY <1>5, <1>6, <1>7, <1>8, <1>9 DEF ServerInv, TypeOK

\* The commands that are refused.
LEMMA RefusedCommands ==
  ASSUME ServerInv, NEW a \in Addresses,
         \/ \E name \in Names : FollowFail(a, name)
         \/ \E text \in Messages : SendInvalid(a, text)
  PROVE  ServerInv'
<1>1. CASE \E name \in Names : FollowFail(a, name)
  <2>1. PICK name \in Names : FollowFail(a, name)
    BY <1>1
  <2>2. PICK u : u = get_user_id_from_address(a)
    OBVIOUS
  <2>3. /\ u # INVALID_USER_ID
        /\ respond(u, "FollowCommandFail", name)
        /\ UNCHANGED user_vars
    BY <2>1, <2>2 DEF FollowFail
  <2>4. u \in DOMAIN user_id_to_connection_data
    BY <2>2, <2>3, Linked
  <2> QED
    BY <2>3, <2>4, AnsweredInv DEF ServerMsgType
<1>2. CASE \E text \in Messages : SendInvalid(a, text)
  <2>1. PICK text \in Messages : SendInvalid(a, text)
    BY <1>2
  <2>2. PICK u : u = get_user_id_from_address(a)
    OBVIOUS
  <2>3. /\ u # INVALID_USER_ID
        /\ respond(u, "SendCommandFail", NULL)
        /\ UNCHANGED user_vars
    BY <2>1, <2>2 DEF SendInvalid
  <2>4. u \in DOMAIN user_id_to_connection_data
    BY <2>2, <2>3, Linked
  <2> QED
    BY <2>3, <2>4, AnsweredInv DEF ServerMsgType
<1> QED
  BY <1>1, <1>2
\* A message that is sent: the connected followers get it at once, the
\* others find it stored, and the sender is answered.
LEMMA SendSuccessInv ==
  ASSUME ServerInv, NEW a \in Addresses, NEW text \in Messages,
         SendSuccess(a, text)
  PROVE  ServerInv'
<1>u. PICK u : u = get_user_id_from_address(a)
  OBVIOUS
<1> DEFINE followers == get_followers(u)
           conn0     == user_id_to_connection_data
           conn      == take_msg_ids(conn0, u, 1)
           conn2     == [v \in DOMAIN conn |->
                           [conn[v] EXCEPT
                              !.last_msg_id = @ + Occurrences(followers, v)]]
           posts(v)  == [k \in 1 .. Occurrences(followers, v) |->
                           Post(conn[v].last_msg_id + k, u, text)]
           answer(v) == IF v = u
                          THEN <<Response(conn[u].last_msg_id,
                                          "SendCommandSuccess", NULL)>>
                          ELSE << >>
           msgs      == [v \in DOMAIN conn |-> posts(v) \o answer(v)]
<1>1. /\ u # INVALID_USER_ID
      /\ store_notification(u, followers, text)
      /\ user_id_to_connection_data' = conn2
      /\ send_queue' = to_sessions(send_queue, conn, msgs)
      /\ UNCHANGED <<address_to_user_id, last_user_id, username_to_id,
                     user_data_update_queue>>
  BY <1>u DEF SendSuccess
<1>2. u \in DOMAIN conn0 /\ u \in DOMAIN id_to_user
  BY <1>u, <1>1, Linked
<1>3. /\ NotificationTypeOK' /\ PendingConsistent'
      /\ UserMap(id_to_user')
      /\ DOMAIN id_to_user' = DOMAIN id_to_user
      /\ \A v \in DOMAIN id_to_user :
           /\ id_to_user'[v].username = id_to_user[v].username
           /\ id_to_user'[v].followed_by = id_to_user[v].followed_by
           /\ user_connected(v) => id_to_user'[v].pending_notifications
                                     = id_to_user[v].pending_notifications
  BY <1>1, <1>2, StoreStep DEF ServerInv, TypeOK
<1>4. ConnMap(conn0) /\ AddrMap(address_to_user_id)
  BY DEF ServerInv, TypeOK, ConnectionTypeOK, ConnMap, AddrMap
<1>5. /\ ConnMap(conn)
      /\ DOMAIN conn = DOMAIN conn0
      /\ \A v \in DOMAIN conn0 :
           /\ conn[v].session_one = conn0[v].session_one
           /\ conn[v].session_two = conn0[v].session_two
  BY <1>4, TakeMsgIds
<1>6. followers \in Seq(UserIds)
  BY <1>2 DEF get_followers, user_id_exists, ServerInv, TypeOK, UserTypeOK,
       IsMap, UserData
<1>7. \A v : Occurrences(followers, v) \in Nat
  BY <1>6, OccurrencesType
<1>8. /\ ConnMap(conn2)
      /\ DOMAIN conn2 = DOMAIN conn0
      /\ \A v \in DOMAIN conn0 :
           /\ conn2[v].session_one = conn0[v].session_one
           /\ conn2[v].session_two = conn0[v].session_two
  <2> HIDE DEF conn, followers
  <2> QED
    BY <1>5, <1>7 DEF ConnMap, IsMap, UserConnectionData
<1>9. ConnectionTypeOK' /\ SessionsConsistent'
  <2>1. SessionsMatch(conn2, address_to_user_id)
    <3> HIDE DEF conn2
    <3> QED
      BY <1>4, <1>8, SameSessions DEF ServerInv, SessionsConsistent
  <2> QED
    BY <1>1, <1>4, <1>8, <2>1
    DEF ConnectionTypeOK, ConnMap, AddrMap, SessionsConsistent
<1>10. SendQueueTypeOK'
  <2>1. ASSUME NEW v \in DOMAIN conn
        PROVE  posts(v) \in Seq(ServerMessageData)
    <3>1. conn[v].last_msg_id \in Nat
      BY <1>5 DEF ConnMap, IsMap, UserConnectionData
    <3>2. \A k \in 1 .. Occurrences(followers, v) :
            Post(conn[v].last_msg_id + k, u, text) \in ServerMessageData
      <4> SUFFICES ASSUME NEW k \in 1 .. Occurrences(followers, v)
                   PROVE  Post(conn[v].last_msg_id + k, u, text)
                            \in ServerMessageData
        OBVIOUS
      <4>1. PICK id : id = conn[v].last_msg_id + k
        OBVIOUS
      <4>2. id \in Nat
        <5> HIDE DEF conn, followers
        <5> QED
          BY <1>7, <3>1, <4>1
      <4>3. Post(id, u, text) \in ServerMessageData
        BY <4>2, MessageTypes DEF ServerInv, TypeOK
      <4> HIDE DEF conn
      <4> QED
        BY <4>1, <4>3
    <3> HIDE DEF conn, followers
    <3> QED
      BY <1>7, <3>2
  <2>2. ASSUME NEW v \in DOMAIN conn
        PROVE  answer(v) \in Seq(ServerMessageData)
    <3>1. conn[u].last_msg_id \in Nat
      BY <1>2, <1>5 DEF ConnMap, IsMap, UserConnectionData
    <3>2. Response(conn[u].last_msg_id, "SendCommandSuccess", NULL)
            \in ServerMessageData
      BY <3>1, MessageTypes DEF ServerInv, TypeOK, ServerMsgType
    <3> HIDE DEF conn
    <3> QED
      BY <3>2
  <2>3. msgs \in [DOMAIN conn -> Seq(ServerMessageData)]
    <3> HIDE DEF conn, posts, answer
    <3> QED
      BY <2>1, <2>2
  <2>4. send_queue \in [Addresses -> Seq(ServerMessageData)]
    BY DEF ServerInv, TypeOK, SendQueueTypeOK
  <2> HIDE DEF msgs, conn
  <2> QED
    BY <1>1, <2>3, <2>4, ToSessionsType DEF SendQueueTypeOK
<1>11. UserTypeOK'
  BY <1>1, <1>3 DEF UserMap, UserTypeOK, ServerInv, TypeOK
<1>12. RegistryConsistent' /\ FollowersConsistent'
  BY <1>1, <1>3, SMTT(30) DEF ServerInv, RegistryConsistent, FollowersConsistent,
       user_id_exists
<1>13. NothingWaitsForConnected'
  <2> HIDE DEF conn2
  <2> QED
    BY <1>1, <1>3, <1>8 DEF ServerInv, NothingWaitsForConnected,
         user_id_exists, user_connected
<1> QED
  BY <1>3, <1>9, <1>10, <1>11, <1>12, <1>13 DEF ServerInv, TypeOK

\* What a successful login of a sends: its answer, with the next id of the
\* user, and if it is the first session the posts that waited, numbered on.
LoginEffect(a, name) ==
  \E u \in UserIds, posts \in Seq(ServerMessageData) :
    LET conn == take_msg_ids(add_session(u, a), u, 1)
        id   == conn[u].last_msg_id
    IN  /\ u = id_after_login(name)
        /\ user_connected(u) => session_available(u) /\ posts = << >>
        /\ get_user_id_from_address(a) \in {INVALID_USER_ID, u}
        /\ \A k \in DOMAIN posts : /\ posts[k].msg_id = id + k
                                  /\ posts[k].msg_type = "ServerSendCommand"
        /\ user_id_to_connection_data' = take_msg_ids(conn, u, Len(posts))
        /\ address_to_user_id' = link_address(u, a)
        /\ send_queue' =
             to_sessions(to_address(a, Response(id, "LoginSuccess", NULL)), conn,
                         [v \in DOMAIN conn |-> IF v = u THEN posts ELSE << >>])

\* A login that succeeds.
LEMMA LoginSuccessInv ==
  ASSUME ServerInv, NEW a \in Addresses, NEW name \in Names,
         LoginSuccess(a, name)
  PROVE  ServerInv' /\ LoginEffect(a, name)
<1>u. PICK u : u = id_after_login(name)
  OBVIOUS
<1> DEFINE users   == registered(name)
           drained == IF ~user_connected(u) THEN users[u].pending_notifications
                                            ELSE << >>
<1>d. PICK list : list = drained
  OBVIOUS
<1> DEFINE sent  == deliverable(list)
           conn0 == add_session(u, a)
           conn  == take_msg_ids(conn0, u, 1)
           id    == conn[u].last_msg_id
           posts == [k \in DOMAIN sent |->
                       Post(id + k, sent[k].user_id,
                            notification_id_to_notification
                              [sent[k].notification_id].message)]
           msgs  == [v \in DOMAIN conn |-> IF v = u THEN posts ELSE << >>]
           hello == Response(id, "LoginSuccess", NULL)
<1>1. /\ name \in ValidNames
      /\ ~TooManySessions(name)
      /\ ~LinkedToOther(a, name)
      /\ add_or_update_user(name)
      /\ id_to_user' = IF ~user_connected(u)
                         THEN [users EXCEPT ![u].pending_notifications = << >>]
                         ELSE users
      /\ user_id_to_connection_data' = take_msg_ids(conn, u, Len(sent))
      /\ address_to_user_id' = link_address(u, a)
      /\ notification_id_to_notification' = decrement_pending_users_from(sent)
      /\ UNCHANGED last_notification_id
      /\ send_queue' = to_sessions(to_address(a, hello), conn, msgs)
  BY <1>u, <1>d DEF LoginSuccess, is_valid_username, drain_pending_notifications
<1>2. /\ u \in UserIds
      /\ UserMap(users)
      /\ DOMAIN users = DOMAIN id_to_user \cup {u}
      /\ \A v \in DOMAIN id_to_user : users[v] = id_to_user[v]
      /\ u \notin DOMAIN id_to_user =>
           users[u].pending_notifications = << >>
  BY <1>u, <1>1, RegisterFacts DEF ServerInv, TypeOK
<1>3. /\ user_connected(u) =>
           u \in DOMAIN id_to_user /\ users[u].pending_notifications = << >>
      /\ list = users[u].pending_notifications
      /\ list \in Seq(PendingNotification)
  BY <1>2, <1>d DEF user_connected, ServerInv, NothingWaitsForConnected,
       user_id_exists, UserMap, IsMap, UserData
\* Every entry of the list is found, so all of it is sent.
<1>4. sent = list
  <2>1. \A i \in DOMAIN list : notification_exists(list[i].notification_id)
    <3>1. CASE u \in DOMAIN id_to_user
      BY <1>2, <1>3, <3>1 DEF ServerInv, PendingConsistent
    <3>2. CASE u \notin DOMAIN id_to_user
      BY <1>2, <1>3, <3>2
    <3> QED
      BY <3>1, <3>2
  <2> QED
    BY <2>1 DEF deliverable
<1>5. /\ UserMap(id_to_user')
      /\ DOMAIN id_to_user' = DOMAIN id_to_user \cup {u}
      /\ id_to_user'[u].pending_notifications = << >>
      /\ \A v \in DOMAIN users :
           /\ id_to_user'[v].username = users[v].username
           /\ id_to_user'[v].followed_by = users[v].followed_by
      /\ \A v \in DOMAIN id_to_user : v # u =>
           id_to_user'[v].pending_notifications
             = id_to_user[v].pending_notifications
  <2> HIDE DEF users
  <2>1. CASE user_connected(u)
    BY <1>1, <1>2, <1>3, <2>1
  <2>2. CASE ~user_connected(u)
    <3>1. id_to_user' = [users EXCEPT ![u].pending_notifications = << >>]
      BY <1>1, <2>2
    <3>2. DOMAIN id_to_user' = DOMAIN users
      BY <3>1
    <3>3. \A v \in DOMAIN users :
            id_to_user'[v] = IF v = u
                               THEN [users[v] EXCEPT
                                       !.pending_notifications = << >>]
                               ELSE users[v]
      BY <3>1
    <3>4. /\ users \in [DOMAIN users -> UserData]
          /\ DOMAIN users \subseteq UserIds
      BY <1>2 DEF UserMap, IsMap
    <3>5. \A v \in DOMAIN users : users[v] \in UserData
      BY <3>4
    <3>6. \A v \in DOMAIN users :
            /\ id_to_user'[v] \in UserData
            /\ id_to_user'[v].username = users[v].username
            /\ id_to_user'[v].followed_by = users[v].followed_by
            /\ v = u => id_to_user'[v].pending_notifications = << >>
            /\ v # u => id_to_user'[v] = users[v]
      <4> SUFFICES ASSUME NEW v \in DOMAIN users
                   PROVE  /\ id_to_user'[v] \in UserData
                          /\ id_to_user'[v].username = users[v].username
                          /\ id_to_user'[v].followed_by = users[v].followed_by
                          /\ v = u =>
                               id_to_user'[v].pending_notifications = << >>
                          /\ v # u => id_to_user'[v] = users[v]
        OBVIOUS
      <4>1. CASE v # u
        BY <3>3, <3>5, <4>1
      <4>2. CASE v = u
        <5>1. PICK d : d = users[v]
          OBVIOUS
        <5>2. d \in UserData
          BY <3>5, <5>1
        <5>3. id_to_user'[v] = [d EXCEPT !.pending_notifications = << >>]
          BY <3>3, <4>2, <5>1
        <5>4. << >> \in Seq(PendingNotification)
          OBVIOUS
        <5> QED
          BY <4>2, <5>1, <5>2, <5>3, <5>4 DEF UserData
      <4> QED
        BY <4>1, <4>2
    <3>7. id_to_user' = [v \in DOMAIN id_to_user' |-> id_to_user'[v]]
      BY <3>1
    <3>8. UserMap(id_to_user')
      BY <3>2, <3>4, <3>6, <3>7 DEF UserMap, IsMap
    <3> QED
      BY <1>2, <3>2, <3>6, <3>8
  <2> QED
    BY <2>1, <2>2
<1>6. UserTypeOK' /\ RegistryConsistent' /\ FollowersConsistent'
  BY <1>1, <1>2, <1>5, RegisterStep DEF ServerInv, TypeOK
<1>7. NotificationTypeOK' /\ PendingConsistent'
  BY <1>1, <1>2, <1>3, <1>4, <1>5, DrainStep DEF ServerInv, TypeOK
<1>8. /\ ConnMap(conn0)
      /\ AddrMap(link_address(u, a))
      /\ SessionsMatch(conn0, link_address(u, a))
      /\ DOMAIN conn0 = DOMAIN user_id_to_connection_data \cup {u}
  <2>1. user_connected(u) => session_available(u)
    BY <1>u, <1>1 DEF TooManySessions
  <2>2. get_user_id_from_address(a) \in {INVALID_USER_ID, u}
    BY <1>u, <1>1 DEF LinkedToOther
  <2> QED
    BY <1>2, <2>1, <2>2, AddSession DEF ServerInv, TypeOK
<1>9. /\ ConnMap(conn)
      /\ DOMAIN conn = DOMAIN conn0
      /\ \A v \in DOMAIN conn0 :
           /\ conn[v].session_one = conn0[v].session_one
           /\ conn[v].session_two = conn0[v].session_two
  <2> HIDE DEF conn0
  <2> QED
    BY <1>8, TakeMsgIds
<1>10. /\ ConnMap(user_id_to_connection_data')
       /\ DOMAIN user_id_to_connection_data' = DOMAIN conn0
       /\ \A v \in DOMAIN conn0 :
            /\ user_id_to_connection_data'[v].session_one = conn0[v].session_one
            /\ user_id_to_connection_data'[v].session_two = conn0[v].session_two
  <2>1. Len(sent) \in Nat
    BY <1>3, <1>4
  <2> HIDE DEF conn, conn0, sent
  <2> QED
    BY <1>1, <1>9, <2>1, TakeMsgIds
<1>11. ConnectionTypeOK' /\ SessionsConsistent'
  <2>1. SessionsMatch(user_id_to_connection_data', link_address(u, a))
    <3> HIDE DEF conn0
    <3> QED
      BY <1>8, <1>10, SameSessions
  <2> QED
    BY <1>1, <1>8, <1>10, <2>1
    DEF ConnectionTypeOK, ConnMap, AddrMap, SessionsConsistent
<1>12. SendQueueTypeOK' /\ posts \in Seq(ServerMessageData)
  <2>1. id \in Nat
    BY <1>8, <1>9 DEF ConnMap, IsMap, UserConnectionData
  <2>2. hello \in ServerMessageData
    BY <2>1, MessageTypes DEF ServerInv, TypeOK, ServerMsgType
  <2>3. to_address(a, hello) \in [Addresses -> Seq(ServerMessageData)]
    <3> HIDE DEF hello
    <3> QED
      BY <2>2, ToAddressType DEF ServerInv, TypeOK
  <2>4. \A k \in DOMAIN list :
          /\ list[k].notification_id \in DOMAIN notification_id_to_notification
          /\ notification_id_to_notification[list[k].notification_id].message
               \in Messages
    <3>1. CASE u \in DOMAIN id_to_user
      BY <1>2, <1>3, <3>1 DEF ServerInv, PendingConsistent, TypeOK,
           NotificationTypeOK, IsMap, NotificationData, notification_exists
    <3>2. CASE u \notin DOMAIN id_to_user
      BY <1>2, <1>3, <3>2
    <3> QED
      BY <3>1, <3>2
  <2>5. \A k \in DOMAIN list :
          Post(id + k, list[k].user_id,
               notification_id_to_notification[list[k].notification_id].message)
            \in ServerMessageData
    <3> HIDE DEF id
    <3>1. \A k \in DOMAIN list : id + k \in Nat
      BY <2>1, <1>3
    <3> SUFFICES ASSUME NEW k \in DOMAIN list
                 PROVE  Post(id + k, list[k].user_id,
                             notification_id_to_notification
                               [list[k].notification_id].message)
                          \in ServerMessageData
      OBVIOUS
    <3>2. PICK n : n = id + k
      OBVIOUS
    <3>3. \A author : \A text \in Messages :
            Post(n, author, text) \in ServerMessageData
      BY <3>1, <3>2, MessageTypes DEF ServerInv, TypeOK
    <3> QED
      BY <2>4, <3>2, <3>3
  <2>6. posts \in Seq(ServerMessageData)
    <3>1. DOMAIN list = 1 .. Len(list) /\ Len(list) \in Nat
      BY <1>3
    <3> HIDE DEF sent, id
    <3> QED
      BY <1>4, <2>5, <3>1
  <2>7. msgs \in [DOMAIN conn -> Seq(ServerMessageData)]
    <3> HIDE DEF conn, posts
    <3> QED
      BY <2>6
  <2> HIDE DEF conn, msgs, hello, posts
  <2> QED
    BY <1>1, <2>3, <2>6, <2>7, ToSessionsType DEF SendQueueTypeOK
<1>13. NothingWaitsForConnected'
  <2> HIDE DEF conn0
  <2> QED
    BY <1>5, <1>8, <1>10 DEF ServerInv, NothingWaitsForConnected, user_id_exists
<1>14. ServerInv'
  BY <1>6, <1>7, <1>11, <1>12, <1>13 DEF ServerInv, TypeOK
<1>15. LoginEffect(a, name)
  <2>1. \A k \in DOMAIN posts : /\ posts[k].msg_id = id + k
                               /\ posts[k].msg_type = "ServerSendCommand"
    <3> HIDE DEF sent, id
    <3>1. \A k \in DOMAIN posts :
            posts[k] = Post(id + k, sent[k].user_id,
                            notification_id_to_notification
                              [sent[k].notification_id].message)
      OBVIOUS
    <3> HIDE DEF posts
    <3> QED
      BY <3>1 DEF Post
  <2>2. /\ Len(posts) = Len(sent)
        /\ user_connected(u) => posts = << >>
    <3>1. DOMAIN posts = 1 .. Len(list) /\ Len(list) \in Nat
      BY <1>3, <1>4
    <3>2. user_connected(u) => list = << >>
      BY <1>3
    <3> HIDE DEF posts
    <3> QED
      BY <1>4, <1>12, <3>1, <3>2
  <2>3. user_connected(u) => session_available(u)
    BY <1>u, <1>1 DEF TooManySessions
  <2>4. get_user_id_from_address(a) \in {INVALID_USER_ID, u}
    BY <1>u, <1>1 DEF LinkedToOther
  <2>5. /\ user_id_to_connection_data' = take_msg_ids(conn, u, Len(posts))
        /\ address_to_user_id' = link_address(u, a)
        /\ send_queue' = to_sessions(to_address(a, hello), conn, msgs)
    <3> HIDE DEF conn, posts, sent, hello, msgs
    <3> QED
      BY <1>1, <2>2
  <2> HIDE DEF posts
  <2> QED
    BY <1>u, <1>2, <1>12, <2>1, <2>2, <2>3, <2>4, <2>5 DEF LoginEffect
<1> QED
  BY <1>14, <1>15

\* The two consumer threads empty their queues.
LEMMA ConsumersInv ==
  ASSUME ServerInv, SendQueueDrain \/ DiskQueueDrain
  PROVE  ServerInv'
<1>1. CASE SendQueueDrain
  <2>1. SendQueueTypeOK'
    BY <1>1 DEF SendQueueDrain, SendQueueTypeOK
  <2>2. user_data_update_queue' \in Seq(UserPersistentData)
    BY <1>1 DEF SendQueueDrain, user_vars, ServerInv, TypeOK, UserTypeOK
  <2> QED
    BY <1>1, <2>1, <2>2, ManagersFrame DEF SendQueueDrain, user_vars
<1>2. CASE DiskQueueDrain
  <2>1. SendQueueTypeOK'
    BY <1>2 DEF DiskQueueDrain, SendQueueTypeOK, ServerInv, TypeOK
  <2>2. user_data_update_queue' \in Seq(UserPersistentData)
    BY <1>2 DEF DiskQueueDrain
  <2> QED
    BY <1>2, <2>1, <2>2, ManagersFrame DEF DiskQueueDrain
<1> QED
  BY <1>1, <1>2

\* Every step of the server keeps the invariant.
LEMMA NextServerInv == ServerInv /\ [Next]_vars => ServerInv'
<1> SUFFICES ASSUME ServerInv, [Next]_vars PROVE ServerInv'
  OBVIOUS
<1>1. ASSUME NEW a \in Addresses, NEW name \in Names, handle_login(a, name)
      PROVE  ServerInv'
  BY <1>1, LoginInvalidUsernameInv, RefusedLogins, LoginSuccessInv
  DEF handle_login
<1>2. ASSUME NEW a \in Addresses, NEW name \in Names,
             handle_follow_command(a, name)
      PROVE  ServerInv'
  BY <1>2, RefusedCommands, FollowSuccessInv DEF handle_follow_command
<1>3. ASSUME NEW a \in Addresses, NEW text \in Messages,
             handle_send_command(a, text)
      PROVE  ServerInv'
  BY <1>3, RefusedCommands, SendSuccessInv DEF handle_send_command
<1>4. ASSUME NEW a \in Addresses, handle_logout(a)
      PROVE  ServerInv'
  BY <1>4, LogoutInv
<1>5. CASE UNCHANGED vars
  <2>1. SendQueueTypeOK' /\ user_data_update_queue' \in Seq(UserPersistentData)
    BY <1>5 DEF vars, user_vars, ServerInv, TypeOK, UserTypeOK, SendQueueTypeOK
  <2> QED
    BY <1>5, <2>1, ManagersFrame DEF vars, user_vars
<1> QED
  BY <1>1, <1>2, <1>3, <1>4, <1>5, ConsumersInv
  DEF Next, handle_incoming_datagram

\* The invariant holds in every reachable state of the server.
THEOREM ServerInvariant == Spec => []ServerInv
  BY InitServerInv, NextServerInv, PTL DEF Spec

-----------------------------------------------------------------------------
(***************************************************************************)
(* What follows for every set of addresses, names and texts, and whatever  *)
(* the bounds are.                                                         *)
(***************************************************************************)

\* Every variable of the server keeps to its type: in particular a message
\* id is always a number and a queue always holds well-formed messages.
THEOREM TypeCorrect == Spec => []TypeOK
<1>1. ServerInv => TypeOK
  BY DEF ServerInv
<1> QED
  BY <1>1, ServerInvariant, PTL

\* UserConnectionManager: the two maps of sessions always agree, so its
\* sanity checks are never reached.
THEOREM SessionsAlwaysConsistent == Spec => []SessionsConsistent
<1>1. ServerInv => SessionsConsistent
  BY DEF ServerInv
<1> QED
  BY <1>1, ServerInvariant, PTL

\* UserPersistence: names and ids are always in one-to-one correspondence,
\* and no id is above the counter new ones come from.
THEOREM RegistryAlwaysConsistent == Spec => []RegistryConsistent
<1>1. ServerInv => RegistryConsistent
  BY DEF ServerInv
<1> QED
  BY <1>1, ServerInvariant, PTL

\* Follower lists always name other registered users, each once, so a
\* message is counted and delivered once for each follower.
THEOREM FollowersAlwaysConsistent == Spec => []FollowersConsistent
<1>1. ServerInv => FollowersConsistent
  BY DEF ServerInv
<1> QED
  BY <1>1, ServerInvariant, PTL

\* NotificationManager: the pending counts are always exact, so a stored
\* message is freed by the last user that waits for it and by no other.
THEOREM PendingAlwaysConsistent == Spec => []PendingConsistent
<1>1. ServerInv => PendingConsistent
  BY DEF ServerInv
<1> QED
  BY <1>1, ServerInvariant, PTL

\* A connected user never has a message waiting that only its next first
\* login would deliver.
THEOREM NothingEverWaitsForConnected == Spec => []NothingWaitsForConnected
<1>1. ServerInv => NothingWaitsForConnected
  BY DEF ServerInv
<1> QED
  BY <1>1, ServerInvariant, PTL

-----------------------------------------------------------------------------
(***************************************************************************)
(* The order of message ids.                                               *)
(***************************************************************************)

\* The two halves of MsgIdsIncrease, for one queue and a counter c.
Ordered(q) ==
  \A i, j \in DOMAIN q :
    (/\ i < j
     /\ q[i].msg_id # 0 /\ q[j].msg_id # 0
     /\ \A k \in (i + 1) .. j : q[k].msg_type # "LoginSuccess")
    => q[i].msg_id < q[j].msg_id

Below(q, c) ==
  \A i \in DOMAIN q :
    (\A k \in (i + 1) .. Len(q) : q[k].msg_type # "LoginSuccess")
    => q[i].msg_id <= c

InOrder(queue, conn, addr) ==
  \A a \in Addresses :
    /\ Ordered(queue[a])
    /\ a \in DOMAIN addr => Below(queue[a], conn[addr[a]].last_msg_id)

\* Messages that go on from the counter, each with the next id.
LEMMA GoOn ==
  ASSUME NEW q \in Seq(ServerMessageData), NEW s \in Seq(ServerMessageData),
         NEW c \in Nat, Ordered(q), Below(q, c),
         \A k \in DOMAIN s : /\ s[k].msg_id = c + k
                             /\ s[k].msg_type # "LoginSuccess"
  PROVE  Ordered(q \o s) /\ Below(q \o s, c + Len(s))
<1> DEFINE r == q \o s
           n == Len(q)
           l == Len(s)
<1>1. /\ n \in Nat /\ l \in Nat
      /\ DOMAIN q = 1 .. n /\ DOMAIN s = 1 .. l
      /\ Len(r) = n + l /\ DOMAIN r = 1 .. n + l
  OBVIOUS
<1>2. \A i \in 1 .. n : r[i] = q[i]
  OBVIOUS
<1>3. \A i \in 1 .. l : r[n + i] = s[i]
  OBVIOUS
<1>4. \A i \in DOMAIN q : q[i].msg_id \in Nat
  <2>1. \A i \in DOMAIN q : q[i] \in ServerMessageData
    OBVIOUS
  <2>2. QED
    BY <2>1 DEF ServerMessageData
<1> HIDE DEF r, n, l
\* A message of the series before is at most the counter.
<1>5. ASSUME NEW i \in 1 .. n, NEW j \in n .. n + l,
             \A k \in (i + 1) .. j : r[k].msg_type # "LoginSuccess"
      PROVE  r[i].msg_id <= c /\ r[i].msg_id \in Nat
  <2>1. \A k \in (i + 1) .. n : q[k].msg_type # "LoginSuccess"
    BY <1>1, <1>2, <1>5
  <2>2. q[i].msg_id <= c
    BY <1>1, <2>1 DEF Below, n
  <2>3. QED
    BY <1>1, <1>2, <1>4, <2>2
<1>6. ASSUME NEW j \in 1 .. n + l, j > n
      PROVE  r[j].msg_id = c + (j - n) /\ j - n \in 1 .. l
  <2>1. j - n \in 1 .. l /\ n + (j - n) = j
    BY <1>1, <1>6
  <2>2. r[j] = s[j - n]
    BY <1>3, <2>1
  <2>3. QED
    BY <1>1, <2>1, <2>2
<1>7. Ordered(r)
  <2> SUFFICES ASSUME NEW i \in 1 .. n + l, NEW j \in 1 .. n + l, i < j,
                      r[i].msg_id # 0, r[j].msg_id # 0,
                      \A k \in (i + 1) .. j : r[k].msg_type # "LoginSuccess"
               PROVE  r[i].msg_id < r[j].msg_id
    BY <1>1 DEF Ordered
  <2>1. CASE j <= n
    <3>1. i \in 1 .. n /\ j \in 1 .. n
      BY <1>1, <2>1
    <3>2. \A k \in (i + 1) .. j : q[k].msg_type # "LoginSuccess"
      BY <1>1, <1>2, <3>1
    <3>3. q[i].msg_id # 0 /\ q[j].msg_id # 0
      BY <1>2, <3>1
    <3>4. q[i].msg_id < q[j].msg_id
      BY <1>1, <3>1, <3>2, <3>3 DEF Ordered
    <3>5. QED
      BY <1>2, <3>1, <3>4
  <2>2. CASE i <= n /\ j > n
    <3>1. i \in 1 .. n /\ j \in n .. n + l
      BY <1>1, <2>2
    <3>2. r[i].msg_id <= c /\ r[i].msg_id \in Nat
      BY <1>5, <3>1
    <3>3. r[j].msg_id = c + (j - n) /\ j - n \in 1 .. l
      BY <1>6, <2>2
    <3>4. QED
      BY <1>1, <3>2, <3>3
  <2>3. CASE i > n /\ j > n
    <3>1. /\ r[i].msg_id = c + (i - n) /\ i - n \in 1 .. l
          /\ r[j].msg_id = c + (j - n) /\ j - n \in 1 .. l
      BY <1>6, <2>3
    <3>2. QED
      BY <1>1, <3>1
  <2>4. QED
    BY <1>1, <2>1, <2>2, <2>3
<1>8. Below(r, c + l)
  <2> SUFFICES ASSUME NEW i \in 1 .. n + l,
                      \A k \in (i + 1) .. n + l : r[k].msg_type # "LoginSuccess"
               PROVE  r[i].msg_id <= c + l
    BY <1>1 DEF Below
  <2>1. CASE i <= n
    <3>1. i \in 1 .. n /\ n + l \in n .. n + l
      BY <1>1, <2>1
    <3>2. r[i].msg_id <= c /\ r[i].msg_id \in Nat
      BY <1>5, <3>1
    <3>3. QED
      BY <1>1, <3>2
  <2>2. CASE i > n
    <3>1. r[i].msg_id = c + (i - n) /\ i - n \in 1 .. l
      BY <1>6, <2>2
    <3>2. QED
      BY <1>1, <3>1
  <2>3. QED
    BY <1>1, <2>1, <2>2
<1>9. QED
  BY <1>7, <1>8 DEF r, l

\* What one more message is and what it leaves of the others.
LEMMA OneMore ==
  ASSUME NEW q \in Seq(ServerMessageData), NEW m \in ServerMessageData
  PROVE  LET r == Append(q, m)
         IN  /\ Len(q) \in Nat /\ DOMAIN q = 1 .. Len(q)
             /\ Len(r) = Len(q) + 1 /\ DOMAIN r = 1 .. Len(q) + 1
             /\ r[Len(q) + 1] = m
             /\ \A i \in 1 .. Len(q) : r[i] = q[i]
OBVIOUS

\* The answer to a login starts a new series.
LEMMA StartOver ==
  ASSUME NEW q \in Seq(ServerMessageData), NEW m \in ServerMessageData,
         Ordered(q), m.msg_type = "LoginSuccess"
  PROVE  Ordered(Append(q, m)) /\ Below(Append(q, m), m.msg_id)
<1> DEFINE r == Append(q, m)
           n == Len(q)
<1>1. /\ n \in Nat /\ DOMAIN q = 1 .. n
      /\ Len(r) = n + 1 /\ DOMAIN r = 1 .. n + 1
      /\ r[n + 1] = m
      /\ \A i \in 1 .. n : r[i] = q[i]
  BY OneMore
<1>2. m.msg_id \in Nat
  BY DEF ServerMessageData
<1> HIDE DEF r, n
<1>3. Ordered(r)
  <2> SUFFICES ASSUME NEW i \in 1 .. n + 1, NEW j \in 1 .. n + 1, i < j,
                      r[i].msg_id # 0, r[j].msg_id # 0,
                      \A k \in (i + 1) .. j : r[k].msg_type # "LoginSuccess"
               PROVE  r[i].msg_id < r[j].msg_id
    BY <1>1 DEF Ordered
  <2>1. j # n + 1
    BY <1>1
  <2>2. i \in 1 .. n /\ j \in 1 .. n
    BY <1>1, <2>1
  <2>3. \A k \in (i + 1) .. j : q[k].msg_type # "LoginSuccess"
    BY <1>1, <2>2
  <2>4. q[i].msg_id # 0 /\ q[j].msg_id # 0
    BY <1>1, <2>2
  <2>5. q[i].msg_id < q[j].msg_id
    BY <1>1, <2>2, <2>3, <2>4 DEF Ordered
  <2>6. QED
    BY <1>1, <2>2, <2>5
<1>4. Below(r, m.msg_id)
  <2> SUFFICES ASSUME NEW i \in 1 .. n + 1,
                      \A k \in (i + 1) .. n + 1 : r[k].msg_type # "LoginSuccess"
               PROVE  r[i].msg_id <= m.msg_id
    BY <1>1 DEF Below
  <2>1. i = n + 1
    BY <1>1
  <2>2. QED
    BY <1>1, <1>2, <2>1
<1>5. QED
  BY <1>3, <1>4 DEF r

\* A refusal carries no id.
LEMMA Refused ==
  ASSUME NEW q \in Seq(ServerMessageData), NEW m \in ServerMessageData,
         Ordered(q), m.msg_type # "LoginSuccess", m.msg_id = 0
  PROVE  /\ Ordered(Append(q, m))
         /\ \A c \in Nat : Below(q, c) => Below(Append(q, m), c)
<1> DEFINE r == Append(q, m)
           n == Len(q)
<1>1. /\ n \in Nat /\ DOMAIN q = 1 .. n
      /\ Len(r) = n + 1 /\ DOMAIN r = 1 .. n + 1
      /\ r[n + 1] = m
      /\ \A i \in 1 .. n : r[i] = q[i]
  BY OneMore
<1>2. Len(q) = n
  OBVIOUS
<1> HIDE DEF r, n
<1>3. Ordered(r)
  <2> SUFFICES ASSUME NEW i \in 1 .. n + 1, NEW j \in 1 .. n + 1, i < j,
                      r[i].msg_id # 0, r[j].msg_id # 0,
                      \A k \in (i + 1) .. j : r[k].msg_type # "LoginSuccess"
               PROVE  r[i].msg_id < r[j].msg_id
    BY <1>1 DEF Ordered
  <2>1. j # n + 1
    BY <1>1
  <2>2. i \in 1 .. n /\ j \in 1 .. n
    BY <1>1, <2>1
  <2>3. \A k \in (i + 1) .. j : q[k].msg_type # "LoginSuccess"
    BY <1>1, <2>2
  <2>4. q[i].msg_id # 0 /\ q[j].msg_id # 0
    BY <1>1, <2>2
  <2>5. q[i].msg_id < q[j].msg_id
    BY <1>1, <2>2, <2>3, <2>4 DEF Ordered
  <2>6. QED
    BY <1>1, <2>2, <2>5
<1>4. ASSUME NEW c \in Nat, Below(q, c)
      PROVE  Below(r, c)
  <2> SUFFICES ASSUME NEW i \in 1 .. n + 1,
                      \A k \in (i + 1) .. n + 1 : r[k].msg_type # "LoginSuccess"
               PROVE  r[i].msg_id <= c
    BY <1>1 DEF Below
  <2>1. CASE i = n + 1
    BY <1>1, <2>1
  <2>2. CASE i \in 1 .. n
    <3>1. \A k \in (i + 1) .. n : q[k].msg_type # "LoginSuccess"
      BY <1>1, <2>2
    <3>2. q[i].msg_id <= c
      BY <1>1, <1>2, <1>4, <2>2, <3>1 DEF Below
    <3>3. QED
      BY <1>1, <2>2, <3>2
  <2>3. QED
    BY <1>1, <2>1, <2>2
<1>5. QED
  BY <1>3, <1>4 DEF r

\* A counter that has gone on is above, too.
LEMMA StaysBelow ==
  ASSUME NEW q \in Seq(ServerMessageData), NEW c \in Nat, NEW d \in Nat,
         Below(q, c), c <= d
  PROVE  Below(q, d)
<1>1. \A i \in DOMAIN q : q[i].msg_id \in Nat
  <2>1. \A i \in DOMAIN q : q[i] \in ServerMessageData
    OBVIOUS
  <2>2. QED
    BY <2>1 DEF ServerMessageData
<1>2. QED
  BY <1>1 DEF Below

\* A queue with the messages of a handler after it.
Then(queued, msgs) == queued \o msgs

\* A session gets what is for its user.
LEMMA ToSession ==
  ASSUME NEW queue, NEW conn, NEW addr, NEW msgs, SessionsMatch(conn, addr),
         NEW a \in Addresses, a \in DOMAIN addr
  PROVE  /\ addr[a] \in DOMAIN conn
         /\ to_sessions(queue, conn, msgs)[a] = Then(queue[a], msgs[addr[a]])
<1> DEFINE holders == {u \in DOMAIN conn : a \in get_address_from_user(conn, u)}
<1>1. to_sessions(queue, conn, msgs)[a] =
        IF holders = {} THEN queue[a]
                        ELSE queue[a] \o msgs[CHOOSE u \in holders : TRUE]
  BY DEF to_sessions
<1>2. addr[a] \in DOMAIN conn /\ holders = {addr[a]}
  BY DEF SessionsMatch, get_address_from_user
<1> HIDE DEF holders
<1>3. (CHOOSE u \in holders : TRUE) = addr[a] /\ holders # {}
  BY <1>2
<1>4. QED
  BY <1>1, <1>2, <1>3 DEF Then

\* Any other address gets nothing.
LEMMA ToNobody ==
  ASSUME NEW queue, NEW conn, NEW addr, NEW msgs, SessionsMatch(conn, addr),
         NEW a \in Addresses, a \notin DOMAIN addr
  PROVE  to_sessions(queue, conn, msgs)[a] = queue[a]
<1> DEFINE holders == {u \in DOMAIN conn : a \in get_address_from_user(conn, u)}
<1>1. to_sessions(queue, conn, msgs)[a] =
        IF holders = {} THEN queue[a]
                        ELSE queue[a] \o msgs[CHOOSE u \in holders : TRUE]
  BY DEF to_sessions
<1>2. holders = {}
  BY DEF SessionsMatch, get_address_from_user
<1>3. QED
  BY <1>1, <1>2

\* The queues and the counters, before and after a step.
OrderInv ==
  InOrder(send_queue, user_id_to_connection_data, address_to_user_id)

\* This is the property the runs check.
LEMMA OrderIsMsgIds == OrderInv <=> MsgIdsIncrease
BY DEF OrderInv, InOrder, Ordered, Below, MsgIdsIncrease, address_exists

\* The counter of a linked address is a number.
LEMMA CounterType ==
  ASSUME ConnectionTypeOK, SessionsConsistent, NEW a \in DOMAIN address_to_user_id
  PROVE  /\ address_to_user_id[a] \in DOMAIN user_id_to_connection_data
         /\ user_id_to_connection_data[address_to_user_id[a]].last_msg_id \in Nat
<1>1. address_to_user_id[a] \in DOMAIN user_id_to_connection_data
  BY DEF SessionsConsistent, SessionsMatch, get_address_from_user
<1>2. QED
  BY <1>1 DEF ConnectionTypeOK, IsMap, UserConnectionData

\* A login that is refused.
LEMMA RefusedOrder ==
  ASSUME ServerInv, OrderInv, NEW a \in Addresses,
         NEW type \in ServerMsgType \ {"LoginSuccess"},
         send_queue' = to_address(a, Response(0, type, NULL)),
         UNCHANGED connection_vars
  PROVE  OrderInv'
<1> DEFINE m == Response(0, type, NULL)
<1>1. /\ m \in ServerMessageData /\ m.msg_type # "LoginSuccess" /\ m.msg_id = 0
  BY DEF Response, ServerMessageData
<1> HIDE DEF m
<1>2. send_queue \in [Addresses -> Seq(ServerMessageData)]
  BY DEF ServerInv, TypeOK, SendQueueTypeOK
<1>3. ASSUME NEW b \in Addresses
      PROVE  /\ Ordered(send_queue'[b])
             /\ b \in DOMAIN address_to_user_id =>
                  Below(send_queue'[b],
                        user_id_to_connection_data[address_to_user_id[b]].last_msg_id)
  <2>1. /\ Ordered(send_queue[b])
        /\ b \in DOMAIN address_to_user_id =>
             Below(send_queue[b],
                   user_id_to_connection_data[address_to_user_id[b]].last_msg_id)
    BY DEF OrderInv, InOrder
  <2>2. send_queue'[b] = IF b = a THEN Append(send_queue[b], m) ELSE send_queue[b]
    BY <1>2 DEF to_address, m
  <2>3. b \in DOMAIN address_to_user_id =>
          user_id_to_connection_data[address_to_user_id[b]].last_msg_id \in Nat
    BY CounterType DEF ServerInv, TypeOK
  <2>4. send_queue[b] \in Seq(ServerMessageData)
    BY <1>2
  <2>5. QED
    BY <1>1, <2>1, <2>2, <2>3, <2>4, Refused
<1>4. QED
  BY <1>3 DEF OrderInv, InOrder, connection_vars

\* The answers to a login.
LoginAnswers == {"LoginSuccess", "LoginFailInvalidUsername",
                 "LoginFailTooManySessions",
                 "LoginFailAlreadyConnectedToDifferentUser"}

\* Messages of a handler that go to sessions that were there before: each
\* user's are numbered on from its counter, which counts them.
SeriesSent(conn, msgs) ==
  /\ SessionsMatch(conn, address_to_user_id)
  /\ msgs \in [DOMAIN conn -> Seq(ServerMessageData)]
  /\ \A v \in DOMAIN conn : \A k \in DOMAIN msgs[v] :
       /\ msgs[v][k].msg_id = user_id_to_connection_data[v].last_msg_id + k
       /\ msgs[v][k].msg_type \notin LoginAnswers
  /\ send_queue' = to_sessions(send_queue, conn, msgs)
  /\ address_to_user_id' = address_to_user_id
  /\ \A v \in DOMAIN conn :
       user_id_to_connection_data'[v].last_msg_id =
         user_id_to_connection_data[v].last_msg_id + Len(msgs[v])

\* They keep the order.
LEMMA SeriesOrder ==
  ASSUME ServerInv, OrderInv, \E conn, msgs : SeriesSent(conn, msgs)
  PROVE  OrderInv'
<1>0. PICK conn, msgs : SeriesSent(conn, msgs)
  OBVIOUS
<1> USE <1>0 DEF SeriesSent
<1>1. send_queue \in [Addresses -> Seq(ServerMessageData)]
  BY DEF ServerInv, TypeOK, SendQueueTypeOK
<1>2. ASSUME NEW b \in Addresses
      PROVE  /\ Ordered(send_queue'[b])
             /\ b \in DOMAIN address_to_user_id =>
                  Below(send_queue'[b],
                        user_id_to_connection_data'[address_to_user_id[b]].last_msg_id)
  <2>1. Ordered(send_queue[b]) /\ send_queue[b] \in Seq(ServerMessageData)
    BY <1>1 DEF OrderInv, InOrder
  <2>2. CASE b \notin DOMAIN address_to_user_id
    <3>1. send_queue'[b] = send_queue[b]
      BY <2>2, ToNobody
    <3>2. QED
      BY <2>1, <2>2, <3>1
  <2>3. CASE b \in DOMAIN address_to_user_id
    <3> DEFINE v == address_to_user_id[b]
               c == user_id_to_connection_data[v].last_msg_id
               s == msgs[v]
    <3>0. /\ v \in DOMAIN conn
          /\ send_queue'[b] = Then(send_queue[b], s)
      BY <2>3, ToSession
    <3>1. v \in DOMAIN conn /\ send_queue'[b] = send_queue[b] \o s
      BY <3>0 DEF Then
    <3>2. c \in Nat /\ Below(send_queue[b], c)
      BY <2>3, CounterType DEF ServerInv, TypeOK, OrderInv, InOrder
    <3>3. /\ s \in Seq(ServerMessageData)
          /\ \A k \in DOMAIN s : /\ s[k].msg_id = c + k
                                 /\ s[k].msg_type # "LoginSuccess"
          /\ user_id_to_connection_data'[v].last_msg_id = c + Len(s)
      BY <3>1 DEF LoginAnswers
    <3> HIDE DEF s, c, v
    <3>4. /\ Ordered(send_queue[b] \o s)
          /\ Below(send_queue[b] \o s, c + Len(s))
      BY <2>1, <3>2, <3>3, GoOn
    <3>5. QED
      BY <3>1, <3>3, <3>4 DEF v
  <2>4. QED
    BY <2>2, <2>3
<1>3. QED
  BY <1>2 DEF OrderInv, InOrder

\* The answer to a command.
LEMMA RespondSends ==
  ASSUME ServerInv, NEW u \in DOMAIN user_id_to_connection_data,
         NEW type \in ServerMsgType \ LoginAnswers,
         NEW name \in Names \cup {NULL}, respond(u, type, name)
  PROVE  \E conn, msgs : SeriesSent(conn, msgs)
<1> DEFINE conn0 == user_id_to_connection_data
           conn  == take_msg_ids(conn0, u, 1)
           msg   == Response(conn[u].last_msg_id, type, name)
           msgs  == [v \in DOMAIN conn |-> IF v = u THEN <<msg>> ELSE << >>]
<1>1. ConnMap(conn0) /\ AddrMap(address_to_user_id)
  BY DEF ServerInv, TypeOK, ConnectionTypeOK, ConnMap, AddrMap
<1>2. /\ ConnMap(conn)
      /\ DOMAIN conn = DOMAIN conn0
      /\ \A v \in DOMAIN conn0 :
           /\ conn[v].session_one = conn0[v].session_one
           /\ conn[v].session_two = conn0[v].session_two
  BY <1>1, TakeMsgIds
<1>3. \A v \in DOMAIN conn0 :
        /\ conn0[v].last_msg_id \in Nat
        /\ conn[v].last_msg_id = conn0[v].last_msg_id + (IF v = u THEN 1 ELSE 0)
  BY <1>1 DEF take_msg_ids, ConnMap, IsMap, UserConnectionData
<1>4. SessionsMatch(conn, address_to_user_id)
  BY <1>1, <1>2, SameSessions DEF ServerInv, SessionsConsistent
<1>5. /\ user_id_to_connection_data' = conn
      /\ send_queue' = to_sessions(send_queue, conn, msgs)
      /\ address_to_user_id' = address_to_user_id
  BY DEF respond
<1> HIDE DEF conn
<1>6. /\ msg \in ServerMessageData
      /\ msg.msg_id = conn0[u].last_msg_id + 1
      /\ msg.msg_type \notin LoginAnswers
  <2>1. conn[u].last_msg_id \in Nat /\ conn[u].last_msg_id = conn0[u].last_msg_id + 1
    BY <1>3
  <2>2. QED
    BY <2>1 DEF Response, ServerMessageData
<1> HIDE DEF msg
<1>7. /\ msgs \in [DOMAIN conn -> Seq(ServerMessageData)]
      /\ \A v \in DOMAIN conn : msgs[v] = IF v = u THEN <<msg>> ELSE << >>
  BY <1>6
<1>8. \A v \in DOMAIN conn : \A k \in DOMAIN msgs[v] :
        /\ msgs[v][k].msg_id = conn0[v].last_msg_id + k
        /\ msgs[v][k].msg_type \notin LoginAnswers
  <2> SUFFICES ASSUME NEW v \in DOMAIN conn, NEW k \in DOMAIN msgs[v]
               PROVE  /\ msgs[v][k].msg_id = conn0[v].last_msg_id + k
                      /\ msgs[v][k].msg_type \notin LoginAnswers
    OBVIOUS
  <2> HIDE DEF msgs
  <2>1. v = u /\ k = 1 /\ msgs[v][k] = msg
    BY <1>7
  <2>2. QED
    BY <1>6, <2>1
<1>9. \A v \in DOMAIN conn :
        conn[v].last_msg_id = conn0[v].last_msg_id + Len(msgs[v])
  <2> HIDE DEF msgs
  <2>1. \A v \in DOMAIN conn : Len(msgs[v]) = IF v = u THEN 1 ELSE 0
    BY <1>7
  <2>2. QED
    BY <1>2, <1>3, <2>1
<1> HIDE DEF msgs
<1>10. QED
  BY <1>4, <1>5, <1>7, <1>8, <1>9 DEF SeriesSent

\* A value that is not in a sequence does not occur there.
LEMMA NoOccurrence ==
  ASSUME NEW S, NEW s \in Seq(S), NEW x, \A i \in DOMAIN s : s[i] # x
  PROVE  Occurrences(s, x) = 0
<1>1. {i \in DOMAIN s : s[i] = x} = {}
  OBVIOUS
<1>2. QED
  BY <1>1, FS_EmptySet DEF Occurrences

\* A message that is sent.  The answer takes its id before the posts and
\* comes after them, but the sender is not among its own followers.
LEMMA SendSends ==
  ASSUME ServerInv, NEW a \in Addresses, NEW text \in Messages,
         SendSuccess(a, text)
  PROVE  \E conn, msgs : SeriesSent(conn, msgs)
<1>u. PICK u : u = get_user_id_from_address(a)
  OBVIOUS
<1> DEFINE followers == get_followers(u)
           n(v)      == Occurrences(followers, v)
           conn0     == user_id_to_connection_data
           conn      == take_msg_ids(conn0, u, 1)
           conn2     == [v \in DOMAIN conn |->
                           [conn[v] EXCEPT !.last_msg_id = @ + n(v)]]
           posts(v)  == [k \in 1 .. n(v) |-> Post(conn[v].last_msg_id + k, u, text)]
           reply     == Response(conn[u].last_msg_id, "SendCommandSuccess", NULL)
           answer(v) == IF v = u THEN <<reply>> ELSE << >>
           msgs      == [v \in DOMAIN conn |-> posts(v) \o answer(v)]
<1>1. /\ u # INVALID_USER_ID
      /\ user_id_to_connection_data' = conn2
      /\ send_queue' = to_sessions(send_queue, conn, msgs)
      /\ address_to_user_id' = address_to_user_id
  BY <1>u DEF SendSuccess
<1>2. u \in DOMAIN conn0 /\ u \in DOMAIN id_to_user
  BY <1>u, <1>1, Linked
<1>3. ConnMap(conn0) /\ AddrMap(address_to_user_id)
  BY DEF ServerInv, TypeOK, ConnectionTypeOK, ConnMap, AddrMap
<1>4. /\ ConnMap(conn)
      /\ DOMAIN conn = DOMAIN conn0
      /\ \A v \in DOMAIN conn0 :
           /\ conn[v].session_one = conn0[v].session_one
           /\ conn[v].session_two = conn0[v].session_two
  BY <1>3, TakeMsgIds
<1>5. \A v \in DOMAIN conn0 :
        /\ conn0[v].last_msg_id \in Nat
        /\ conn[v].last_msg_id = conn0[v].last_msg_id + (IF v = u THEN 1 ELSE 0)
        /\ conn[v] \in UserConnectionData
  BY <1>3, <1>4 DEF take_msg_ids, ConnMap, IsMap, UserConnectionData
<1>6. SessionsMatch(conn, address_to_user_id)
  BY <1>3, <1>4, SameSessions DEF ServerInv, SessionsConsistent
<1>7. followers = id_to_user[u].followed_by /\ followers \in Seq(UserIds)
  BY <1>2 DEF get_followers, user_id_exists, ServerInv, TypeOK, UserTypeOK,
       IsMap, UserData
<1>8. (\A v : n(v) \in Nat) /\ n(u) = 0
  <2>1. \A i \in DOMAIN followers : followers[i] # u
    BY <1>2, <1>7 DEF ServerInv, FollowersConsistent
  <2> HIDE DEF followers
  <2>2. QED
    BY <1>7, <2>1, OccurrencesType, NoOccurrence
<1> HIDE DEF n, conn
<1>9. \A v \in DOMAIN conn : conn2[v].last_msg_id = conn[v].last_msg_id + n(v)
  BY <1>4, <1>5, <1>8 DEF UserConnectionData
<1>10. /\ reply \in ServerMessageData
       /\ reply.msg_id = conn0[u].last_msg_id + 1
       /\ reply.msg_type \notin LoginAnswers
  <2>1. conn[u].last_msg_id \in Nat /\ conn[u].last_msg_id = conn0[u].last_msg_id + 1
    BY <1>2, <1>5
  <2>2. QED
    BY <2>1 DEF Response, ServerMessageData, ServerMsgType, LoginAnswers
<1> HIDE DEF conn2, reply
\* The sender gets the answer alone, and any other user its posts alone.
<1>11. msgs[u] = <<reply>> /\ u \in DOMAIN msgs /\ DOMAIN msgs = DOMAIN conn
  <2>1. posts(u) = << >>
    BY <1>8
  <2>2. /\ u \in DOMAIN msgs /\ DOMAIN msgs = DOMAIN conn
        /\ msgs[u] = posts(u) \o answer(u)
    BY <1>2, <1>4
  <2>3. answer(u) = <<reply>>
    OBVIOUS
  <2> HIDE DEF msgs, posts, answer
  <2>4. << >> \o <<reply>> = <<reply>>
    BY <1>10
  <2>5. QED
    BY <2>1, <2>2, <2>3, <2>4
<1>12. ASSUME NEW v \in DOMAIN conn, v # u
       PROVE  /\ msgs[v] \in Seq(ServerMessageData)
              /\ Len(msgs[v]) = n(v) /\ DOMAIN msgs[v] = 1 .. n(v)
              /\ \A k \in 1 .. n(v) :
                   /\ msgs[v][k].msg_id = conn0[v].last_msg_id + k
                   /\ msgs[v][k].msg_type \notin LoginAnswers
  <2>1. conn[v].last_msg_id = conn0[v].last_msg_id /\ conn0[v].last_msg_id \in Nat
    BY <1>4, <1>5, <1>12
  <2>2. ASSUME NEW k \in 1 .. n(v)
        PROVE  /\ Post(conn[v].last_msg_id + k, u, text) \in ServerMessageData
               /\ posts(v)[k] = Post(conn[v].last_msg_id + k, u, text)
               /\ posts(v)[k].msg_id = conn[v].last_msg_id + k
               /\ posts(v)[k].msg_type \notin LoginAnswers
    <3>1. PICK id : id = conn[v].last_msg_id + k
      OBVIOUS
    <3>2. id \in Nat
      BY <1>8, <2>1, <3>1
    <3>3. Post(id, u, text) \in ServerMessageData
      BY <3>2, MessageTypes DEF ServerInv, TypeOK
    <3>4. posts(v)[k] = Post(id, u, text)
      BY <3>1
    <3>5. Post(id, u, text).msg_id = id /\ Post(id, u, text).msg_type \notin LoginAnswers
      BY DEF Post, LoginAnswers
    <3>6. QED
      BY <3>1, <3>3, <3>4, <3>5
  <2>3. /\ posts(v) \in Seq(ServerMessageData)
        /\ DOMAIN posts(v) = 1 .. n(v) /\ Len(posts(v)) = n(v)
    BY <1>8, <2>2
  <2>4. msgs[v] = posts(v) \o << >>
    BY <1>12
  <2> HIDE DEF posts, msgs
  <2>5. msgs[v] = posts(v)
    BY <2>3, <2>4
  <2>6. QED
    BY <2>1, <2>2, <2>3, <2>5
<1> HIDE DEF msgs
<1>13. /\ \A v \in DOMAIN conn : msgs[v] \in Seq(ServerMessageData)
       /\ \A v \in DOMAIN conn :
            conn2[v].last_msg_id = conn0[v].last_msg_id + Len(msgs[v])
  <2>1. ASSUME NEW v \in DOMAIN conn
        PROVE  /\ msgs[v] \in Seq(ServerMessageData)
               /\ conn2[v].last_msg_id = conn0[v].last_msg_id + Len(msgs[v])
    <3>1. CASE v = u
      <4>1. <<reply>> \in Seq(ServerMessageData) /\ Len(<<reply>>) = 1
        BY <1>10
      <4>2. conn2[u].last_msg_id = conn0[u].last_msg_id + 1
        BY <1>2, <1>4, <1>5, <1>8, <1>9
      <4>3. QED
        BY <1>11, <3>1, <4>1, <4>2
    <3>2. CASE v # u
      <4>1. conn2[v].last_msg_id = conn0[v].last_msg_id + n(v)
        BY <1>4, <1>5, <1>9, <3>2
      <4>2. QED
        BY <1>12, <3>2, <4>1
    <3>3. QED
      BY <3>1, <3>2
  <2>2. QED
    BY <2>1
<1>14. \A v \in DOMAIN conn : \A k \in DOMAIN msgs[v] :
         /\ msgs[v][k].msg_id = conn0[v].last_msg_id + k
         /\ msgs[v][k].msg_type \notin LoginAnswers
  <2> SUFFICES ASSUME NEW v \in DOMAIN conn, NEW k \in DOMAIN msgs[v]
               PROVE  /\ msgs[v][k].msg_id = conn0[v].last_msg_id + k
                      /\ msgs[v][k].msg_type \notin LoginAnswers
    OBVIOUS
  <2>1. CASE v = u
    <3>1. k = 1 /\ msgs[v][k] = reply
      BY <1>11, <2>1
    <3>2. QED
      BY <1>10, <2>1, <3>1
  <2>2. CASE v # u
    BY <1>12, <2>2
  <2>3. QED
    BY <2>1, <2>2
<1>15. msgs \in [DOMAIN conn -> Seq(ServerMessageData)]
  <2>1. msgs = [v \in DOMAIN conn |-> msgs[v]]
    BY DEF msgs
  <2>2. QED
    BY <1>13, <2>1
<1>16. QED
  BY <1>1, <1>6, <1>13, <1>14, <1>15 DEF SeriesSent

\* A login leaves the links of the other addresses, and the counters of the
\* users that are connected.
LEMMA AddedSession ==
  ASSUME ConnectionTypeOK, SessionsConsistent,
         NEW u \in UserIds, NEW a \in Addresses,
         user_connected(u) => session_available(u)
  PROVE  /\ \A v \in DOMAIN user_id_to_connection_data :
              add_session(u, a)[v].last_msg_id =
                user_id_to_connection_data[v].last_msg_id
         /\ a \in DOMAIN link_address(u, a) /\ link_address(u, a)[a] = u
         /\ \A b \in Addresses \ {a} :
              /\ b \in DOMAIN link_address(u, a) <=> b \in DOMAIN address_to_user_id
              /\ b \in DOMAIN address_to_user_id =>
                   link_address(u, a)[b] = address_to_user_id[b]
<1> DEFINE conn == user_id_to_connection_data
           addr == address_to_user_id
<1>1. conn \in [DOMAIN conn -> UserConnectionData]
  BY DEF ConnectionTypeOK, IsMap
<1>2. CASE Stores(u, a)
  <2>1. link_address(u, a) = Put(addr, a, u)
    BY <1>2 DEF link_address
  <2>2. \A v \in DOMAIN conn : add_session(u, a)[v].last_msg_id = conn[v].last_msg_id
    <3>1. CASE ~user_connected(u)
      BY <3>1 DEF add_session, user_connected, Put
    <3>2. CASE user_connected(u)
      BY <1>1, <1>2, <3>2 DEF add_session, UserConnectionData
    <3>3. QED
      BY <3>1, <3>2
  <2>3. /\ DOMAIN Put(addr, a, u) = DOMAIN addr \cup {a}
        /\ Put(addr, a, u)[a] = u
        /\ \A b \in DOMAIN addr : b # a => Put(addr, a, u)[b] = addr[b]
    BY DEF Put
  <2>4. QED
    BY <2>1, <2>2, <2>3
<1>3. CASE ~Stores(u, a)
  <2>1. link_address(u, a) = addr /\ add_session(u, a) = conn
    BY <1>3 DEF link_address, add_session, Stores
  <2>2. a \in get_address_from_user(conn, u)
    BY <1>3 DEF Stores
  <2>3. a \in DOMAIN addr /\ addr[a] = u
    BY <2>2 DEF SessionsConsistent, SessionsMatch, get_address_from_user
  <2>4. QED
    BY <2>1, <2>3
<1>4. QED
  BY <1>2, <1>3

\* A login that succeeds: its answer starts a series at the new session, and
\* the posts that waited follow it.  They go to nobody else, since there are
\* some only if this is the user's first session.
LEMMA LoginOrder ==
  ASSUME ServerInv, OrderInv, NEW a \in Addresses, NEW name \in Names,
         LoginEffect(a, name)
  PROVE  OrderInv'
<1> DEFINE conn0 == user_id_to_connection_data
           addr0 == address_to_user_id
<1>1. PICK u \in UserIds, posts \in Seq(ServerMessageData) :
        LET conn == take_msg_ids(add_session(u, a), u, 1)
            id   == conn[u].last_msg_id
        IN  /\ user_connected(u) => session_available(u) /\ posts = << >>
            /\ get_user_id_from_address(a) \in {INVALID_USER_ID, u}
            /\ \A k \in DOMAIN posts :
                 /\ posts[k].msg_id = id + k
                 /\ posts[k].msg_type = "ServerSendCommand"
            /\ user_id_to_connection_data' = take_msg_ids(conn, u, Len(posts))
            /\ address_to_user_id' = link_address(u, a)
            /\ send_queue' =
                 to_sessions(to_address(a, Response(id, "LoginSuccess", NULL)),
                   conn, [v \in DOMAIN conn |-> IF v = u THEN posts ELSE << >>])
  BY DEF LoginEffect
<1> DEFINE added == add_session(u, a)
           conn  == take_msg_ids(added, u, 1)
           id    == conn[u].last_msg_id
           hello == Response(id, "LoginSuccess", NULL)
           queue == to_address(a, hello)
           msgs  == [v \in DOMAIN conn |-> IF v = u THEN posts ELSE << >>]
           addr  == link_address(u, a)
           after == take_msg_ids(conn, u, Len(posts))
<1>2. /\ user_connected(u) => session_available(u) /\ posts = << >>
      /\ \A k \in DOMAIN posts : /\ posts[k].msg_id = id + k
                                 /\ posts[k].msg_type # "LoginSuccess"
      /\ user_id_to_connection_data' = after
      /\ address_to_user_id' = addr
      /\ send_queue' = to_sessions(queue, conn, msgs)
  BY <1>1
<1>3. ConnectionTypeOK /\ SessionsConsistent /\ ConnMap(conn0) /\ AddrMap(addr0)
  BY DEF ServerInv, TypeOK, ConnectionTypeOK, ConnMap, AddrMap
<1>4. /\ ConnMap(added) /\ AddrMap(addr) /\ SessionsMatch(added, addr)
      /\ DOMAIN added = DOMAIN conn0 \cup {u}
  BY <1>1, <1>3, AddSession
<1>5. /\ \A v \in DOMAIN conn0 : added[v].last_msg_id = conn0[v].last_msg_id
      /\ a \in DOMAIN addr /\ addr[a] = u
      /\ \A b \in Addresses \ {a} :
           /\ b \in DOMAIN addr <=> b \in DOMAIN addr0
           /\ b \in DOMAIN addr0 => addr[b] = addr0[b]
  BY <1>2, <1>3, AddedSession
<1> HIDE DEF added, addr
<1>6. /\ ConnMap(conn) /\ DOMAIN conn = DOMAIN added
      /\ \A v \in DOMAIN added :
           /\ conn[v].session_one = added[v].session_one
           /\ conn[v].session_two = added[v].session_two
  BY <1>4, TakeMsgIds
<1>7. SessionsMatch(conn, addr)
  BY <1>4, <1>6, SameSessions
<1>8. \A v \in DOMAIN added :
        /\ added[v].last_msg_id \in Nat
        /\ conn[v].last_msg_id = added[v].last_msg_id + (IF v = u THEN 1 ELSE 0)
  BY <1>4 DEF take_msg_ids, ConnMap, IsMap, UserConnectionData
<1> HIDE DEF conn
<1>9. /\ u \in DOMAIN conn /\ id \in Nat
      /\ \A v \in DOMAIN conn :
           after[v].last_msg_id =
             conn[v].last_msg_id + (IF v = u THEN Len(posts) ELSE 0)
  <2>1. u \in DOMAIN conn /\ id \in Nat /\ Len(posts) \in Nat
    BY <1>4, <1>6, <1>8
  <2>2. QED
    BY <1>6, <2>1 DEF take_msg_ids, ConnMap, IsMap, UserConnectionData
<1> HIDE DEF after, id
<1>10. /\ hello \in ServerMessageData /\ hello.msg_type = "LoginSuccess"
       /\ hello.msg_id = id
  BY <1>9 DEF Response, ServerMessageData, ServerMsgType
<1> HIDE DEF hello
<1>11. send_queue \in [Addresses -> Seq(ServerMessageData)]
  BY DEF ServerInv, TypeOK, SendQueueTypeOK
<1>12. /\ queue[a] = Append(send_queue[a], hello)
       /\ \A b \in Addresses \ {a} : queue[b] = send_queue[b]
  BY <1>11 DEF to_address
<1>13. \A v \in DOMAIN conn : msgs[v] = IF v = u THEN posts ELSE << >>
  OBVIOUS
<1> HIDE DEF queue, msgs
<1>14. /\ Ordered(send_queue'[a])
       /\ Below(send_queue'[a], after[u].last_msg_id)
  <2>1. send_queue'[a] = Then(queue[a], msgs[addr[a]])
    BY <1>2, <1>5, <1>7, ToSession
  <2>2. send_queue'[a] = Append(send_queue[a], hello) \o posts
    BY <1>5, <1>9, <1>12, <1>13, <2>1 DEF Then
  <2>3. PICK q : q = Append(send_queue[a], hello)
    OBVIOUS
  <2>4. send_queue[a] \in Seq(ServerMessageData) /\ Ordered(send_queue[a])
    BY <1>11 DEF OrderInv, InOrder
  <2>5. q \in Seq(ServerMessageData) /\ Ordered(q) /\ Below(q, id)
    BY <1>10, <2>3, <2>4, StartOver
  <2>6. Ordered(q \o posts) /\ Below(q \o posts, id + Len(posts))
    BY <1>2, <1>9, <2>5, GoOn
  <2>7. after[u].last_msg_id = id + Len(posts)
    BY <1>9 DEF id
  <2>8. QED
    BY <2>2, <2>3, <2>6, <2>7
<1>15. ASSUME NEW b \in Addresses \ {a}
       PROVE  /\ Ordered(send_queue'[b])
              /\ b \in DOMAIN addr =>
                   Below(send_queue'[b], after[addr[b]].last_msg_id)
  <2>1. send_queue[b] \in Seq(ServerMessageData) /\ Ordered(send_queue[b])
    BY <1>11 DEF OrderInv, InOrder
  <2>2. CASE b \notin DOMAIN addr
    <3>1. send_queue'[b] = queue[b]
      BY <1>2, <1>7, <2>2, ToNobody
    <3>2. QED
      BY <1>12, <2>1, <2>2, <3>1
  <2>3. CASE b \in DOMAIN addr
    <3>1. PICK v : v = addr[b]
      OBVIOUS
    <3>2. v \in DOMAIN conn /\ send_queue'[b] = Then(queue[b], msgs[v])
      BY <1>2, <1>7, <2>3, <3>1, ToSession
    <3>3. b \in DOMAIN addr0 /\ v = addr0[b]
      BY <1>5, <2>3, <3>1
    <3>4. v \in DOMAIN conn0 /\ conn0[v].last_msg_id \in Nat
      BY <1>3, <3>3, CounterType
    <3>5. Below(send_queue[b], conn0[v].last_msg_id)
      BY <3>3 DEF OrderInv, InOrder
    <3>6. msgs[v] = << >>
      BY <1>2, <1>13, <3>2, <3>4 DEF user_connected
    <3>7. send_queue[b] \o << >> = send_queue[b]
      BY <2>1
    <3>8. send_queue'[b] = send_queue[b]
      BY <1>12, <3>2, <3>6, <3>7 DEF Then
    <3>9. /\ after[v].last_msg_id \in Nat
          /\ conn0[v].last_msg_id <= after[v].last_msg_id
      <4>1. added[v].last_msg_id = conn0[v].last_msg_id /\ v \in DOMAIN added
        BY <1>5, <1>6, <3>2, <3>4
      <4>2. Len(posts) \in Nat
        OBVIOUS
      <4>3. QED
        BY <1>8, <1>9, <3>2, <3>4, <4>1, <4>2
    <3>10. QED
      BY <2>1, <3>1, <3>4, <3>5, <3>8, <3>9, StaysBelow
  <2>4. QED
    BY <2>2, <2>3
<1>16. ASSUME NEW b \in Addresses
       PROVE  /\ Ordered(send_queue'[b])
              /\ b \in DOMAIN addr =>
                   Below(send_queue'[b], after[addr[b]].last_msg_id)
  BY <1>5, <1>14, <1>15
<1>17. QED
  BY <1>2, <1>16 DEF OrderInv, InOrder

\* A logout: the sessions that remain keep their user and its counter.
LEMMA LogoutOrder ==
  ASSUME ServerInv, OrderInv, NEW a \in Addresses, handle_logout(a)
  PROVE  OrderInv'
<1> DEFINE conn == user_id_to_connection_data
           addr == address_to_user_id
           u    == addr[a]
           data == without_session(conn[u], a)
<1>1. /\ a \in DOMAIN addr /\ remove_address(a) /\ send_queue' = send_queue
  BY DEF handle_logout, address_exists
<1>2. ConnectionTypeOK /\ SessionsConsistent
  BY DEF ServerInv, TypeOK
<1>3. ConnectionTypeOK' /\ SessionsConsistent'
  BY <1>1, <1>2, RemoveSession DEF address_exists
<1>4. /\ u \in DOMAIN conn /\ a \in get_address_from_user(conn, u)
      /\ conn[u] \in UserConnectionData
  BY <1>1, <1>2 DEF SessionsConsistent, SessionsMatch, get_address_from_user,
       ConnectionTypeOK, IsMap
<1>5. /\ address_to_user_id' = Erase(addr, a)
      /\ user_id_to_connection_data' =
           IF data.session_one = NULL /\ data.session_two = NULL
             THEN Erase(conn, u) ELSE Put(conn, u, data)
  BY <1>1, <1>4 DEF remove_address
<1>6. data.last_msg_id = conn[u].last_msg_id
  BY <1>4 DEF without_session, UserConnectionData
<1> HIDE DEF data, u
<1>7. \A v \in DOMAIN user_id_to_connection_data' :
        /\ v \in DOMAIN conn
        /\ user_id_to_connection_data'[v].last_msg_id = conn[v].last_msg_id
  BY <1>4, <1>5, <1>6 DEF Erase, Put
<1>8. \A b \in DOMAIN address_to_user_id' :
        /\ b \in DOMAIN addr /\ address_to_user_id'[b] = addr[b]
        /\ addr[b] \in DOMAIN user_id_to_connection_data'
  <2>1. \A b \in DOMAIN address_to_user_id' :
          b \in DOMAIN addr /\ address_to_user_id'[b] = addr[b]
    BY <1>5 DEF Erase
  <2>2. \A b \in DOMAIN address_to_user_id' :
          address_to_user_id'[b] \in DOMAIN user_id_to_connection_data'
    BY <1>3 DEF SessionsConsistent, SessionsMatch, get_address_from_user
  <2>3. QED
    BY <2>1, <2>2
<1>9. QED
  BY <1>1, <1>7, <1>8 DEF OrderInv, InOrder

\* The queues are empty at the start.
LEMMA InitOrder == Init => OrderInv
BY DEF Init, OrderInv, InOrder, Ordered, Below, ConnectionInit, EmptyMap

\* A command of a linked address.
LEMMA CommandSends ==
  ASSUME ServerInv, NEW a \in Addresses,
         \/ \E name \in Names : handle_follow_command(a, name)
         \/ \E text \in Messages : handle_send_command(a, text)
  PROVE  \E conn, msgs : SeriesSent(conn, msgs)
<1>1. ASSUME NEW name \in Names, handle_follow_command(a, name)
      PROVE  \E conn, msgs : SeriesSent(conn, msgs)
  <2>1. PICK u : u = get_user_id_from_address(a)
    OBVIOUS
  <2>2. PICK type \in {"FollowCommandFail", "FollowCommandSuccess"} :
          u # INVALID_USER_ID /\ respond(u, type, name)
    BY <1>1, <2>1 DEF handle_follow_command, FollowFail, FollowSuccess
  <2>3. u \in DOMAIN user_id_to_connection_data
    BY <2>1, <2>2, Linked
  <2>4. type \in ServerMsgType \ LoginAnswers /\ name \in Names \cup {NULL}
    BY <2>2 DEF ServerMsgType, LoginAnswers
  <2>5. QED
    BY <2>2, <2>3, <2>4, RespondSends
<1>2. ASSUME NEW text \in Messages, SendInvalid(a, text)
      PROVE  \E conn, msgs : SeriesSent(conn, msgs)
  <2>1. PICK u : u = get_user_id_from_address(a)
    OBVIOUS
  <2>2. u # INVALID_USER_ID /\ respond(u, "SendCommandFail", NULL)
    BY <1>2, <2>1 DEF SendInvalid
  <2>3. u \in DOMAIN user_id_to_connection_data
    BY <2>1, <2>2, Linked
  <2>4. "SendCommandFail" \in ServerMsgType \ LoginAnswers
    BY DEF ServerMsgType, LoginAnswers
  <2>5. QED
    BY <2>2, <2>3, <2>4, RespondSends
<1>3. QED
  BY <1>1, <1>2, SendSends DEF handle_send_command

\* Every step keeps the order.
LEMMA NextOrder == ServerInv /\ OrderInv /\ [Next]_vars => OrderInv'
<1> SUFFICES ASSUME ServerInv, OrderInv, [Next]_vars PROVE OrderInv'
  OBVIOUS
<1>1. ASSUME NEW a \in Addresses, NEW name \in Names, handle_login(a, name)
      PROVE  OrderInv'
  <2>1. CASE LoginSuccess(a, name)
    BY <2>1, LoginSuccessInv, LoginOrder
  <2>2. CASE \/ LoginInvalidUsername(a, name)
             \/ LoginTooManySessions(a, name)
             \/ LoginOtherUser(a, name)
    <3>1. PICK type \in {"LoginFailInvalidUsername", "LoginFailTooManySessions",
                         "LoginFailAlreadyConnectedToDifferentUser"} :
            /\ send_queue' = to_address(a, Response(0, type, NULL))
            /\ UNCHANGED connection_vars
      BY <2>2 DEF LoginInvalidUsername, LoginTooManySessions, LoginOtherUser
    <3>2. type \in ServerMsgType \ {"LoginSuccess"}
      BY DEF ServerMsgType
    <3>3. QED
      BY <3>1, <3>2, RefusedOrder
  <2>3. QED
    BY <1>1, <2>1, <2>2 DEF handle_login
<1>2. CASE SendQueueDrain
  BY <1>2 DEF SendQueueDrain, OrderInv, InOrder, Ordered, Below
<1>3. CASE DiskQueueDrain \/ UNCHANGED vars
  BY <1>3 DEF DiskQueueDrain, vars, OrderInv, connection_vars
<1>4. QED
  BY <1>1, <1>2, <1>3, CommandSends, SeriesOrder, LogoutOrder
  DEF Next, handle_incoming_datagram

\* ClientMessageHandler and the main loop: whatever arrives, in whatever
\* order, and whenever the sender drains its queue, each session is sent
\* message ids that increase from one login to the next.
THEOREM MsgIdsAlwaysIncrease == Spec => []MsgIdsIncrease
BY InitServerInv, NextServerInv, InitOrder, NextOrder, OrderIsMsgIds, PTL DEF Spec
=============================================================================
