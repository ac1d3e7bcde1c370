--------------------------- MODULE UserConnection ---------------------------
(***************************************************************************)
(* UserConnectionManager (server/user_connection.cpp): which addresses     *)
(* each connected user is reached at, at most two, and the counter its     *)
(* message ids come from.  A user has an entry exactly while it has a      *)
(* session; logging out of the last one drops the entry with its counter.  *)
(*                                                                         *)
(* A handler calls several of these operations in a row, so they are       *)
(* written as functions from the manager's maps to its maps; the handlers  *)
(* of ClientMessageHandler assign the variables.                           *)
(***************************************************************************)
EXTENDS ServerDefines, Maps

CONSTANT Addresses      \* the sockaddr_in values datagrams come from

ASSUME NullIsNoAddress == NULL \notin Addresses

VARIABLES user_id_to_connection_data, address_to_user_id

connection_vars == <<user_id_to_connection_data, address_to_user_id>>

UserConnectionData == [session_one : Addresses \cup {NULL},
                       session_two : Addresses \cup {NULL},
                       last_msg_id : Nat]

ConnectionTypeOK ==
  /\ IsMap(user_id_to_connection_data, UserIds, UserConnectionData)
  /\ IsMap(address_to_user_id, Addresses, UserIds)

ConnectionInit ==
  /\ user_id_to_connection_data = EmptyMap
  /\ address_to_user_id = EmptyMap

-----------------------------------------------------------------------------
user_connected(u) == u \in DOMAIN user_id_to_connection_data

address_exists(a) == a \in DOMAIN address_to_user_id

\* The addresses the message loop sends a message for user u to, in the
\* connection map conn: none when u has no entry.
get_address_from_user(conn, u) ==
  IF u \in DOMAIN conn
    THEN {conn[u].session_one, conn[u].session_two} \ {NULL}
    ELSE {}

get_user_id_from_address(a) ==
  IF address_exists(a) THEN address_to_user_id[a] ELSE INVALID_USER_ID

session_available(u) ==
  /\ user_connected(u)
  /\ \/ user_id_to_connection_data[u].session_one = NULL
     \/ user_id_to_connection_data[u].session_two = NULL

-----------------------------------------------------------------------------
\* n calls of get_next_msg_id(u).  They change nothing when u has no entry.
take_msg_ids(conn, u, n) ==
  [v \in DOMAIN conn |->
     IF v = u THEN [conn[v] EXCEPT !.last_msg_id = @ + n] ELSE conn[v]]

(***************************************************************************)
(* add_or_update_user_address(u, a).  An address the user already has is   *)
(* not stored again, and a third address is not stored at all; in both     *)
(* cases the address map keeps its value too.                              *)
(***************************************************************************)
Stores(u, a) ==
  \/ ~user_connected(u)
  \/ /\ session_available(u)
     /\ a \notin get_address_from_user(user_id_to_connection_data, u)

add_session(u, a) ==
  IF ~user_connected(u)
    THEN Put(user_id_to_connection_data, u,
             [session_one |-> a, session_two |-> NULL, last_msg_id |-> 0])
  ELSE IF ~Stores(u, a)
    THEN user_id_to_connection_data
  ELSE IF user_id_to_connection_data[u].session_one = NULL
    THEN [user_id_to_connection_data EXCEPT ![u].session_one = a]
    ELSE [user_id_to_connection_data EXCEPT ![u].session_two = a]

link_address(u, a) ==
  IF Stores(u, a) THEN Put(address_to_user_id, a, u) ELSE address_to_user_id

(***************************************************************************)
(* remove_address(a) for an address that is linked.  If the user's entry   *)
(* does not hold a, nothing is removed.                                    *)
(***************************************************************************)
\* Mutant: the first session is removed, whichever asked for it.
without_session_first(data, a) == [data EXCEPT !.session_one = NULL]

without_session(data, a) ==
  IF data.session_one = a THEN [data EXCEPT !.session_one = NULL]
                          ELSE [data EXCEPT !.session_two = NULL]

remove_address(a) ==
  LET u    == address_to_user_id[a]
      held == a \in get_address_from_user(user_id_to_connection_data, u)
      data == without_session(user_id_to_connection_data[u], a)
  IN  IF ~held
        THEN UNCHANGED connection_vars
        ELSE /\ address_to_user_id' = Erase(address_to_user_id, a)
             /\ user_id_to_connection_data' =
                  IF data.session_one = NULL /\ data.session_two = NULL
                    THEN Erase(user_id_to_connection_data, u)
                    ELSE Put(user_id_to_connection_data, u, data)

-----------------------------------------------------------------------------
(***************************************************************************)
(* The two maps tell the same story.  Every entry has one or two distinct  *)
(* addresses, and an address is linked to a user exactly when that user's  *)
(* entry holds it.  So an address speaks for one user at most, no entry    *)
(* lingers without a session, no session is lost by an overwrite, and the  *)
(* two sanity checks of user_connection.cpp (a third session in            *)
(* add_or_update_user_address, an improper address in remove_address) are  *)
(* never reached.                                                          *)
(***************************************************************************)
SessionsMatch(conn, addr) ==
  /\ \A u \in DOMAIN conn : conn[u].session_one # conn[u].session_two
  /\ \A u \in DOMAIN conn : \A a \in get_address_from_user(conn, u) :
       a \in DOMAIN addr /\ addr[a] = u
  /\ \A a \in DOMAIN addr : a \in get_address_from_user(conn, addr[a])

SessionsConsistent ==
  SessionsMatch(user_id_to_connection_data, address_to_user_id)
=============================================================================
