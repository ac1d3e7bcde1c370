---------------------------- MODULE Notification ----------------------------
(***************************************************************************)
(* NotificationManager (server/notification.cpp).  A message sent while    *)
(* some followers are offline is stored once, with the number of followers *)
(* that have still to receive it; each of them holds a PendingNotification *)
(* naming it.  A login drains the user's list and counts each notification *)
(* down; the last one frees it.  The time stamp and the stored length are  *)
(* left out: nothing tells them apart from the message.                    *)
(***************************************************************************)
EXTENDS UserConnection, UserPersistence, FiniteSets

CONSTANTS Messages,        \* the texts SEND datagrams carry
          ValidMessages    \* the ones is_valid_message accepts

ASSUME ValidMessagesAreMessages == ValidMessages \subseteq Messages

VARIABLES last_notification_id, notification_id_to_notification

notification_vars == <<last_notification_id, notification_id_to_notification>>

NotificationData == [author        : UserIds,
                     message       : Messages,
                     pending_users : Nat]

NotificationTypeOK ==
  /\ last_notification_id \in Nat
  /\ IsMap(notification_id_to_notification, NotificationIds, NotificationData)

NotificationInit ==
  /\ last_notification_id = INVALID_NOTIFICATION_ID
  /\ notification_id_to_notification = EmptyMap

is_valid_message(text) == text \in ValidMessages

notification_exists(n) == n \in DOMAIN notification_id_to_notification

\* How many times x stands in the sequence s.
Occurrences(s, x) == Cardinality({i \in DOMAIN s : s[i] = x})

-----------------------------------------------------------------------------
(***************************************************************************)
(* add_notification(author, followers, text).  A connected follower is     *)
(* sent the message at once (the handler does that); a registered one that *)
(* is offline goes to offline_users, given by the positions it has in      *)
(* followers; an unknown id is skipped.  The stored message counts         *)
(* offline_users, and each of them gets a pending notification per place.  *)
(***************************************************************************)
\* Mutant: a user without its first session counts as offline.
offline_users_by_session_one(followers) ==
  {i \in DOMAIN followers :
     /\ user_id_exists(followers[i])
     /\ \/ ~user_connected(followers[i])
        \/ user_id_to_connection_data[followers[i]].session_one = NULL}

offline_users(followers) ==
  {i \in DOMAIN followers : /\ ~user_connected(followers[i])
                            /\ user_id_exists(followers[i])}

\* Mutant: the id counter is read but not advanced.
store_notification_same_id(author, followers, text) ==
  IF offline_users(followers) = {}
    THEN UNCHANGED <<notification_vars, id_to_user>>
    ELSE
      LET id == last_notification_id + 1
      IN  /\ UNCHANGED last_notification_id
          /\ notification_id_to_notification' =
               Put(notification_id_to_notification, id,
                   [author |-> author, message |-> text,
                    pending_users |-> Cardinality(offline_users(followers))])
          /\ id_to_user' =
               [u \in DOMAIN id_to_user |->
                  IF \E i \in offline_users(followers) : followers[i] = u
                    THEN [id_to_user[u] EXCEPT !.pending_notifications =
                            Append(@, [user_id |-> author,
                                       notification_id |-> id])]
                    ELSE id_to_user[u]]

store_notification(author, followers, text) ==
  IF offline_users(followers) = {}
    THEN UNCHANGED <<notification_vars, id_to_user>>
    ELSE
      LET id        == last_notification_id + 1
          pending   == [user_id |-> author, notification_id |-> id]
          copies(u) == Cardinality({i \in offline_users(followers) :
                                      followers[i] = u})
      IN  /\ last_notification_id' = id
          /\ notification_id_to_notification' =
               Put(notification_id_to_notification, id,
                   [author |-> author, message |-> text,
                    pending_users |-> Cardinality(offline_users(followers))])
          /\ id_to_user' =
               [u \in DOMAIN id_to_user |->
                  add_pending_notification(u, pending, copies(u))]

(***************************************************************************)
(* The entries of a drained list that the login loop finds stored.  The    *)
(* others are the "Pending notification improperly cleaned." case and are  *)
(* skipped; the first branch is the one PendingConsistent says is taken.   *)
(***************************************************************************)
deliverable(list) ==
  IF \A i \in DOMAIN list : notification_exists(list[i].notification_id)
    THEN list
    ELSE SelectSeq(list, LAMBDA p : notification_exists(p.notification_id))

\* decrement_pending_users_from for each notification of the list: the
\* count never goes below 0, and the notification that reaches 0 is erased.
mentions(list, n) ==
  Cardinality({i \in DOMAIN list : list[i].notification_id = n})

\* Mutant: the first user to receive a notification frees it.
decrement_pending_users_from_frees(list) ==
  [n \in {m \in DOMAIN notification_id_to_notification :
            mentions(list, m) = 0} |-> notification_id_to_notification[n]]

decrement_pending_users_from(list) ==
  LET after(n) == notification_id_to_notification[n].pending_users
                    - mentions(list, n)
      kept     == {n \in DOMAIN notification_id_to_notification :
                     mentions(list, n) = 0 \/ after(n) > 0}
  IN  [n \in kept |-> [notification_id_to_notification[n] EXCEPT
                         !.pending_users = @ - mentions(list, n)]]

-----------------------------------------------------------------------------
\* The registered users that have notification n in their list.
waiting_for(n) ==
  {u \in DOMAIN id_to_user :
     \E i \in DOMAIN id_to_user[u].pending_notifications :
       id_to_user[u].pending_notifications[i].notification_id = n}

(***************************************************************************)
(* The reference counts are exact.  A stored notification counts the users *)
(* whose list names it, at least one, so it is neither freed while someone *)
(* waits for it nor kept when nobody does; and every entry of a list names *)
(* a stored notification by the author it records, once.  The login loop's *)
(* branch "Pending notification improperly cleaned." is then unreachable.  *)
(***************************************************************************)
PendingConsistent ==
  /\ \A n \in DOMAIN notification_id_to_notification :
       /\ n <= last_notification_id
       /\ waiting_for(n) # {}
       /\ notification_id_to_notification[n].pending_users =
            Cardinality(waiting_for(n))
  /\ \A u \in DOMAIN id_to_user :
       LET list == id_to_user[u].pending_notifications
       IN  /\ \A i \in DOMAIN list :
                /\ notification_exists(list[i].notification_id)
                /\ notification_id_to_notification[list[i].notification_id].author
                     = list[i].user_id
           /\ \A i, j \in DOMAIN list :
                list[i].notification_id = list[j].notification_id => i = j

(***************************************************************************)
(* A connected user is registered and nothing waits for it: messages for   *)
(* it are sent at once, and what waited was drained by the login that      *)
(* opened its first session.  Only such a login drains, so a notification  *)
(* stored for a connected user would stay until the user had logged out of *)
(* every session.                                                          *)
(***************************************************************************)
NothingWaitsForConnected ==
  \A u \in DOMAIN user_id_to_connection_data :
    user_id_exists(u) /\ id_to_user[u].pending_notifications = << >>
=============================================================================
