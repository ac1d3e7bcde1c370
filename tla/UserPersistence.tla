--------------------------- MODULE UserPersistence ---------------------------
(***************************************************************************)
(* UserPersistence (server/user_persistence.cpp): the registered users,    *)
(* who follows each of them, the notifications that wait for each of them, *)
(* and the queue of records the disk thread is to write.                   *)
(*                                                                         *)
(* id_to_user[u] is UserData: the persistent part (user name, list of      *)
(* follower ids) and pending_notifications, which lives in memory only.    *)
(* notification_list, which nothing reads or writes, is left out.          *)
(***************************************************************************)
EXTENDS ServerDefines, Sequences, Maps

CONSTANTS Names,        \* the user names datagrams carry
          ValidNames    \* the ones is_valid_username accepts

ASSUME ValidNamesAreNames == ValidNames \subseteq Names

VARIABLES last_user_id,             \* UserIdManager's counter
          username_to_id, id_to_user,
          user_data_update_queue    \* pushed here, drained by the disk thread

user_vars == <<last_user_id, username_to_id, id_to_user,
               user_data_update_queue>>

PendingNotification == [user_id         : UserIds,
                        notification_id : NotificationIds]

UserData == [username              : Names,
             followed_by           : Seq(UserIds),
             pending_notifications : Seq(PendingNotification)]

UserPersistentData == [user_id     : UserIds,
                       username    : Names,
                       followed_by : Seq(UserIds)]

UserTypeOK ==
  /\ last_user_id \in Nat
  /\ IsMap(username_to_id, Names, UserIds)
  /\ IsMap(id_to_user, UserIds, UserData)
  /\ user_data_update_queue \in Seq(UserPersistentData)

UserInit ==
  /\ last_user_id = INVALID_USER_ID
  /\ username_to_id = EmptyMap
  /\ id_to_user = EmptyMap
  /\ user_data_update_queue = << >>

is_valid_username(name) == name \in ValidNames

user_id_exists(u) == u \in DOMAIN id_to_user

get_user_id_from_username(name) ==
  IF name \in DOMAIN username_to_id THEN username_to_id[name]
                                    ELSE INVALID_USER_ID

get_followers(u) ==
  IF user_id_exists(u) THEN id_to_user[u].followed_by ELSE << >>

\* NULL stands for the empty string an unknown id is given.
get_username_from_user_id(u) ==
  IF user_id_exists(u) THEN id_to_user[u].username ELSE NULL

-----------------------------------------------------------------------------
(***************************************************************************)
(* add_or_update_user(name): a known name keeps its id; an unknown one     *)
(* gets the next id and an entry, and its record is queued for the disk.   *)
(* id_after_login is the id it returns and registered(name) the user map   *)
(* it leaves.                                                              *)
(***************************************************************************)
\* Mutant: the name is not looked up, each login registers it anew.
Registers_always(name) == TRUE

Registers(name) == get_user_id_from_username(name) = INVALID_USER_ID

\* Mutant: the counter is returned before it is incremented.
next_user_id_postfix == last_user_id

next_user_id == last_user_id + 1

id_after_login(name) ==
  IF Registers(name) THEN next_user_id ELSE username_to_id[name]

registered(name) ==
  IF Registers(name)
    THEN Put(id_to_user, next_user_id,
             [username |-> name, followed_by |-> << >>,
              pending_notifications |-> << >>])
    ELSE id_to_user

\* Mutant: a new user is not saved until it is followed.
add_or_update_user_unsaved(name) ==
  IF Registers(name)
    THEN /\ last_user_id' = next_user_id
         /\ username_to_id' = Put(username_to_id, name, next_user_id)
         /\ UNCHANGED user_data_update_queue
    ELSE UNCHANGED <<last_user_id, username_to_id, user_data_update_queue>>

\* The counter, the name map and the disk queue after add_or_update_user.
add_or_update_user(name) ==
  IF Registers(name)
    THEN /\ last_user_id' = next_user_id
         /\ username_to_id' = Put(username_to_id, name, next_user_id)
         /\ user_data_update_queue' =
              Append(user_data_update_queue,
                     [user_id |-> next_user_id, username |-> name,
                      followed_by |-> << >>])
    ELSE UNCHANGED <<last_user_id, username_to_id, user_data_update_queue>>

(***************************************************************************)
(* add_follow(followed, follower), with UserPersistentData's               *)
(* add_followed_by: a follower already listed is not listed again and      *)
(* nothing is queued; a new one is appended and the whole record queued.   *)
(***************************************************************************)
\* Mutant: nobody is found in the list.
already_follows_never(followed, follower) == FALSE

already_follows(followed, follower) ==
  \E i \in DOMAIN id_to_user[followed].followed_by :
    id_to_user[followed].followed_by[i] = follower

add_followed_by(followed, follower) ==
  IF already_follows(followed, follower)
    THEN UNCHANGED <<id_to_user, user_data_update_queue>>
    ELSE /\ id_to_user' = [id_to_user EXCEPT
                             ![followed].followed_by = Append(@, follower)]
         /\ user_data_update_queue' =
              Append(user_data_update_queue,
                     [user_id     |-> followed,
                      username    |-> id_to_user[followed].username,
                      followed_by |-> Append(id_to_user[followed].followed_by,
                                             follower)])

add_follow(followed, follower) ==
  /\ IF user_id_exists(followed) /\ user_id_exists(follower)
       THEN add_followed_by(followed, follower)
       ELSE UNCHANGED <<id_to_user, user_data_update_queue>>
  /\ UNCHANGED <<last_user_id, username_to_id>>

\* The user data of u after n calls of add_pending_notification(u, pending).
add_pending_notification(u, pending, n) ==
  [id_to_user[u] EXCEPT !.pending_notifications =
     @ \o [k \in 1 .. n |-> pending]]

\* The user map drain_pending_notifications(u) leaves of the user map users.
drain_pending_notifications(users, u) ==
  [users EXCEPT ![u].pending_notifications = << >>]

-----------------------------------------------------------------------------
(***************************************************************************)
(* The registry is sound: the two maps of UserPersistence are inverse to   *)
(* each other, and no id is larger than the counter new ids come from, so  *)
(* add_or_update_user never hands out one that is in use.                  *)
(***************************************************************************)
RegistryConsistent ==
  /\ \A name \in DOMAIN username_to_id :
       /\ user_id_exists(username_to_id[name])
       /\ id_to_user[username_to_id[name]].username = name
  /\ \A u \in DOMAIN id_to_user :
       /\ u <= last_user_id
       /\ id_to_user[u].username \in DOMAIN username_to_id
       /\ username_to_id[id_to_user[u].username] = u

(***************************************************************************)
(* A follower list names registered users other than its owner, each once. *)
(* A duplicate would deliver and count every message twice; an unknown id  *)
(* is the case the comment "Sanity check, this shouldn't happen." of       *)
(* notification.cpp guards.                                                *)
(***************************************************************************)
FollowersConsistent ==
  \A u \in DOMAIN id_to_user :
    LET followers == id_to_user[u].followed_by
    IN  /\ \A i \in DOMAIN followers :
             user_id_exists(followers[i]) /\ followers[i] # u
        /\ \A i, j \in DOMAIN followers :
             followers[i] = followers[j] => i = j
=============================================================================
