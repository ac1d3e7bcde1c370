----------------------------- MODULE ServerFeed -----------------------------
(***************************************************************************)
(* ClientMessageHandler implements Feed.  The mapping reads every list of  *)
(* ids back as names and every pending notification back as the message it *)
(* stands for, so a notification freed or overwritten too early, delivered *)
(* twice, to the wrong user or out of order has no counterpart in Feed.    *)
(***************************************************************************)
EXTENDS ClientMessageHandler

\* NULL stands for nobody here, and no user has it for a name.
ASSUME NullIsNoName == NULL \notin ValidNames

name_of(u) == id_to_user[u].username

\* The message a pending notification stands for; none if it was freed.
post_of(pending) ==
  IF notification_exists(pending.notification_id)
    THEN LET n == notification_id_to_notification[pending.notification_id]
         IN  [author |-> name_of(n.author), text |-> n.message]
    ELSE NULL

MembersMap == DOMAIN username_to_id

FollowsMap ==
  UNION {{<<name_of(follower), name>> :
            follower \in {f \in DOMAIN id_to_user :
                            already_follows(username_to_id[name], f)}} :
           name \in DOMAIN username_to_id}

SessionsMap ==
  [a \in Addresses |->
     IF address_exists(a) THEN name_of(address_to_user_id[a]) ELSE NULL]

WaitingMap ==
  [name \in ValidNames |->
     IF name \in DOMAIN username_to_id
       THEN LET list == id_to_user[username_to_id[name]].pending_notifications
            IN  [i \in DOMAIN list |-> post_of(list[i])]
       ELSE << >>]

\* The posts among messages, in their order: the k-th is the one up to which
\* there are k.
PostsAt(msgs) == {i \in DOMAIN msgs : msgs[i].msg_type = "ServerSendCommand"}

Posts(msgs) ==
  [k \in 1 .. Cardinality(PostsAt(msgs)) |->
     LET i == CHOOSE i \in PostsAt(msgs) :
                Cardinality({j \in PostsAt(msgs) : j <= i}) = k
     IN  [author |-> msgs[i].username, text |-> msgs[i].body]]

InboxMap == [a \in Addresses |-> Posts(send_queue[a])]

F == INSTANCE Feed WITH Users <- ValidNames, Texts <- ValidMessages,
                        Nobody <- NULL, members <- MembersMap,
                        follows <- FollowsMap, sessions <- SessionsMap,
                        waiting <- WaitingMap, inbox <- InboxMap

\* Every message reaches every user that followed its author when it was
\* sent, once and in order, whatever happens to sessions in between: each
\* handler does what one action of Feed does, or nothing Feed can see.
ImplementsFeed == F!FeedSpec
=============================================================================
