-------------------------------- MODULE Feed --------------------------------
(***************************************************************************)
(* What the server promises its users, without ids, counters, stored       *)
(* notifications or reference counts.  A registered user may follow others *)
(* and be logged in from at most two addresses.  A message goes to every   *)
(* user that follows its author when it is sent, once: at once to all the  *)
(* sessions of one that is logged in, and otherwise it waits, in order,    *)
(* for that user's next login.                                             *)
(***************************************************************************)
EXTENDS Naturals, FiniteSets, Sequences

CONSTANTS Users,        \* the names that can register
          Addresses,
          Texts,        \* the messages that can be sent
          Nobody        \* who an address without a session speaks for

VARIABLES members,      \* the registered users
          follows,      \* pairs <<f, u>>: f follows u
          sessions,     \* who each address speaks for
          waiting,      \* the posts that wait for each user's next login
          inbox         \* the posts under way to each address

feed_vars == <<members, follows, sessions, waiting, inbox>>

MaxSessions == 2

addresses_of(u) == {a \in Addresses : sessions[a] = u}

FeedInit ==
  /\ members = {}
  /\ follows = {}
  /\ sessions = [a \in Addresses |-> Nobody]
  /\ waiting = [u \in Users |-> << >>]
  /\ inbox = [a \in Addresses |-> << >>]

\* A login that is refused may register its name all the same.
Register(u) ==
  /\ members' = members \cup {u}
  /\ UNCHANGED <<follows, sessions, waiting, inbox>>

Login(a, u) ==
  /\ sessions[a] \in {Nobody, u}
  /\ Cardinality(addresses_of(u)) < MaxSessions
  /\ members' = members \cup {u}
  /\ sessions' = [sessions EXCEPT ![a] = u]
  /\ waiting' = [waiting EXCEPT ![u] = << >>]
  /\ inbox' = [b \in Addresses |-> IF sessions'[b] = u
                                     THEN inbox[b] \o waiting[u]
                                     ELSE inbox[b]]
  /\ UNCHANGED follows

Logout(a) ==
  /\ sessions' = [sessions EXCEPT ![a] = Nobody]
  /\ UNCHANGED <<members, follows, waiting, inbox>>

Follow(f, u) ==
  /\ addresses_of(f) # {}
  /\ u \in members \ {f}
  /\ follows' = follows \cup {<<f, u>>}
  /\ UNCHANGED <<members, sessions, waiting, inbox>>

Publish(u, text) ==
  LET post == [author |-> u, text |-> text]
  IN  /\ addresses_of(u) # {}
      /\ waiting' = [f \in Users |->
                       IF <<f, u>> \in follows /\ addresses_of(f) = {}
                         THEN Append(waiting[f], post) ELSE waiting[f]]
      /\ inbox' = [a \in Addresses |->
                     IF <<sessions[a], u>> \in follows
                       THEN Append(inbox[a], post) ELSE inbox[a]]
      /\ UNCHANGED <<members, follows, sessions>>

Transmit ==
  /\ inbox' = [a \in Addresses |-> << >>]
  /\ UNCHANGED <<members, follows, sessions, waiting>>

FeedNext ==
  \/ \E u \in Users : \/ Register(u)
                      \/ \E a \in Addresses : Login(a, u)
                      \/ \E f \in Users : Follow(f, u)
                      \/ \E text \in Texts : Publish(u, text)
  \/ \E a \in Addresses : Logout(a)
  \/ Transmit

FeedSpec == FeedInit /\ [][FeedNext]_feed_vars
=============================================================================
