---------------------------- MODULE ClientServer ----------------------------
(***************************************************************************)
(* Clients and server over a network that loses, repeats and reorders      *)
(* datagrams.  The server is ClientMessageHandler.  A client is what       *)
(* module Client has it do, seen from the network: it writes its login     *)
(* once, takes the next datagram for the answer (client/login.cpp), runs,  *)
(* and writes a Logout on its way out, unless its process fails.  Each     *)
(* client has an address of its own, which no later client is given.       *)
(***************************************************************************)
EXTENDS ClientMessageHandler, FiniteSets

CONSTANTS MaxRequests,      \* commands of all clients
          MaxTroubles       \* datagrams lost, datagrams delivered once more
                            \* and clients that fail, together

VARIABLES client,       \* by address: [state, name]
          requests,     \* datagrams on their way to the server
          answers,      \* datagrams on their way to the clients
          commands,     \* how many commands were written
          trouble       \* how many troubles of each kind there were

cs_vars == <<vars, client, requests, answers, commands, trouble>>

CSInit ==
  /\ Init
  /\ client = [a \in Addresses |-> [state |-> "off", name |-> NULL]]
  /\ requests = {}
  /\ answers = {}
  /\ commands = 0
  /\ trouble = [duplicates |-> 0, losses |-> 0, failures |-> 0]

Request(a, type, arg, id) ==
  [from |-> a, msg_type |-> type, arg |-> arg, msg_id |-> id]

Move(a, here, there) ==
  /\ client[a].state = here
  /\ client' = [client EXCEPT ![a].state = there]

Trouble(kind) ==
  /\ trouble.duplicates + trouble.losses + trouble.failures < MaxTroubles
  /\ trouble' = [trouble EXCEPT ![kind] = @ + 1]

-----------------------------------------------------------------------------
(***************************************************************************)
(* The clients.                                                            *)
(***************************************************************************)
ClientStarts(a, name) ==
  /\ client[a].state = "off"
  /\ client' = [client EXCEPT ![a] = [state |-> "waiting", name |-> name]]
  /\ requests' = requests \cup {Request(a, "ClientLogin", name, 0)}
  /\ UNCHANGED <<vars, answers, commands, trouble>>

\* try_login: the next datagram decides, whatever it is.
ClientGetsAnswer(m) ==
  /\ Move(m.to, "waiting",
          IF m.data.msg_type = "LoginSuccess" THEN "running" ELSE "refused")
  /\ answers' = answers \ {m}
  /\ UNCHANGED <<vars, requests, commands, trouble>>

KnownToMainLoop == {"ServerSendCommand", "FollowCommandFail",
                    "FollowCommandSuccess", "SendCommandFail",
                    "SendCommandSuccess"}

\* The main loop prints a message it knows; any other type ends the program.
ClientGetsMessage(m) ==
  /\ Move(m.to, "running",
          IF m.data.msg_type \in KnownToMainLoop THEN "running" ELSE "confused")
  /\ answers' = answers \ {m}
  /\ UNCHANGED <<vars, requests, commands, trouble>>

\* Commands are checked before they are sent: a valid name, not one's own.
ClientCommands(a, type, arg) ==
  /\ client[a].state = "running"
  /\ arg # client[a].name
  /\ commands < MaxRequests
  /\ commands' = commands + 1
  /\ requests' = requests \cup {Request(a, type, arg, commands + 1)}
  /\ UNCHANGED <<vars, client, answers, trouble>>

ClientLeaves(a) ==
  /\ Move(a, "running", "ended") \/ Move(a, "confused", "ended")
  /\ requests' = requests \cup {Request(a, "ClientLogout", NULL, MaxRequests + 1)}
  /\ UNCHANGED <<vars, answers, commands, trouble>>

\* A read or a write fails, or the process is killed.
ClientFails(a) ==
  /\ Move(a, "waiting", "ended") \/ Move(a, "running", "ended")
  /\ Trouble("failures")
  /\ UNCHANGED <<vars, requests, answers, commands>>

-----------------------------------------------------------------------------
(***************************************************************************)
(* The network, which may deliver a datagram and keep a copy of it.        *)
(***************************************************************************)
ServerHandles(r) ==
  \/ r.msg_type = "ClientLogin" /\ handle_login(r.from, r.arg)
  \/ r.msg_type = "ClientFollow" /\ handle_follow_command(r.from, r.arg)
  \/ r.msg_type = "ClientSend" /\ handle_send_command(r.from, r.arg)
  \/ r.msg_type = "ClientLogout" /\ handle_logout(r.from)
  \/ r.msg_type # "ClientLogin" /\ ~address_exists(r.from) /\ UNCHANGED vars

ServerReceives(r) ==
  /\ ConsumersKeepUp
  /\ ServerHandles(r)
  /\ \/ requests' = requests \ {r} /\ UNCHANGED trouble
     \/ UNCHANGED requests /\ Trouble("duplicates")
  /\ UNCHANGED <<client, answers, commands>>

\* The sender's datagrams; what is for a client that has gone goes nowhere.
ServerSends ==
  /\ SendQueueDrain
  /\ answers' = answers \cup
       UNION {{[to |-> a, data |-> send_queue[a][i]] : i \in DOMAIN send_queue[a]} :
                a \in {b \in Addresses : client[b].state \in {"waiting", "running"}}}
  /\ UNCHANGED <<client, requests, commands, trouble>>

DiskDrains == DiskQueueDrain /\ UNCHANGED <<client, requests, answers, commands, trouble>>

AnswerRepeated(m) ==
  /\ Trouble("duplicates")
  /\ \/ Move(m.to, "waiting",
             IF m.data.msg_type = "LoginSuccess" THEN "running" ELSE "refused")
     \/ Move(m.to, "running",
             IF m.data.msg_type \in KnownToMainLoop THEN "running"
                                                    ELSE "confused")
  /\ UNCHANGED <<vars, requests, answers, commands>>

DatagramLost ==
  /\ Trouble("losses")
  /\ \/ \E r \in requests : requests' = requests \ {r} /\ UNCHANGED answers
     \/ \E m \in answers : answers' = answers \ {m} /\ UNCHANGED requests
  /\ UNCHANGED <<vars, client, commands>>

ClientStep(a) ==
  \/ \E name \in ValidNames : \/ ClientStarts(a, name)
                              \/ ClientCommands(a, "ClientFollow", name)
  \/ \E text \in ValidMessages : ClientCommands(a, "ClientSend", text)
  \/ ClientLeaves(a)
  \/ ClientFails(a)

Receives == \E m \in answers : ClientGetsAnswer(m) \/ ClientGetsMessage(m)

Serves == (\E r \in requests : ServerReceives(r)) \/ ServerSends \/ DiskDrains

CSNext ==
  \/ \E a \in Addresses : ClientStep(a)
  \/ Receives
  \/ Serves
  \/ \E m \in answers : AnswerRepeated(m)
  \/ DatagramLost

CSSpec == CSInit /\ [][CSNext]_cs_vars
-----------------------------------------------------------------------------
\* The sessions to which the server sends what is for a user.
SessionsOf(name) ==
  get_address_from_user(user_id_to_connection_data,
                        get_user_id_from_username(name))

Running(name) == {a \in Addresses : client[a].state = "running"
                                      /\ client[a].name = name}

(***************************************************************************)
(* A client that was told LoginSuccess has its session at the server for   *)
(* as long as it runs, whatever the network does: so the posts for its     *)
(* user go to it, and at most two clients of a user run.                   *)
(***************************************************************************)
RunningHasSession ==
  \A name \in ValidNames :
    /\ Running(name) \subseteq SessionsOf(name)
    /\ Cardinality(Running(name)) <= 2

(***************************************************************************)
(* As long as no datagram is repeated, no client's main loop meets the     *)
(* answer to a login, which would end it: an answer goes to the one        *)
(* address that logged in, and its client takes it during the login.       *)
(***************************************************************************)
NobodyConfused ==
  trouble.duplicates = 0 => \A a \in Addresses : client[a].state # "confused"

(***************************************************************************)
(* As long as no datagram is lost, a client that waits for the answer to   *)
(* its login does not wait in vain: its login is on the way to the server, *)
(* or something is queued for it or on its way back.  try_login writes the *)
(* login once and reads without a timeout.                                 *)
(***************************************************************************)
LoginAnswered ==
  trouble.losses = 0 =>
    \A a \in Addresses : client[a].state = "waiting" =>
      \/ \E r \in requests : r.from = a
      \/ send_queue[a] # << >>
      \/ \E m \in answers : m.to = a

(***************************************************************************)
(* A session the server holds is in use: its client waits, runs, or has    *)
(* written a Logout that is on its way.  So a login is refused for "too    *)
(* many sessions currently connected, disconnect one and try again"        *)
(* (client/login.cpp) only while there are two to disconnect.  The server  *)
(* forgets a session only on its Logout, so this is as long as no datagram *)
(* is lost or repeated (a login that arrives again after the Logout), no   *)
(* client fails, and none takes a post that overtook its LoginSuccess for  *)
(* a refusal (TurnedAway).                                                 *)
(***************************************************************************)
InUse(a) == client[a].state \in {"waiting", "running"}
              \/ \E r \in requests : r.from = a

TurnedAway(a) ==
  client[a].state = "refused" /\ a \in SessionsOf(client[a].name)

NothingWentWrong ==
  /\ trouble.losses = 0 /\ trouble.duplicates = 0 /\ trouble.failures = 0
  /\ \A a \in Addresses : ~TurnedAway(a)

SessionsInUse ==
  NothingWentWrong =>
    \A name \in ValidNames, a \in Addresses :
      a \in SessionsOf(name) => client[a].name = name /\ InUse(a)
=============================================================================
