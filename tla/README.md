# A TLA+ development for the INF01151 messaging service

The program is a small publish/subscribe service over UDP: clients log in under a
user name, follow other users and send short messages; the server delivers a
message to every follower, at once to those logged in (from at most two addresses
each) and at their next login to the others. Users and follows survive a restart in
files under `server_data/`.

This directory holds TLA+ modules translated from the C++ sources, TLC
configurations for them, and TLAPS proofs. `PROJECT.json` ties every definition
to its source lines and every property to a run.

    tlc -workers 2 -config MCServerFeed.cfg MCServer     # a model-checking run
    tlapm ServerProofs.tla                               # the proofs

## 1. Inventory

Paths are relative to `src/src/`.

| Component | State | Operations | Talks to |
|---|---|---|---|
| `UserConnectionManager` (`server/user_connection.cpp`) | user id → two session slots and a message counter; address → user id | add a session, remove an address, next message id, look-ups | called by the handlers, the notification manager, the main loop |
| `UserPersistence` (`server/user_persistence.cpp`) | id counter, name → id, id → user (followers, pending notifications) | register, follow, add/drain pending notifications | pushes records to the disk thread's queue |
| `NotificationManager` (`server/notification.cpp`) | id counter, id → stored message with a reference count | add, get, count down, remove | reads both managers above |
| `ClientMessageHandler` (`server/client_message_handler.cpp`) | none of its own | login, logout, FOLLOW, SEND | the three managers; returns actions |
| Main loop (`server/server.cpp`) | queues, interruption flag | drain the receive queue, handle, expand actions into messages; shutdown | all threads |
| Sender, receiver (`server/server_sender.cpp`, `server_receiver.cpp`) | their queue and flag | drain and send; receive, parse, push | sockets |
| Disk operations (`server/disk_operations.cpp`) | update queue, directory of names, files | drain and write; load at start | file system |
| Atomics (`shared/atomic.h`) | semaphores, value or queue | push, drain, read, write, readers/writer lock | every thread |
| Messages, helpers (`server/server_message.*`, `shared/*`) | none | serialize, validity of names and texts | |
| Client (`client/*`) | input slot, two queues, flags | login, input thread, main loop, sender, receiver, clean-up | sockets, terminal |

The server has four threads. The main thread alone touches the managers, so
handling one datagram is atomic with respect to the other threads; it shares one
queue and one flag with each of them. What is hard:

* **long sequences of datagrams.** The maps of the managers describe each other
  (sessions and addresses, names and ids, pending lists and counts). Any order of
  logins, logouts, follows and sends of several users, with datagrams lost,
  repeated or reordered, must leave them in agreement;
* **order.** Message ids are taken in one place and queued in another; flags are
  read before queues are drained;
* **crash and partial failure.** A user is stored in two files written one after
  the other, the first truncated before it is filled; opens may fail;
* **termination.** Threads are joined at shutdown;
* **the client's hand-overs.** One input slot, a login answer read outside of the
  main loop, a join on a thread that reads the terminal;
* **limits.** Names of 20 and texts of 128 characters in buffers of that size.

`PROJECT.json` lists each hazard at its line with the properties that cover it,
or why none does.

What makes each component correct:

* connections: the two maps agree, at most two distinct sessions per user;
* users: names and ids are inverse; follower lists have no stranger and no repeat;
* notifications: counts are exact, freed by the last reader, nobody connected waits;
* handlers together: every message reaches every follower, once and in order;
* disk: a crash only loses the latest changes, a clean exit loses nothing, the
  thread ends;
* server threads: nothing is lost between them, the exit sends what was queued, SIGINT
  ends the process;
* atomics: each call takes effect at once, and returns;
* client: commands go out once and in order, the Logout last; QUIT ends it;
* client and server: a client that runs has a session, a session has a client;
* wire: what one side puts into a message the other takes out of it.

## 2. Modules

| Module | Models |
|---|---|
| `ServerDefines` | ids and the invalid id (`server_defines.h`) |
| `Maps` | `std::unordered_map` as a function on the keys it holds |
| `UserConnection` | `UserConnectionManager` |
| `UserPersistence` | `UserPersistence`, with `UserData` and `UserPersistentData` |
| `Notification` | `NotificationManager`, over the two above |
| `ClientMessageHandler` | the four handlers and the main loop's expansion of their actions; the specification of the server's request handling |
| `Feed` | abstract: what the server promises its users |
| `ServerFeed` | the refinement mapping from `ClientMessageHandler` to `Feed` |
| `DiskOperations` | the disk thread, the files, shutdown, crash and load, over `UserPersistence` |
| `ServerThreads` | the server's four threads from start to exit, over abstract handlers |
| `Register` | abstract: what an atomic variable promises |
| `AtomicVar` | `AtomicVar` and `AtomicMultipleReadersVar` over semaphores, and the mapping to `Register` |
| `AtomicVecQueue` | `AtomicVecQueue` over its semaphore |
| `Client` | the client process: login, four threads, clean-up |
| `ClientServer` | several clients, as the network sees them, with `ClientMessageHandler` as the server, and the network between |
| `JsonText` | the part of jsoncpp the programs use: `FastWriter`, `Reader`, `Value` |
| `Wire` | payload arrays, both `serialize()`, the two buffers, and what the main loops take out of a message |
| `SocketSetup` | `fn_server_broadcast` and `connect_to_address_port` |
| `MCServer`, `MCDisk`, `MCAtomics`, `MCClientServer`, `MCJson`, `MCWire` | instances for TLC |
| `ServerProofs` | theorems about `ClientMessageHandler` |
| `ServerFeedProofs` | theorem: `ClientMessageHandler` implements `Feed`, over `ServerProofs` |
| `ClientServerProofs` | theorems about `ClientServer`, over `ServerProofs` |
| `DiskProofs` | theorems about `DiskOperations` |
| `ServerThreadsProofs`, `ClientProofs` | theorems about the threads of the two processes |
| `AtomicsProofs` | theorems about `AtomicVar`, which implements `Register`, and `AtomicVecQueue` |
| `SocketSetupProofs` | theorems about the two set-up functions |

**State.** Variables carry the names of the C++ members. An `unordered_map` is a
function whose domain is the set of present keys. A connected user's entry is the
record of its two session pointers (`NULL` when empty) and `last_msg_id`.
`UserData` is flattened into one record. `send_queue[a]` is the part of the
sender's queue that goes to address `a`: the relative order of messages to
different addresses cannot be observed, and keeping it apart makes fewer states.

**The handlers.** One action is one datagram handled to its end, with the expansion of
all the actions its handler returned. Each handler is split by the answer it
gives: `LoginInvalidUsername`, `LoginTooManySessions`, `LoginOtherUser`,
`LoginSuccess`; `FollowFail`, `FollowSuccess`; `SendInvalid`, `SendSuccess`;
`handle_logout`. As in the code, a valid name is registered even by a login that is
then refused, the answer to a command goes to every session of its user while the
answer to a login goes to the address it came from, and the first login drains the
pending list. Datagrams that return without an effect (a command or a logout from
an unknown address, an unknown type) are stuttering steps. The inputs are any
address with any name or text, valid or not, in any order: this is what the
receiver can pass on from a network that loses, repeats and reorders.
`handle_send_command` calls `add_notification` only when there are followers;
with none the call would change nothing, so the model has no such test.
`SendQueueDrain` and `DiskQueueDrain` stand for the two consumer threads, which
drain their queue under its semaphore.

**The disk.** `DiskOperations` takes the disk thread apart at every point where
another thread or a crash can make a difference: reading the flag, draining,
truncating a file (with the name joining the directory in memory), writing it,
appending to the directory. Opening a file for writing may fail, and so may opening
one during the load. A crash loses
memory and keeps what was written; a file between truncation and close is `Torn`,
which the load rejects by its length. A crash is one of the process, not of the
machine: what a closed stream wrote is on disk. The load gives
the next run the users it can read, and the largest of their ids to count from. A file
has the name of its user, and one user's name may be that of the directory. Two history
variables say when the promises of a clean exit lapse: `unwritten`, the users whose own
file this process could not open or list, and `overwritten`, set when a user's record has
been written over the directory.

**The server's threads.** `ServerThreads` complements the two: a datagram is a
number, its handling a few pushes, and every read of a flag, push, drain, send and
write is a step. Sender and disk thread are the same loop and hence one definition
(`Consumers`). The receiver may wait in `recvfrom` for ever and is not joined.
Receive errors, unresolvable addresses and unparsable texts are one kind of step
that leads back to `recvfrom`.

**The atomics.** A call is a list of steps: waits and posts of semaphores, and the
copy or assignment of one half of the value. `ImplementsRegister` maps this to
`Register`, where a call takes effect in one step. All other modules use the
calls as atomic steps; this run is why they may. Nothing in the repository uses
`AtomicMultipleReadersVar`.

**The client.** `Client` has the main loop at the grain of its reads of the flag, the
slot and the queue; the input thread with its one slot (`user_command`) and the lock
that `InputQuit` leaves held; the sender, which ends with the batch that holds the
Logout; and the receiver, which ends on a text it cannot parse and ends the process
when a read fails, also on the socket that main has closed. `exit(EXIT_FAILURE)` may
come from any thread. A line is its number; how it is split into tokens is a
choice of what it comes to.

**Client and server.** In `ClientServer` a client is its state as seen from outside:
off, waiting for the answer to its login, running, refused, confused (its main loop
met a type it does not know) or ended. The login takes the next datagram for its
answer, whatever it is. Datagrams are two sets, hence unordered. One may be lost or
delivered twice, and a client may fail.

**The wire.** Texts are sequences of bytes. `Wire` has the payload union with the order
in which the handlers `strcpy` into it, an array that was never written
(`garbage`), a text whose NUL did not fit (`Beyond`), the client's buffer that keeps
the end of a longer message and may be filled to its last byte, the listener that ends at
a text it cannot parse, and the conversions of the reader. The sockets are UDP: a write
sends the whole text or fails, and a failed one ends the client.
`JsonText` follows `Reader::parse`, `readToken` and `decodeString`, the recovery from
errors, the escaping of `valueToQuotedString` with UTF-8 and surrogate pairs, and the
integer conversions at their limits. `MCJson` drives the library alone, with values
the programs never build (arrays, booleans, unsigned integers).

**Socket setup.** Each candidate of `getaddrinfo` fails at `socket()`, fails at `bind()` or
`connect()`, or works.

**Left abstract.** Outside of `Wire`, texts and names are model values, and validity is
membership of `ValidNames` and `ValidMessages`. The text of a time stamp is a constant
of the right length. User ids are
`int` and notification ids `unsigned int` in the code; counting to 2^31 is out of
reach of any run of the program these models are about, so the models use numbers.

## 3. Properties and runs

| Run | Property | Says |
|---|---|---|
| `server_sessions` | `SessionsConsistent` | an address is linked to a user exactly when the user's entry holds it; entries have one or two distinct addresses |
| | `MsgIdsIncrease` | ids increase in each session's queue and do not exceed the counter |
| `server_feed` | `TypeOK` | types |
| | `RegistryConsistent` | names and ids are inverse maps, ids do not exceed the counter |
| | `FollowersConsistent` | follower lists name other registered users, each once |
| | `PendingConsistent` | the count of a stored message is the number of users that wait for it, at least one; every list entry is stored, once |
| | `NothingWaitsForConnected` | a connected user is registered and has nothing pending |
| | `ImplementsFeed` | refinement of `Feed` |
| `disk_crash` | `DiskTypeOK`, `RegistryConsistent` | types; ids stay unique across crash, fault and restart |
| | `DiskIsAPast` | what a start would load is a past of what is in memory |
| | `CleanExitDurable` | after a clean exit the disk holds every user and follow, but for users whose own file did not open |
| | `FollowersSurviveExits` | without a crash or a failed open, follower lists name registered users, over restarts (like the former, until a record is written over the directory) |
| `disk_live` | `ShutdownCompletes` | shutdown ends |
| | `UsersReachDisk` | a registered user gets to the disk, if its file opens |
| `disk_dangling` | `FollowersRegistered` | **violated**, see below |
| `server_threads` | `HandedOverInOrder` | between any two threads nothing is lost, repeated or overtaken |
| | `ExitLosesNothing` | at the exit every message pushed is sent and every record written |
| | `SendsOnOpenSocket` | nothing is sent after the socket is closed |
| | `InterruptEnds` | SIGINT ends the process, also if the receiver never returns |
| | `AcceptedIsAnswered` | what the receiver accepted is handled, sent and written, unless SIGINT comes |
| `atomics` | `ImplementsRegister` | both variable classes implement `Register`: no torn copy, no lost write, exclusion under `lock` |
| | `DrainsInPushOrder` | drains hand out each pushed element once, in order |
| | `CallsReturn` | every call returns |
| `client_threads` | `CommandsInOrder` | the login, then the commands in the order typed, then the Logout, numbered by one |
| | `LogoutBeforeClose` | at the close everything taken has been written, the Logout last |
| | `QuitEnds` | QUIT or the end of input ends the process |
| | `InterruptEndsOrWaitsForUser` | SIGINT, or a message of an unknown type, ends it, or it waits for the user's next line only |
| | `CommandSentOrReplaced` | a command in the slot is written, or replaced by a later line, unless the program ends |
| `client_server` | `RunningHasSession` | a running client has its session; at most two of a user run |
| | `NobodyConfused` | without a repeated datagram, no main loop meets the answer to a login |
| | `LoginAnswered` | without a lost datagram, who waits for an answer has one coming |
| | `SessionsInUse` | every session belongs to a client that uses it, unless a datagram was lost or repeated, a client failed, or a post overtook a LoginSuccess |
| `wire` | `ShownIsSent` | what the client shows is what the server put in, out of a dirty buffer, if the name's NUL had room |
| | `HeardIsCommand` | what the server handles is what the user typed; if its NUL had no room, something may follow it |
| | `FitsBuffer` | no message whose NULs had room is cut by the 512 bytes of a read |
| | `ReadsBack`, `PartIsRefused` | the library reads back what it writes whatever follows it, and refuses it without its last bracket |
| `wire_full_name` | `LegalNameIsShown` | **violated**, see below |
| `socket_setup` | `OnlyResultOpen` | the socket returned is the only one left open |
| | `FirstWorkingReturned` | the first candidate that works is returned, INVALID_SOCKET if there is none |

**Bounds.** *Server:* three addresses leave one over when a user has both its sessions,
and two users compete for them; for messages, three users and two addresses give a
message one connected and one offline follower, or two offline ones, and an author that
logs out while others wait; two stored notifications tell one from another. `MaxMsgId`
stops a connection's counter at 3 or 4: enough for a login, a drained post and an
answer, and logging out starts it again. `MaxSendBacklog` and `MaxDiskBacklog` say how
long a queue may be when a datagram is handled; the server's invariants other than
`MsgIdsIncrease` do not depend on what is queued, and `server_sessions` allows a backlog.
These bounds are conjuncts of `Next` (`ConsumersKeepUp`, `CountersBounded`), and the
theorems hold whatever they are. *Disk:* crashes, restarts and faults are bounded by 1 or
2: a crash, the start after it and what that run writes. `disk_crash` has two users and
one called `user_directory`, and a queue that holds a record while another is in
the batch; symmetry permutes the two. *Threads:* two datagrams of up to
two messages, so that one is handled while the other's messages are sent, and SIGINT
anywhere. *Atomics:* three threads; a locked section with a read and a write against a
third call; two readers and a writer; three calls of the queue. *Client:* three lines, so
that one can be overwritten in the slot between two that are sent, and a datagram of
any kind. *Client and server:* three clients, so that one is refused; two commands, a
follow and a send, without which no post can overtake an answer; and one trouble
(`MaxTroubles`) of each kind, one at a time. *Wire:* the program's own array and
buffer sizes, names of 19 characters (all escaped) and of 20, texts of 7, 127 and 128 (all
escaped): the longest whose NULs have room, and the longest. TLC's integers have 32 bits, so the widths of the JSON integers are constants
and small (`maxInt = 127`); a real message id has up to seven digits more, which
the 512 bytes have room for (the longest message with room for its NULs has 382). *Sockets:* four
candidates. Symmetry is used for users and addresses, never with liveness.

**Deadlock** is checked for the server, which can always act. The other runs say
`CHECK_DEADLOCK FALSE`: their processes end, or have used up a bound.

**Fairness.** Weak fairness of threads that the operating system schedules and that
block on nothing but semaphores held for a copy, or on a join: the disk thread and main's
join (`FairDiskSpec`); main, sender and disk thread (`ServerThreads`); the client's
main loop, input thread outside of `getline`, and sender (`Client`); the threads inside a
call, and the unlock of one that holds the lock (`MCAtomics`); the function that sets up a
socket. Nothing is assumed of the outside: SIGINT, datagrams, lines, answers, crashes,
registrations and restarts may never come, and the receivers are not fair. Weak fairness
of a `sem_wait` is enough for `CallsReturn` because calls are bounded; a writer of
`AtomicMultipleReadersVar` that meets an unbounded stream of overlapping readers
waits for ever.

**Mutants.** Each property is violated by a plausible slip in a modelled
definition (named `..._something` beside it): a repeated registration, a
postfix increment, a missing look-up, a count that frees too early, a flag read
after the drain, a queue cleared after the semaphore is given back, a character that is
not escaped, and so on.

### Where code and comment disagree

`add_notification` skips a follower id that is not registered with the comment
"Sanity check, this shouldn't happen." (`server/notification.cpp:77`). From a fresh
start it cannot (`FollowersConsistent`, proved), nor across clean exits
(`FollowersSurviveExits`), but four sequences on disk make it happen after a restart:

* `disk_dangling`: a user is called `user_directory`, which is a valid name. Its record
  is written over `user_directory.dat`, and its name appended behind the record is no
  line of its own. It follows `u1`; after a clean exit it is not loaded, and `u1`'s list
  names its id. Whoever was listed before is forgotten, too.
* A crash (`MaxCrashes = 1` in `MCDiskDangling.cfg`, with `u2` for `user_directory`): `u1`
  registers, `u2` registers and is followed by `u1`; the process is killed while `u1`'s
  own file is truncated for an update. If `u1`'s id was the largest, it is handed out
  again.
* An open for writing that fails (`MaxFaults = 1`): the name is already in
  the directory in memory, so no later record appends it to the directory file, and
  after a clean exit the user is forgotten. (An open fails, for
  example, for a name that is not a valid file name, which `is_valid_username`
  does not rule out.)
* An open that fails during the load (`MaxReadFaults = 1`): this run does not know the
  user, whose id others list.

`DiskIsAPast` says how far the damage goes: no id, name or list that never was.

`wire_full_name`: a name of 20 characters is legal ("Username must be between four and
twenty characters long.", `client/client.cpp:43`), but `char username[20]` has no room for its
NUL. It falls into `body[0]`, the next `strcpy` writes the text over it, and the client
shows name and text together as the name. The text is sent twice, then, and with 128
characters that need escaping the message has some 640 bytes: the client's read cuts
it, the parser refuses what is left (`PartIsRefused`), and the listener thread
ends (`client/client_receiver.cpp:27`). `ShownIsSent` and `FitsBuffer` are about names whose NUL
has room (`NameHasRoom`); run `wire` has the longer ones, too.

Other limits the models show, without a run of their own:

* A SEND of 128 characters, which `is_valid_message` admits, fills `char message[128]` of the
  client; what lies behind it may be sent with it. `HeardIsCommand` says that the text
  itself arrives, and that nothing follows if there was room (`HasRoom`). On the server's side four bytes of padding take the NUL.
* A session whose Logout is lost stays for as long as the server runs. After two of these
  "too many sessions currently connected, disconnect one and try again"
  (`client/login.cpp:45`) is said to a user that has none. `SessionsInUse` lists the
  ways this comes about.
* When `getaddrinfo` fails, `fn_server_broadcast` frees a list through a pointer nothing has
  set (`server/server_broadcast.cpp:29`); the model lets this end the process or not.

## 4. Proofs

All theorems hold for every value of the constants: any sets of addresses, names and
texts, any number of datagrams, clients, lines typed, crashes and faults. What is
assumed of the constants is named in the module that declares them and evaluated by
TLC on every instance:

* `NULL` is not an address and not a name (`NullIsNoAddress`, `NullIsNoName`); valid names are names and valid texts
  are texts (`ValidNamesAreNames`, `ValidMessagesAreMessages`);
* the mark of a torn file is neither a name nor what a file can hold (`TornIsNotWhole`:
  the load tells it by its length);
* `None` is not a thread, and the constructor is given a value of the variable's type
  (`NoneIsNoThread`, `InitialIsValue`);
* the number of candidates is a number and the program is one of the two
  (`CandidatesAreSome`).

No theorem assumes anything of the names: a user may be called like the directory.

Every safety invariant, action property and refinement of a passing run has its theorem,
but for those of the wire (see below). In each case the property is not
inductive; the invariant that is, and the reason for its parts:

**`ServerProofs`** (`ServerInvariant`; from it `TypeCorrect`, `SessionsAlwaysConsistent`,
`RegistryAlwaysConsistent`, `FollowersAlwaysConsistent`, `PendingAlwaysConsistent`,
`NothingEverWaitsForConnected`; and `MsgIdsAlwaysIncrease`). `ServerInv` is the conjunction
of `TypeOK` and the five consistency invariants. No part is inductive alone:

* `TypeOK` needs `PendingConsistent`: the login loop's posts are messages because
  every drained entry names a stored notification;
* `PendingConsistent` needs `FollowersConsistent` (a follower listed twice would be
  counted twice and entered twice), `RegistryConsistent` (users are finitely many,
  so the sets of waiting users have a cardinality) and
  `NothingWaitsForConnected` (only a first login drains);
* `FollowersConsistent` needs `RegistryConsistent`: `handle_follow_command` compares
  names, and a name other than one's own is another id only because names and ids match;
* `SessionsConsistent` needs the handler's two checks before `add_session`;
* `MsgIdsIncrease` needs all of them: the sender of a message is told under an id
  taken from its own counter, its followers under ids of theirs, and the two never meet
  in one queue out of order because nobody follows itself.

The argument has three layers: facts about the operators (`PutMap`, `EraseMap`,
`TakeMsgIds`, `AddSession`, `RemoveSession`, `RegisterFacts`, `ToSessionsType`, ...);
one lemma per kind of change of a manager (`RegisterStep`, `FollowStep`,
`DrainStep`, `StoreStep`, `PendingFrame`); one lemma per handler outcome, put
together in `NextServerInv`. The two long ones are `StoreStep` (a new message is
counted once for each offline follower and entered once in each list: a bijection
between positions of the follower list and waiting users) and `DrainStep` (the count
goes down by one exactly where one user leaves the set).

**`ServerFeedProofs`** (`ServerImplementsFeed`). `FeedInv` is `ServerInv` with two more
parts, which are inductive over it: the registered names are valid ones (`NamesValid`: a name
`Feed` does not know could not be one of its members) and the author of a stored
notification is registered (`AuthorsKnown`: what waits for a user can be read back as a
post). The mapping reads ids back as names, so most of the argument is that a change of
one manager leaves what is read through the others as it was: `FollowsKept`,
`WaitingKept`, `SessionsKept`, and `Quiet` for a handler that `Feed` does not see. An answer to
a command is no post (`AnswerUnseen`, `RespondUnseen`); the posts of two queues put together
are the posts of each (`Posts`, counted by `Rank`). There is one lemma per handler outcome: refused
logins are `Register`, `LoginSuccess` is `Login`, and takes the whole of what waits (by
`PendingConsistent` every entry still has its notification, by `NothingWaitsForConnected`
a second session finds nothing); `handle_logout`, `FollowSuccess` and `SendSuccess` are
`Logout`, `Follow` and `Publish`; the drain of the queue is `Transmit`.

**`ClientServerProofs`** (`ClientServerInvariant`; `RunningAlwaysHasSession`,
`NobodyEverConfused`, `LoginAlwaysAnswered`, `SessionsAlwaysInUse`). `CSInv` adds to
`ServerInv` what every request under way says of the client that wrote it (`RequestOK`)
and, for every address (`ClientOK`): a client that has not started is unknown to the
server; a linked address speaks for the user whose name its client gave; wherever
`LoginSuccess` is, at the client, in a datagram or in the queue, the address is linked;
unless a datagram was repeated, the login or exactly one answer to it is under way, or
it has been answered; as long as nothing went wrong, a client that left and is still
linked has its Logout under way; unless a datagram was lost, something is to come for a
client that waits. The handlers enter only by what the network sees of them
(`LoginSeen`, `CommandSeen`, `LogoutSeen`: who is linked, and what is behind the old
queue), and `Bystander` settles every address a step is not about.

**`DiskProofs`** (`DiskTypesCorrect`, `DiskAlwaysAPast`, `RegistrySurvivesRestarts`,
`DiskInvariant`, `CleanExitAlwaysDurable`, `FollowersAlwaysSurviveExits`). That the disk is a past of the
memory needs the same of every record queued and drained, and of the file being listed
(`PastInv`); the load then gives a registry that is consistent again, because ids on
disk differ where names do. That a clean exit loses nothing needs that the newest record
of every user is in the queue, else in the batch, else in a file that the directory
lists (`NothingForgotten`, `NamesListed`), and that the drain after the flag was read is
the last (`LastDrain`). The first two hold of the users that are not `unwritten`, and as
long as nothing is `overwritten`: a user called `user_directory` harms nobody before its
record is written.

**`ServerThreadsProofs`** (`ThreadsInvariant`; `AlwaysHandedOverInOrder`,
`ExitNeverLosesAnything`, `AlwaysSendsOnOpenSocket`). The exit loses nothing because main
sets a flag only after its last push to that thread (`ToldAfterLastPush`), the thread
drains after it read the flag, and so finds an empty queue for good (`LastDrain`), and
main closes the socket only when it has joined (`Joined`, `SocketWhileServing`).

**`ClientProofs`** (`ClientInvariant`; `AlwaysCommandsInOrder`,
`AlwaysLogoutBeforeClose`). What is written, drained and queued is the login and what
main took (`LoginThenTaken`), numbered (`TakenNumbered`). The slot may lose a command
and cannot reorder: the line in the slot is later than those taken and the line on its way
to the slot later than both (`LinesInOrder`). The sender ends only after a Logout it has
written (`SenderEnds`).

**`AtomicsProofs`** (`AlwaysDrainsInPushOrder`; `AlwaysVarInv`,
`AtomicVarImplementsRegister`). The queue: the semaphore is 1 and nobody is inside, or 0
and one thread is (`QueueExclusion`), so what a call has read of the vector is what the
vector still is when it stores or clears (`ReadIsCurrent`).

The variables: a call is at one of 26 points, by the steps that are left of it
(`PointTable`: the next step of each and the point behind it; `...Goes`: from where to
where each step leads, and in which calls). `VarInv` says of the points

* that the writers' semaphore is 1 and nobody has the value, or 0 and only readers share
  it, or 0 and one thread has it alone or is between lock and unlock (`WriterSemaphore`);
* that at most one thread is in a section of the readers' semaphore (`ReaderSemaphore`)
  and `reader_count` is the number of the readers counted (`CountExact`); together these
  give that the reader who finds `reader_count = 1` finds no other reader that shares the
  value, and the one who leaves it at 0 leaves none (`CountedOthersShare`). The first
  waits and the last posts, and neither is the wrong one;
* that a thread is between lock and unlock exactly when its calls say so (`HoldingExact`);
* that the halves of the value are equal except for a thread between its two assignments,
  and what a thread has copied is what the halves still are (`ValueWhole`).

No part is inductive alone: `ValueWhole` needs that who copies or assigns excludes the
others, `WriterSemaphore` needs the count at the first and the last reader. The lemmas
`...Keeps` show that each action keeps `VarInv`, the lemmas `...Refines` which step of
`Register` it is: the call and the return; the effect at the second half's copy of a read
or assignment of a write (a `read_and_replace` returns what it copied, which is still
the register's value then), at lock's wait and unlock's post; all other steps stutter.

**`SocketSetupProofs`** (`AlwaysOnlyResultOpen`, `AlwaysReturnsFirstWorking`): no socket is
open between two candidates (`OneAtATime`), and those behind are those that failed.
`ReturnsFirstWorking` is the safety half of `FirstWorkingReturned`.

**Only model-checked.** Liveness (`CallsReturn` and the other leads-to properties of section
3), which is out of the prover's reach. What is about texts, in `Wire` and `JsonText`: parsing is
recursion over data, written with `RECURSIVE` operators, of which nothing can be proved here.

## 5. Plan

Everything the programs do with state is modelled, every safety property but those of the
wire is proved, and both abstract specifications are shown to be implemented. What could be
added:

1. The composition of `ClientServer` with `Client` and `ServerThreads`, whose threads are
   now abstracted in `ClientServer` to what the network sees of them.
2. The wire for every text: with a prover that can use induction over sequences, that
   `FastWriter` and `Reader` are inverse on the values the programs send.

**Not modelled.** `hashing.cpp` (a pure function; addresses are compared as values),
`client_handler.h` (declares what nothing defines), the operating system's calls beyond their
outcomes, the layout of what is printed, address reuse (a later client is given an
address of its own), and of the vendored jsoncpp what the programs do not call:
`OurReader`, the styled and stream writers, `Path`, iterators, comments kept in values,
the text of doubles. Exceptions of `asInt` on a datagram of another origin are the outcome
"failed" of `Wire` and not followed further. The repository's README names pending
tasks (replication, leader election) for which there is no code.
