--------------------------- MODULE DiskOperations ---------------------------
(***************************************************************************)
(* Persistence: DiskOperationsManagment and the disk thread                *)
(* (server/disk_operations.cpp), what the main thread queues for it        *)
(* through UserPersistence, shutdown on SIGINT (server/server.cpp), and    *)
(* the load of the next start.  The process may also crash at any point:   *)
(* what is on disk stays, what is in memory is lost.                       *)
(*                                                                         *)
(* user_directory.dat is the sequence of its lines.  A user's .dat file is *)
(* the record it holds, or Torn from the open that truncates it to the     *)
(* close that flushes the record (the load rejects a file of a wrong       *)
(* length).  The file of a user called user_directory would be the         *)
(* directory itself: it is truncated, and the record is a line without an  *)
(* end, again Torn, that spoils the name appended next.                    *)
(***************************************************************************)
EXTENDS UserPersistence, FiniteSets, SequencesExt

CONSTANTS Torn,             \* a .dat file or a line that is cut short
          DirectoryName,    \* the name "user_directory"
          MaxDiskBacklog,   \* records the disk thread may lag by
          MaxCrashes,       \* crashes in a behaviour
          MaxRestarts,      \* starts after the first one
          MaxFaults,        \* files that cannot be opened for writing
          MaxReadFaults     \* files that cannot be opened by a start

VARIABLES status,           \* "running", "stopping", "stopped" or "crashed"
          must_terminate,   \* DiskOperationsManagment::must_terminate
          usernames,        \* UserDirectory::usernames
          directory_file,   \* user_directory.dat
          user_file,        \* the .dat files, by user name
          pc,               \* where the disk thread is
          terminate_read,   \* the local must_terminate of fn_disk_io
          batch,            \* what it drained and has not written yet
          user_added,       \* the local user_added of update_user_on_disk
          crashes, restarts, faults, read_faults,
          unwritten,        \* history: the users whose file this process
                            \* could not open, or not list
          overwritten       \* history: the directory was taken for a user's
                            \* file

thread_vars == <<pc, terminate_read, batch, user_added>>

file_vars == <<directory_file, user_file, overwritten>>

bound_vars == <<crashes, restarts, faults, read_faults, unwritten>>

disk_vars == <<user_vars, status, must_terminate, usernames, file_vars,
               thread_vars, bound_vars>>

FileContent == [user_id : UserIds, followed_by : Seq(UserIds)]

\* What is cut short can be told from what is whole.
ASSUME TornIsNotWhole == Torn \notin ValidNames /\ Torn \notin FileContent

\* Every variable holds a value of its type.
DiskTypeOK ==
  /\ UserTypeOK
  /\ status \in {"running", "stopping", "stopped", "crashed"}
  /\ must_terminate \in BOOLEAN
  /\ usernames \subseteq ValidNames
  /\ directory_file \in Seq(ValidNames \cup {Torn})
  /\ IsMap(user_file, ValidNames, FileContent \cup {Torn})
  /\ pc \in {"read_flag", "drain", "next", "write", "append", "done"}
  /\ terminate_read \in BOOLEAN
  /\ batch \in Seq(UserPersistentData)
  /\ user_added \in BOOLEAN
  /\ crashes \in Nat /\ restarts \in Nat /\ faults \in Nat
  /\ read_faults \in Nat
  /\ unwritten \subseteq ValidNames
  /\ overwritten \in BOOLEAN

DiskInit ==
  /\ UserInit
  /\ status = "running"
  /\ must_terminate = FALSE
  /\ usernames = {}
  /\ directory_file = << >>
  /\ user_file = EmptyMap
  /\ pc = "read_flag"
  /\ terminate_read = FALSE
  /\ batch = << >>
  /\ user_added = FALSE
  /\ crashes = 0 /\ restarts = 0 /\ faults = 0 /\ read_faults = 0
  /\ unwritten = {} /\ overwritten = FALSE

-----------------------------------------------------------------------------
(***************************************************************************)
(* The main thread: the changes its handlers make to the registry (who is  *)
(* logged in when is the subject of ClientMessageHandler; here any user    *)
(* may follow any other), and the shutdown.                                *)
(***************************************************************************)
MainUnchanged == UNCHANGED <<status, must_terminate, usernames, file_vars,
                             thread_vars, bound_vars>>

MainRegister(name) ==
  /\ status = "running"
  /\ Len(user_data_update_queue) <= MaxDiskBacklog
  /\ Registers(name)
  /\ add_or_update_user(name)
  /\ id_to_user' = registered(name)
  /\ MainUnchanged

MainFollow(followed, follower) ==
  /\ status = "running"
  /\ Len(user_data_update_queue) <= MaxDiskBacklog
  /\ followed # follower
  /\ add_follow(followed, follower)
  /\ MainUnchanged

\* SIGINT seen at the top of the main loop, then the clean-up block.
MainShutdown ==
  /\ status = "running"
  /\ status' = "stopping"
  /\ must_terminate' = TRUE
  /\ UNCHANGED <<user_vars, usernames, file_vars, thread_vars, bound_vars>>

\* The join of the disk thread returns and the process exits.
MainExit ==
  /\ status = "stopping"
  /\ pc = "done"
  /\ status' = "stopped"
  /\ UNCHANGED <<user_vars, must_terminate, usernames, file_vars, thread_vars,
                 bound_vars>>

-----------------------------------------------------------------------------
(***************************************************************************)
(* The disk thread, fn_disk_io and update_user_on_disk.                    *)
(***************************************************************************)
Alive == status \in {"running", "stopping"}

DiskReadFlag ==
  /\ Alive /\ pc = "read_flag"
  /\ terminate_read' = must_terminate
  /\ pc' = "drain"
  /\ UNCHANGED <<user_vars, status, must_terminate, usernames, file_vars,
                 batch, user_added, bound_vars>>

DiskDrain ==
  /\ Alive /\ pc = "drain"
  /\ batch' = user_data_update_queue
  /\ user_data_update_queue' = << >>
  /\ pc' = "next"
  /\ UNCHANGED <<last_user_id, username_to_id, id_to_user, status,
                 must_terminate, usernames, file_vars, terminate_read,
                 user_added, bound_vars>>

\* Mutant: the flag is tested as it is now, not as it was before the drain.
DiskBatchDone_rereads ==
  /\ Alive /\ pc = "next"
  /\ batch = << >>
  /\ pc' = IF must_terminate THEN "done" ELSE "read_flag"
  /\ UNCHANGED <<user_vars, status, must_terminate, usernames, file_vars,
                 terminate_read, batch, user_added, bound_vars>>

\* Mutant: the loop never ends.
DiskBatchDone_never ==
  /\ Alive /\ pc = "next"
  /\ batch = << >>
  /\ pc' = "read_flag"
  /\ UNCHANGED <<user_vars, status, must_terminate, usernames, file_vars,
                 terminate_read, batch, user_added, bound_vars>>

DiskBatchDone ==
  /\ Alive /\ pc = "next"
  /\ batch = << >>
  /\ pc' = IF terminate_read THEN "done" ELSE "read_flag"
  /\ UNCHANGED <<user_vars, status, must_terminate, usernames, file_vars,
                 terminate_read, batch, user_added, bound_vars>>

\* ./server_data/<name>.dat is given a content: the lines if it is the
\* directory, the record if it is not.
WriteFile(name, lines, record) ==
  IF name = DirectoryName
    THEN /\ directory_file' = lines
         /\ overwritten' = TRUE
         /\ UNCHANGED user_file
    ELSE /\ user_file' = Put(user_file, name, record)
         /\ UNCHANGED <<directory_file, overwritten>>

\* The name joins the directory in memory, and its file is truncated.
DiskOpen ==
  /\ Alive /\ pc = "next"
  /\ batch # << >>
  /\ user_added' = (Head(batch).username \notin usernames)
  /\ usernames' = usernames \cup {Head(batch).username}
  /\ WriteFile(Head(batch).username, << >>, Torn)
  /\ pc' = "write"
  /\ UNCHANGED <<user_vars, status, must_terminate, terminate_read, batch,
                 bound_vars>>

\* The file cannot be opened: the record is given up.
DiskOpenFails ==
  /\ Alive /\ pc = "next"
  /\ batch # << >>
  /\ faults < MaxFaults
  /\ faults' = faults + 1
  /\ unwritten' = unwritten \cup {Head(batch).username}
  /\ user_added' = (Head(batch).username \notin usernames)
  /\ usernames' = usernames \cup {Head(batch).username}
  /\ batch' = Tail(batch)
  /\ UNCHANGED <<user_vars, status, must_terminate, file_vars, pc,
                 terminate_read, crashes, restarts, read_faults>>

Record(data) == [user_id |-> data.user_id, followed_by |-> data.followed_by]

\* Mutant: the name is never appended to the directory.
DiskWrite_only ==
  /\ Alive /\ pc = "write"
  /\ WriteFile(Head(batch).username, <<Torn>>, Record(Head(batch)))
  /\ pc' = "next"
  /\ batch' = Tail(batch)
  /\ UNCHANGED <<user_vars, status, must_terminate, usernames, terminate_read,
                 user_added, bound_vars>>

DiskWrite ==
  /\ Alive /\ pc = "write"
  /\ WriteFile(Head(batch).username, <<Torn>>, Record(Head(batch)))
  /\ IF user_added
       THEN pc' = "append" /\ UNCHANGED batch
       ELSE pc' = "next" /\ batch' = Tail(batch)
  /\ UNCHANGED <<user_vars, status, must_terminate, usernames, terminate_read,
                 user_added, bound_vars>>

DiskAppend ==
  /\ Alive /\ pc = "append"
  /\ directory_file' =
       IF directory_file # << >> /\ Last(directory_file) = Torn
         THEN Front(directory_file)
         ELSE Append(directory_file, Head(batch).username)
  /\ batch' = Tail(batch)
  /\ pc' = "next"
  /\ UNCHANGED <<user_vars, status, must_terminate, usernames, user_file,
                 overwritten, terminate_read, user_added, bound_vars>>

DiskAppendFails ==
  /\ Alive /\ pc = "append"
  /\ faults < MaxFaults
  /\ faults' = faults + 1
  /\ unwritten' = unwritten \cup {Head(batch).username}
  /\ batch' = Tail(batch)
  /\ pc' = "next"
  /\ UNCHANGED <<user_vars, status, must_terminate, usernames, file_vars,
                 terminate_read, user_added, crashes, restarts, read_faults>>

-----------------------------------------------------------------------------
Crash ==
  /\ Alive
  /\ crashes < MaxCrashes
  /\ crashes' = crashes + 1
  /\ status' = "crashed"
  /\ UNCHANGED <<user_vars, must_terminate, usernames, file_vars, thread_vars,
                 restarts, faults, read_faults, unwritten>>

(***************************************************************************)
(* load_and_update_persistent_data and UserPersistence's constructor: the  *)
(* users listed in the directory whose file opens and has the right        *)
(* length, and the largest id among them to count on from.  A file that    *)
(* does not open is skipped; if it is the directory, nothing is loaded.    *)
(***************************************************************************)
listed_names == {name \in Range(directory_file) : is_valid_username(name)}

\* The users a start finds when every file opens.
loaded_names == {name \in listed_names : /\ name \in DOMAIN user_file
                                         /\ user_file[name] # Torn}

loaded_ids(names) == {user_file[name].user_id : name \in names}

\* Mutant: ids go on from the number of users loaded.
biggest_user_id_count(names) == Cardinality(names)

biggest_user_id(names) ==
  IF names = {} THEN INVALID_USER_ID
                ELSE CHOOSE u \in loaded_ids(names) :
                       \A v \in loaded_ids(names) : v <= u

\* Mutant: the constructor without the follower list is used.
loaded_user_alone(names, u) ==
  [username |-> CHOOSE n \in names : user_file[n].user_id = u,
   followed_by |-> << >>, pending_notifications |-> << >>]

\* The user a loaded id stands for: the last one listed with this id.
loaded_user(names, u) ==
  LET lines == {i \in DOMAIN directory_file :
                  /\ directory_file[i] \in names
                  /\ user_file[directory_file[i]].user_id = u}
      name  == directory_file[CHOOSE i \in lines : \A j \in lines : j <= i]
  IN  [username |-> name, followed_by |-> user_file[name].followed_by,
       pending_notifications |-> << >>]

\* What the load leaves in memory: the users in "names", and "listed".
Load(names, listed) ==
  /\ username_to_id' = [name \in names |-> user_file[name].user_id]
  /\ id_to_user' = [u \in loaded_ids(names) |-> loaded_user(names, u)]
  /\ last_user_id' = biggest_user_id(names)
  /\ usernames' = listed

Restart ==
  /\ ~Alive
  /\ restarts < MaxRestarts
  /\ restarts' = restarts + 1
  /\ status' = "running"
  /\ \/ Load(loaded_names, listed_names) /\ UNCHANGED read_faults
     \/ /\ read_faults < MaxReadFaults
        /\ read_faults' = read_faults + 1
        /\ \/ Load({}, {})
           \/ \E name \in loaded_names : Load(loaded_names \ {name}, listed_names)
  /\ user_data_update_queue' = << >>
  /\ must_terminate' = FALSE
  /\ pc' = "read_flag"
  /\ terminate_read' = FALSE
  /\ batch' = << >>
  /\ user_added' = FALSE
  /\ unwritten' = {}
  /\ UNCHANGED <<file_vars, crashes, faults>>

-----------------------------------------------------------------------------
MainStep ==
  \/ \E name \in ValidNames : MainRegister(name)
  \/ \E followed, follower \in DOMAIN id_to_user : MainFollow(followed, follower)
  \/ MainShutdown
  \/ MainExit

DiskThread ==
  \/ DiskReadFlag
  \/ DiskDrain
  \/ DiskBatchDone
  \/ DiskOpen
  \/ DiskOpenFails
  \/ DiskWrite
  \/ DiskAppend
  \/ DiskAppendFails

DiskNext == MainStep \/ DiskThread \/ Crash \/ Restart

DiskSpec == DiskInit /\ [][DiskNext]_disk_vars

\* The threads run: the disk thread never blocks except on a semaphore held
\* for a copy, and the main thread reaches its join.
FairDiskSpec == DiskSpec /\ WF_disk_vars(DiskThread) /\ WF_disk_vars(MainExit)
-----------------------------------------------------------------------------
(***************************************************************************)
(* What a start would load is always a past of what the server knows: each *)
(* user it would load is registered under the same id, with followers that *)
(* are the first ones of the list in memory.  So a crash at any point, and *)
(* any file that could not be written, can lose the latest changes but     *)
(* never bring back an id, a user or a list that never was.  (A start that *)
(* could not open a file does not know that user, which is on disk.)       *)
(***************************************************************************)
DiskIsAPast ==
  read_faults = 0 =>
    \A name \in loaded_names :
      /\ name \in DOMAIN username_to_id
      /\ user_file[name].user_id = username_to_id[name]
      /\ IsPrefix(user_file[name].followed_by,
                  id_to_user[username_to_id[name]].followed_by)

(***************************************************************************)
(* A clean exit loses nothing but the users whose own file could not be    *)
(* opened or listed: when the process has stopped after SIGINT, the next   *)
(* start loads every other user with its id and all its followers,         *)
(* whatever earlier runs left behind when they crashed.  The disk thread   *)
(* reads must_terminate before it drains, so whatever the main thread      *)
(* queued before it set the flag is in the last batch.  Not so once the    *)
(* record of a user called user_directory has been written over the        *)
(* directory, and for a start that could not open a file.                  *)
(***************************************************************************)
Saved(name) ==
  /\ name \in loaded_names
  /\ user_file[name].user_id = username_to_id[name]
  /\ user_file[name].followed_by =
       id_to_user[username_to_id[name]].followed_by

CleanExitDurable ==
  status = "stopped" /\ read_faults = 0 /\ ~overwritten =>
    /\ loaded_names \subseteq DOMAIN username_to_id
    /\ \A name \in DOMAIN username_to_id \ unwritten : Saved(name)

(***************************************************************************)
(* "Sanity check, this shouldn't happen." (notification.cpp): a follower   *)
(* list names only registered users.                                       *)
(***************************************************************************)
FollowersRegistered ==
  \A u \in DOMAIN id_to_user :
    \A i \in DOMAIN id_to_user[u].followed_by :
      user_id_exists(id_to_user[u].followed_by[i])

\* As long as no open has failed, no record was written over the directory and
\* the process did not crash, it is as the comment says, also after restarts: a
\* user's own record goes to the disk before any list that names it.
NoOpenFailed == faults = 0 /\ read_faults = 0

FollowersSurviveExits ==
  crashes = 0 /\ NoOpenFailed /\ ~overwritten => FollowersRegistered

\* SIGINT ends the process: once the clean-up has begun, the join of the
\* disk thread returns (unless the process crashes first).
ShutdownCompletes == status = "stopping" ~> status \in {"stopped", "crashed"}

\* A registered user reaches the disk: some later start would load it.  Or the
\* process ended before, its own file could not be opened or listed, or the
\* directory was written over.
UsersReachDisk ==
  \A name \in ValidNames :
    name \in DOMAIN username_to_id ~>
      (name \in loaded_names \/ ~Alive \/ name \in unwritten \/ overwritten)
=============================================================================
