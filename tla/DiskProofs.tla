----------------------------- MODULE DiskProofs -----------------------------
(***************************************************************************)
(* Proofs about persistence, for any set of users, any number of crashes,  *)
(* restarts and files that do not open, and any lag of the disk thread:    *)
(* what is on disk is always a past of what is in memory, a clean exit     *)
(* loses nothing but users whose own file did not open, and the registry   *)
(* stays sound across restarts.                                            *)
(*                                                                         *)
(* A user may be called user_directory, whose file would be the directory  *)
(* itself.  What is only true until its record is written over the         *)
(* directory says so (run disk_dangling shows why).                        *)
(***************************************************************************)
EXTENDS DiskOperations, WellFoundedInduction, TLAPS

queued == user_data_update_queue

ValidData == {d \in UserPersistentData : d.username \in ValidNames}

\* Types, and what they need to be inductive: only users with valid names are
\* registered or written, ids on disk have a bound, a record is at hand where
\* one is being written, the directory is not a user's file.
TypesOK ==
  /\ DiskTypeOK
  /\ DOMAIN username_to_id \subseteq ValidNames
  /\ \A u \in DOMAIN id_to_user : id_to_user[u].username \in ValidNames
  /\ queued \in Seq(ValidData) /\ batch \in Seq(ValidData)
  /\ pc \in {"write", "append"} => batch # << >>
  /\ DirectoryName \notin DOMAIN user_file
  /\ \E b \in Nat : \A name \in DOMAIN user_file :
       user_file[name] # Torn => user_file[name].user_id <= b

\* A record that the memory has grown out of: the same user with the same id,
\* and the first of the followers it has now.
PastIn(d, ids, users) ==
  /\ d.username \in DOMAIN ids
  /\ ids[d.username] = d.user_id
  /\ IsPrefix(d.followed_by, users[ids[d.username]].followed_by)

AllPast(records, ids, users) ==
  \A i \in DOMAIN records : PastIn(records[i], ids, users)

\* What is queued and what is drained.
QueuesPast == /\ AllPast(queued, username_to_id, id_to_user)
              /\ AllPast(batch, username_to_id, id_to_user)

\* The file of the record at hand holds it.
HeadWritten ==
  Head(batch).username # DirectoryName =>
    /\ Head(batch).username \in DOMAIN user_file
    /\ user_file[Head(batch).username] = Record(Head(batch))

\* What is queued, drained or on disk is a past of the memory, and so is the
\* file whose name is about to be listed.
PastInv ==
  read_faults = 0 =>
    /\ RegistryConsistent
    /\ QueuesPast
    /\ DiskIsAPast
    /\ pc = "append" => HeadWritten

\* The names in memory are listed on disk, but for the one being added and
\* those whose file could not be opened or listed.
Adding == IF pc \in {"write", "append"} /\ user_added
            THEN {Head(batch).username} ELSE {}

NamesListed ==
  /\ pc \in {"write", "append"} => Head(batch).username \in usernames
  /\ pc = "append" => user_added
  /\ faults = 0 => unwritten = {}
  /\ ~overwritten =>
       /\ directory_file \in Seq(ValidNames)
       /\ usernames \ (Adding \cup unwritten) \subseteq listed_names
       /\ pc \in {"write", "append"} => Head(batch).username # DirectoryName

\* The last record of a user in a queue has these followers.
Newest(records, name, followers) ==
  \E i \in DOMAIN records :
    /\ records[i].username = name
    /\ records[i].followed_by = followers
    /\ \A j \in DOMAIN records : j > i => records[j].username # name

Absent(records, name) == \A i \in DOMAIN records : records[i].username # name

\* With these queued and drained records and these files, a user's followers
\* are on their way to the disk, or there.
Kept(waiting, drained, loadable, files, name, followers) ==
  \/ Newest(waiting, name, followers)
  \/ Absent(waiting, name) /\ Newest(drained, name, followers)
  \/ /\ Absent(waiting, name) /\ Absent(drained, name)
     /\ name \in loadable /\ files[name].followed_by = followers

NothingForgotten ==
  read_faults = 0 /\ ~overwritten =>
    \A name \in DOMAIN username_to_id \ unwritten :
      Kept(queued, batch, loaded_names, user_file, name,
           id_to_user[username_to_id[name]].followed_by)

\* The disk thread ends only after a drain that followed the last push.
LastDrain ==
  /\ must_terminate => status # "running"
  /\ terminate_read => must_terminate
  /\ terminate_read /\ pc \notin {"read_flag", "drain"} => queued = << >>
  /\ pc \in {"read_flag", "drain", "done"} => batch = << >>
  /\ pc = "done" => terminate_read
  /\ status = "stopped" => pc = "done"
  /\ status = "crashed" => crashes > 0

\* What is on disk is a past of the memory.
PastIInv == TypesOK /\ PastInv

\* And, until the directory is written over, a complete one in the end.
IInv == PastIInv /\ NamesListed /\ NothingForgotten /\ LastDrain
          /\ FollowersSurviveExits

-----------------------------------------------------------------------------
\* A set of numbers that has an element and a bound has a largest element.
LEMMA LargestExists ==
  ASSUME NEW S \in SUBSET Nat, S # {}, NEW b \in Nat, \A x \in S : x <= b
  PROVE  \E u \in S : \A v \in S : v <= u
<1> DEFINE T == {n \in Nat : b - n \in S}
<1>1. T \subseteq Nat /\ T # {}
  <2>1. PICK x : x \in S
    OBVIOUS
  <2>2. x \in Nat /\ x <= b
    BY <2>1
  <2>3. b - x \in Nat /\ b - (b - x) = x
    BY <2>2
  <2>4. b - x \in T
    BY <2>1, <2>3
  <2>5. QED
    BY <2>4
<1>2. \E t \in T : \A s \in T : ~ (<<s, t>> \in OpToRel(<, Nat))
  <2> HIDE DEF T
  <2>1. QED
    BY <1>1, WFMin, NatLessThanWellFounded
<1>3. PICK t \in T : \A s \in T : ~ (<<s, t>> \in OpToRel(<, Nat))
  BY <1>2
<1>4. \A s \in Nat : s < t => <<s, t>> \in OpToRel(<, Nat)
  BY <1>3 DEF OpToRel
<1>5. ASSUME NEW s \in T PROVE t <= s
  <2>1. s \in Nat /\ t \in Nat
    BY <1>3
  <2>2. ~ (s < t)
    BY <1>3, <1>4, <2>1
  <2>3. QED
    BY <2>1, <2>2
<1>6. ASSUME NEW v \in S PROVE v <= b - t
  <2>1. v \in Nat /\ v <= b /\ b - v \in Nat /\ b - (b - v) = v
    OBVIOUS
  <2>2. t <= b - v
    <3>1. b - v \in T
      BY <2>1
    <3>2. QED
      BY <1>5, <3>1
  <2>3. t \in Nat
    BY <1>3
  <2>4. QED
    BY <2>1, <2>2, <2>3
<1>7. QED
  BY <1>3, <1>6

\* The prefixes of a list.
LEMMA PrefixOfItself ==
  ASSUME NEW S, NEW s \in Seq(S)
  PROVE  IsPrefix(s, s)
BY DEF IsPrefix

\* A prefix stays one when the sequence goes on.
LEMMA PrefixOfAppend ==
  ASSUME NEW S, NEW s \in Seq(S), NEW t \in Seq(S), NEW e \in S, IsPrefix(s, t)
  PROVE  IsPrefix(s, Append(t, e))
<1>1. /\ Len(s) \in Nat /\ Len(t) \in Nat /\ Len(s) <= Len(t)
      /\ SubSeq(s, 1, Len(s)) = SubSeq(t, 1, Len(s))
  BY DEF IsPrefix
<1>2. SubSeq(Append(t, e), 1, Len(s)) = SubSeq(t, 1, Len(s))
  BY <1>1
<1>3. QED
  BY <1>1, <1>2 DEF IsPrefix

\* What is in a list that has been appended to.
LEMMA AppendElements ==
  ASSUME NEW S, NEW s \in Seq(S), NEW e \in S
  PROVE  \A i \in DOMAIN Append(s, e) :
           Append(s, e)[i] = e \/ (i \in DOMAIN s /\ Append(s, e)[i] = s[i])
OBVIOUS

-----------------------------------------------------------------------------
(***************************************************************************)
(* The types.                                                              *)
(***************************************************************************)

\* A record made of a user is one the disk thread can be given.
LEMMA ValidDataRecord ==
  ASSUME NEW u \in UserIds, NEW name \in ValidNames, NEW f \in Seq(UserIds)
  PROVE  [user_id |-> u, username |-> name, followed_by |-> f] \in ValidData
BY ValidNamesAreNames DEF ValidData, UserPersistentData

\* Valid records are records.
LEMMA ValidDataSeq ==
  ASSUME NEW s \in Seq(ValidData)
  PROVE  s \in Seq(UserPersistentData)
<1>1. ValidData \subseteq UserPersistentData
  BY DEF ValidData
<1>2. QED
  BY <1>1

\* Registering a user.
LEMMA RegisterTypes ==
  ASSUME TypesOK, NEW name \in ValidNames, MainRegister(name)
  PROVE  TypesOK'
<1> DEFINE u == last_user_id + 1
           new == [username |-> name, followed_by |-> << >>,
                   pending_notifications |-> << >>]
           rec == [user_id |-> u, username |-> name, followed_by |-> << >>]
<1>1. /\ last_user_id' = u
      /\ username_to_id' = Put(username_to_id, name, u)
      /\ queued' = Append(queued, rec)
      /\ id_to_user' = Put(id_to_user, u, new)
      /\ MainUnchanged
  BY DEF MainRegister, add_or_update_user, registered, next_user_id, queued
<1>2. u \in UserIds /\ u \in Nat
  BY DEF TypesOK, DiskTypeOK, UserTypeOK, UserIds, INVALID_USER_ID
<1>3. new \in UserData /\ name \in Names
  BY ValidNamesAreNames DEF UserData
<1>4. rec \in ValidData
  <2>1. << >> \in Seq(UserIds)
    OBVIOUS
  <2>2. QED
    BY <1>2, <2>1, ValidNamesAreNames DEF ValidData, UserPersistentData
<1>5. new.username = name
  OBVIOUS
<1> HIDE DEF u, new, rec
<1>6. /\ IsMap(username_to_id', Names, UserIds)
      /\ DOMAIN username_to_id' = DOMAIN username_to_id \cup {name}
  <2>1. IsMap(username_to_id, Names, UserIds)
    BY DEF TypesOK, DiskTypeOK, UserTypeOK
  <2>2. username_to_id' = Put(username_to_id, name, u)
    BY <1>1
  <2>3. QED
    BY <1>2, <1>3, <2>1, <2>2 DEF IsMap, Put
<1>7. /\ IsMap(id_to_user', UserIds, UserData)
      /\ DOMAIN id_to_user' = DOMAIN id_to_user \cup {u}
      /\ id_to_user'[u] = new
      /\ \A x \in DOMAIN id_to_user : x # u => id_to_user'[x] = id_to_user[x]
  <2>1. IsMap(id_to_user, UserIds, UserData)
    BY DEF TypesOK, DiskTypeOK, UserTypeOK
  <2>2. id_to_user' = Put(id_to_user, u, new)
    BY <1>1
  <2>3. QED
    BY <1>2, <1>3, <2>1, <2>2 DEF IsMap, Put
<1>8. queued' \in Seq(ValidData)
  BY <1>1, <1>4 DEF TypesOK
<1>9. UserTypeOK'
  BY <1>1, <1>2, <1>6, <1>7, <1>8, ValidDataSeq DEF UserTypeOK, queued
<1>10. \A v \in DOMAIN id_to_user' : id_to_user'[v].username \in ValidNames
  BY <1>5, <1>7 DEF TypesOK
<1>11. UNCHANGED <<status, must_terminate, usernames, file_vars, thread_vars,
                   bound_vars>>
  BY <1>1 DEF MainUnchanged
<1>12. DiskTypeOK'
  BY <1>9, <1>11 DEF TypesOK, DiskTypeOK, file_vars, thread_vars, bound_vars
<1>13. QED
  BY <1>6, <1>8, <1>10, <1>11, <1>12
     DEF TypesOK, file_vars, thread_vars, bound_vars

\* Following a user.
LEMMA FollowTypes ==
  ASSUME TypesOK, NEW followed \in DOMAIN id_to_user,
         NEW follower \in DOMAIN id_to_user, MainFollow(followed, follower)
  PROVE  TypesOK'
<1> DEFINE old == id_to_user[followed]
           f   == Append(old.followed_by, follower)
           rec == [user_id |-> followed, username |-> old.username,
                   followed_by |-> f]
<1>1. /\ followed \in UserIds /\ follower \in UserIds
      /\ old \in UserData /\ old.username \in ValidNames
      /\ IsMap(id_to_user, UserIds, UserData)
  BY DEF TypesOK, DiskTypeOK, UserTypeOK, IsMap
<1>2. f \in Seq(UserIds) /\ old.username \in Names
  BY <1>1 DEF UserData
<1>3. MainUnchanged /\ UNCHANGED <<last_user_id, username_to_id>>
  BY DEF MainFollow, add_follow
<1>4. CASE already_follows(followed, follower)
  <2>1. UNCHANGED <<id_to_user, queued>>
    BY <1>4 DEF MainFollow, add_follow, add_followed_by, user_id_exists, queued
  <2>2. QED
    BY <1>3, <2>1 DEF TypesOK, DiskTypeOK, UserTypeOK, MainUnchanged, file_vars,
       thread_vars, bound_vars, queued
<1>5. CASE ~already_follows(followed, follower)
  <2>1. /\ id_to_user' = [id_to_user EXCEPT ![followed].followed_by = f]
        /\ queued' = Append(queued, rec)
    BY <1>5 DEF MainFollow, add_follow, add_followed_by, user_id_exists, queued
  <2>2. rec \in ValidData
    BY <1>1, <1>2, ValidDataRecord
  <2>3. [old EXCEPT !.followed_by = f] \in UserData
    BY <1>1, <1>2 DEF UserData
  <2>4. /\ DOMAIN id_to_user' = DOMAIN id_to_user
        /\ id_to_user'[followed] = [old EXCEPT !.followed_by = f]
        /\ \A v \in DOMAIN id_to_user :
             v # followed => id_to_user'[v] = id_to_user[v]
        /\ id_to_user' \in [DOMAIN id_to_user -> UserData]
    BY <1>1, <2>1, <2>3 DEF IsMap
  <2>5. [old EXCEPT !.followed_by = f].username = old.username
    BY <1>1 DEF UserData
  <2> HIDE DEF rec, f, old
  <2>6. IsMap(id_to_user', UserIds, UserData)
    BY <1>1, <2>4 DEF IsMap
  <2>7. queued' \in Seq(ValidData)
    BY <2>1, <2>2 DEF TypesOK
  <2>8. UserTypeOK'
    BY <1>3, <2>6, <2>7, ValidDataSeq DEF TypesOK, DiskTypeOK, UserTypeOK, queued
  <2>9. \A v \in DOMAIN id_to_user' : id_to_user'[v].username \in ValidNames
    BY <1>1, <2>4, <2>5 DEF TypesOK, old
  <2>10. DiskTypeOK'
    BY <1>3, <2>8 DEF TypesOK, DiskTypeOK, MainUnchanged, file_vars,
       thread_vars, bound_vars
  <2>11. QED
    BY <1>3, <2>7, <2>9, <2>10 DEF TypesOK, MainUnchanged, file_vars,
       thread_vars, bound_vars
<1>6. QED
  BY <1>4, <1>5

\* What a write does to the files.
FilesOK ==
  /\ overwritten \in BOOLEAN
  /\ directory_file \in Seq(ValidNames \cup {Torn})
  /\ IsMap(user_file, ValidNames, FileContent \cup {Torn})
  /\ DirectoryName \notin DOMAIN user_file
  /\ \E b \in Nat : \A name \in DOMAIN user_file :
       user_file[name] # Torn => user_file[name].user_id <= b

\* The directory's lines are given to the directory and a record to any other
\* file.
LEMMA WriteFileTypes ==
  ASSUME TypesOK, NEW name \in ValidNames,
         NEW lines \in Seq(ValidNames \cup {Torn}),
         NEW record \in FileContent \cup {Torn},
         WriteFile(name, lines, record)
  PROVE  FilesOK'
<1>1. CASE name = DirectoryName
  BY <1>1 DEF WriteFile, TypesOK, DiskTypeOK, FilesOK
<1>2. CASE name # DirectoryName
  <2>1. /\ user_file' = Put(user_file, name, record)
        /\ directory_file' = directory_file /\ overwritten' = overwritten
    BY <1>2 DEF WriteFile
  <2>2. /\ IsMap(user_file', ValidNames, FileContent \cup {Torn})
        /\ DOMAIN user_file' = DOMAIN user_file \cup {name}
        /\ user_file'[name] = record
        /\ \A x \in DOMAIN user_file : x # name => user_file'[x] = user_file[x]
    <3>1. IsMap(user_file, ValidNames, FileContent \cup {Torn})
      BY DEF TypesOK, DiskTypeOK
    <3>2. user_file' = Put(user_file, name, record)
      BY <2>1
    <3>3. QED
      BY <3>1, <3>2 DEF IsMap, Put
  <2>3. PICK b \in Nat : \A x \in DOMAIN user_file :
          user_file[x] # Torn => user_file[x].user_id <= b
    BY DEF TypesOK
  <2>4. IsMap(user_file, ValidNames, FileContent \cup {Torn})
    BY DEF TypesOK, DiskTypeOK
  <2>5. \A x \in DOMAIN user_file :
          user_file[x] # Torn => user_file[x].user_id \in Nat
    BY <2>4 DEF IsMap, FileContent, UserIds
  <2>6. \E c \in Nat : \A x \in DOMAIN user_file' :
          user_file'[x] # Torn => user_file'[x].user_id <= c
    <3>1. CASE record = Torn
      <4>1. \A x \in DOMAIN user_file' :
              user_file'[x] # Torn => user_file'[x].user_id <= b
        BY <2>2, <2>3, <3>1
      <4>2. QED
        BY <4>1
    <3>2. CASE record # Torn
      <4> DEFINE n == record.user_id
      <4>1. n \in Nat
        BY <3>2 DEF FileContent, UserIds
      <4>2. \A x \in DOMAIN user_file' :
              user_file'[x] # Torn => user_file'[x].user_id <= b + n
        <5> SUFFICES ASSUME NEW x \in DOMAIN user_file', user_file'[x] # Torn
                     PROVE  user_file'[x].user_id <= b + n
          OBVIOUS
        <5>1. CASE x = name
          <6>1. user_file'[x].user_id = n
            BY <2>2, <5>1
          <6>2. QED
            BY <4>1, <6>1
        <5>2. CASE x # name
          <6>1. /\ x \in DOMAIN user_file
                /\ user_file'[x] = user_file[x]
            BY <2>2, <5>2
          <6>2. user_file[x].user_id <= b /\ user_file[x].user_id \in Nat
            BY <2>3, <2>5, <6>1
          <6>3. QED
            BY <4>1, <6>1, <6>2
        <5>3. QED
          BY <5>1, <5>2
      <4>3. b + n \in Nat
        BY <4>1
      <4>4. QED
        BY <4>2, <4>3
    <3>3. QED
      BY <3>1, <3>2
  <2>7. QED
    BY <1>2, <2>1, <2>2, <2>6 DEF TypesOK, DiskTypeOK, FilesOK
<1>3. QED
  BY <1>1, <1>2

\* The record at hand.
LEMMA HeadTypes ==
  ASSUME TypesOK, batch # << >>
  PROVE  /\ Head(batch) \in ValidData
         /\ Head(batch).username \in ValidNames
         /\ Record(Head(batch)) \in FileContent
         /\ Tail(batch) \in Seq(ValidData)
<1>1. batch \in Seq(ValidData)
  BY DEF TypesOK
<1>2. Head(batch) \in ValidData /\ Tail(batch) \in Seq(ValidData)
  BY <1>1
<1>3. QED
  BY <1>2 DEF ValidData, UserPersistentData, Record, FileContent

\* The disk thread.
LEMMA DiskThreadTypes ==
  ASSUME TypesOK, DiskThread
  PROVE  TypesOK'
<1> USE DEF file_vars, thread_vars, bound_vars, user_vars
<1>1. CASE DiskReadFlag
  BY <1>1 DEF DiskReadFlag, TypesOK, DiskTypeOK, UserTypeOK, queued
<1>2. CASE DiskDrain
  <2>1. << >> \in Seq(ValidData) /\ << >> \in Seq(UserPersistentData)
    OBVIOUS
  <2>2. UserTypeOK'
    BY <1>2, <2>1 DEF DiskDrain, TypesOK, DiskTypeOK, UserTypeOK
  <2>3. batch' \in Seq(ValidData) /\ batch' \in Seq(UserPersistentData)
    BY <1>2, ValidDataSeq DEF DiskDrain, TypesOK, queued
  <2>4. DiskTypeOK'
    BY <1>2, <2>2, <2>3 DEF DiskDrain, TypesOK, DiskTypeOK
  <2>5. QED
    BY <1>2, <2>1, <2>3, <2>4 DEF DiskDrain, TypesOK, queued
<1>3. CASE DiskBatchDone
  BY <1>3 DEF DiskBatchDone, TypesOK, DiskTypeOK, UserTypeOK, queued
<1>4. CASE DiskOpen
  <2>1. Head(batch).username \in ValidNames
    BY <1>4, HeadTypes DEF DiskOpen
  <2>2. << >> \in Seq(ValidNames \cup {Torn})
    OBVIOUS
  <2>3. FilesOK'
    BY <1>4, <2>1, <2>2, WriteFileTypes DEF DiskOpen
  <2>4. DiskTypeOK'
    BY <1>4, <2>1, <2>3 DEF DiskOpen, TypesOK, DiskTypeOK, UserTypeOK, FilesOK
  <2>5. QED
    BY <1>4, <2>3, <2>4 DEF DiskOpen, TypesOK, FilesOK, queued
<1>5. CASE DiskOpenFails
  <2>1. Head(batch).username \in ValidNames /\ Tail(batch) \in Seq(ValidData)
    BY <1>5, HeadTypes DEF DiskOpenFails
  <2>2. Tail(batch) \in Seq(UserPersistentData)
    BY <2>1, ValidDataSeq
  <2>3. DiskTypeOK'
    BY <1>5, <2>1, <2>2 DEF DiskOpenFails, TypesOK, DiskTypeOK, UserTypeOK
  <2>4. QED
    BY <1>5, <2>1, <2>3 DEF DiskOpenFails, TypesOK, queued
<1>6. CASE DiskWrite
  <2>1. batch # << >>
    BY <1>6 DEF DiskWrite, TypesOK
  <2>2. /\ Head(batch).username \in ValidNames
        /\ Record(Head(batch)) \in FileContent
        /\ Tail(batch) \in Seq(ValidData)
    BY <2>1, HeadTypes
  <2>3. <<Torn>> \in Seq(ValidNames \cup {Torn})
    OBVIOUS
  <2>4. FilesOK'
    BY <1>6, <2>2, <2>3, WriteFileTypes DEF DiskWrite
  <2>5. batch' \in Seq(ValidData) /\ batch' \in Seq(UserPersistentData)
    BY <1>6, <2>2, ValidDataSeq DEF DiskWrite, TypesOK
  <2>6. DiskTypeOK'
    BY <1>6, <2>4, <2>5 DEF DiskWrite, TypesOK, DiskTypeOK, UserTypeOK, FilesOK
  <2>7. QED
    BY <1>6, <2>1, <2>4, <2>5, <2>6 DEF DiskWrite, TypesOK, FilesOK, queued
<1>7. CASE DiskAppend
  <2>1. batch # << >>
    BY <1>7 DEF DiskAppend, TypesOK
  <2>2. Head(batch).username \in ValidNames /\ Tail(batch) \in Seq(ValidData)
    BY <2>1, HeadTypes
  <2>3. Tail(batch) \in Seq(UserPersistentData)
    BY <2>2, ValidDataSeq
  <2>4. directory_file \in Seq(ValidNames \cup {Torn})
    BY DEF TypesOK, DiskTypeOK
  <2>5. directory_file' \in Seq(ValidNames \cup {Torn})
    <3>1. Append(directory_file, Head(batch).username)
            \in Seq(ValidNames \cup {Torn})
      BY <2>2, <2>4
    <3>2. directory_file # << >> =>
            Front(directory_file) \in Seq(ValidNames \cup {Torn})
      BY <2>4 DEF Front
    <3>3. QED
      BY <1>7, <3>1, <3>2 DEF DiskAppend
  <2>6. DiskTypeOK'
    BY <1>7, <2>3, <2>5 DEF DiskAppend, TypesOK, DiskTypeOK, UserTypeOK
  <2>7. QED
    BY <1>7, <2>2, <2>6 DEF DiskAppend, TypesOK, queued
<1>8. CASE DiskAppendFails
  <2>1. batch # << >>
    BY <1>8 DEF DiskAppendFails, TypesOK
  <2>2. Head(batch).username \in ValidNames /\ Tail(batch) \in Seq(ValidData)
    BY <2>1, HeadTypes
  <2>3. Tail(batch) \in Seq(UserPersistentData)
    BY <2>2, ValidDataSeq
  <2>4. DiskTypeOK'
    BY <1>8, <2>2, <2>3 DEF DiskAppendFails, TypesOK, DiskTypeOK, UserTypeOK
  <2>5. QED
    BY <1>8, <2>2, <2>4 DEF DiskAppendFails, TypesOK, queued
<1>9. QED
  BY <1>1, <1>2, <1>3, <1>4, <1>5, <1>6, <1>7, <1>8 DEF DiskThread

\* The load of any of the users a start finds: their ids have a largest one,
\* and each id stands for one of the users whose file holds it.
LEMMA LoadFacts ==
  ASSUME TypesOK, NEW names \in SUBSET loaded_names
  PROVE  /\ names \subseteq ValidNames /\ names \subseteq DOMAIN user_file
         /\ \A name \in names : user_file[name] \in FileContent
         /\ loaded_ids(names) \subseteq UserIds
         /\ biggest_user_id(names) \in Nat
         /\ \A u \in loaded_ids(names) :
              /\ u <= biggest_user_id(names)
              /\ loaded_user(names, u) \in UserData
              /\ loaded_user(names, u).username \in names
              /\ user_file[loaded_user(names, u).username].user_id = u
              /\ loaded_user(names, u).followed_by =
                   user_file[loaded_user(names, u).username].followed_by
<1>1. /\ IsMap(user_file, ValidNames, FileContent \cup {Torn})
      /\ directory_file \in Seq(ValidNames \cup {Torn})
  BY DEF TypesOK, DiskTypeOK
<1>2. /\ names \subseteq ValidNames /\ names \subseteq DOMAIN user_file
      /\ names \subseteq Range(directory_file)
      /\ \A name \in names : user_file[name] \in FileContent
  BY <1>1 DEF loaded_names, listed_names, is_valid_username, IsMap
<1>3. \A name \in names : /\ user_file[name].user_id \in UserIds
                          /\ user_file[name].followed_by \in Seq(UserIds)
  BY <1>2 DEF FileContent
<1>4. loaded_ids(names) \subseteq UserIds
  BY <1>3 DEF loaded_ids
<1>5. PICK b \in Nat : \A name \in DOMAIN user_file :
        user_file[name] # Torn => user_file[name].user_id <= b
  BY DEF TypesOK
<1>6. \A u \in loaded_ids(names) : u <= b
  BY <1>2, <1>5 DEF loaded_ids, loaded_names
<1>7. /\ biggest_user_id(names) \in Nat
      /\ \A u \in loaded_ids(names) : u <= biggest_user_id(names)
  <2>1. CASE names = {}
    BY <2>1 DEF biggest_user_id, loaded_ids, INVALID_USER_ID
  <2>2. CASE names # {}
    <3> DEFINE S == loaded_ids(names)
               P(u) == u \in S /\ \A v \in S : v <= u
    <3>1. S \subseteq Nat /\ S # {}
      BY <1>4, <2>2 DEF loaded_ids, UserIds
    <3>2. \A x \in S : x <= b
      BY <1>6
    <3> HIDE DEF S
    <3>3. \E u \in S : \A v \in S : v <= u
      BY <3>1, <3>2, LargestExists
    <3>4. biggest_user_id(names) = CHOOSE u \in S : \A v \in S : v <= u
      BY <2>2 DEF biggest_user_id, S
    <3>5. /\ biggest_user_id(names) \in S
          /\ \A v \in S : v <= biggest_user_id(names)
      BY <3>3, <3>4
    <3>6. QED
      BY <3>1, <3>5 DEF S
  <2>3. QED
    BY <2>1, <2>2
<1>8. ASSUME NEW u \in loaded_ids(names)
      PROVE  LET l == loaded_user(names, u)
             IN  /\ l \in UserData
                 /\ l.username \in names
                 /\ user_file[l.username].user_id = u
                 /\ l.followed_by = user_file[l.username].followed_by
  <2> DEFINE lines == {i \in DOMAIN directory_file :
                         /\ directory_file[i] \in names
                         /\ user_file[directory_file[i]].user_id = u}
             k == CHOOSE i \in lines : \A j \in lines : j <= i
             n == directory_file[k]
  <2>1. lines \subseteq Nat /\ lines # {}
    <3>1. PICK name \in names : user_file[name].user_id = u
      BY DEF loaded_ids
    <3>2. PICK i \in DOMAIN directory_file : directory_file[i] = name
      BY <1>2 DEF Range
    <3>3. i \in lines
      BY <3>1, <3>2
    <3>4. QED
      BY <1>1, <3>3
  <2>2. Len(directory_file) \in Nat /\ \A i \in lines : i <= Len(directory_file)
    BY <1>1
  <2>3. \A i \in lines : /\ directory_file[i] \in names
                         /\ user_file[directory_file[i]].user_id = u
    OBVIOUS
  <2>4. loaded_user(names, u) =
          [username |-> n, followed_by |-> user_file[n].followed_by,
           pending_notifications |-> << >>]
    BY DEF loaded_user
  <2> HIDE DEF lines
  <2>5. \E i \in lines : \A j \in lines : j <= i
    BY <2>1, <2>2, LargestExists
  <2>6. k \in lines
    BY <2>5
  <2> HIDE DEF k
  <2>7. n \in names /\ user_file[n].user_id = u
    BY <2>3, <2>6
  <2> HIDE DEF n
  <2>8. n \in Names /\ user_file[n].followed_by \in Seq(UserIds)
    BY <1>2, <1>3, <2>7, ValidNamesAreNames
  <2>9. QED
    BY <2>4, <2>7, <2>8 DEF UserData
<1>9. QED
  BY <1>2, <1>4, <1>7, <1>8

\* What the load leaves in memory is of the right types.
LEMMA LoadTypes ==
  ASSUME TypesOK, NEW names \in SUBSET loaded_names,
         NEW listed \in SUBSET listed_names, Load(names, listed)
  PROVE  /\ last_user_id' \in Nat
         /\ IsMap(username_to_id', Names, UserIds)
         /\ IsMap(id_to_user', UserIds, UserData)
         /\ DOMAIN username_to_id' \subseteq ValidNames
         /\ \A u \in DOMAIN id_to_user' : id_to_user'[u].username \in ValidNames
         /\ usernames' \subseteq ValidNames
<1>1. /\ names \subseteq ValidNames
      /\ \A name \in names : user_file[name].user_id \in UserIds
  BY LoadFacts DEF FileContent
<1>2. /\ username_to_id' = [name \in names |-> user_file[name].user_id]
      /\ id_to_user' = [u \in loaded_ids(names) |-> loaded_user(names, u)]
      /\ last_user_id' = biggest_user_id(names)
      /\ usernames' = listed
  BY DEF Load
<1>3. IsMap(username_to_id', Names, UserIds)
  BY <1>1, <1>2, ValidNamesAreNames DEF IsMap
<1>4. /\ IsMap(id_to_user', UserIds, UserData)
      /\ \A u \in DOMAIN id_to_user' : id_to_user'[u].username \in ValidNames
  BY <1>1, <1>2, LoadFacts DEF IsMap
<1>5. last_user_id' \in Nat
  BY <1>2, LoadFacts
<1>6. usernames' \subseteq ValidNames
  BY <1>2 DEF listed_names, is_valid_username
<1>7. QED
  BY <1>1, <1>2, <1>3, <1>4, <1>5, <1>6

\* A start.
LEMMA RestartLoads ==
  ASSUME Restart
  PROVE  \E names \in SUBSET loaded_names, listed \in SUBSET listed_names :
           /\ Load(names, listed)
           /\ read_faults' = 0 /\ read_faults \in Nat =>
                names = loaded_names /\ listed = listed_names /\ read_faults = 0
<1>1. CASE Load(loaded_names, listed_names) /\ UNCHANGED read_faults
  BY <1>1
<1>2. CASE read_faults' = read_faults + 1 /\ Load({}, {})
  BY <1>2
<1>3. CASE /\ read_faults' = read_faults + 1
           /\ \E name \in loaded_names : Load(loaded_names \ {name}, listed_names)
  BY <1>3
<1>4. QED
  BY <1>1, <1>2, <1>3 DEF Restart

\* A restart loads values of the right types.
LEMMA RestartTypes ==
  ASSUME TypesOK, Restart
  PROVE  TypesOK'
<1>1. PICK names \in SUBSET loaded_names, listed \in SUBSET listed_names :
        Load(names, listed)
  BY RestartLoads
<1>2. /\ queued' = << >> /\ batch' = << >> /\ pc' = "read_flag"
      /\ status' = "running" /\ must_terminate' = FALSE
      /\ terminate_read' = FALSE /\ user_added' = FALSE
      /\ UNCHANGED <<directory_file, user_file, overwritten, crashes, faults>>
      /\ restarts' = restarts + 1 /\ unwritten' = {}
      /\ read_faults' \in {read_faults, read_faults + 1}
  BY DEF Restart, queued, file_vars
<1>3. /\ << >> \in Seq(ValidData) /\ << >> \in Seq(UserPersistentData)
  OBVIOUS
<1>4. restarts' \in Nat /\ read_faults' \in Nat
  BY <1>2 DEF TypesOK, DiskTypeOK
<1>5. UserTypeOK'
  BY <1>1, <1>2, <1>3, LoadTypes DEF UserTypeOK, queued
<1>6. usernames' \subseteq ValidNames
  BY <1>1, LoadTypes
<1>7. DiskTypeOK'
  BY <1>2, <1>3, <1>4, <1>5, <1>6 DEF TypesOK, DiskTypeOK
<1>8. QED
  BY <1>1, <1>2, <1>3, <1>7, LoadTypes DEF TypesOK, queued

\* Every step.
LEMMA NextTypes ==
  ASSUME TypesOK, [DiskNext]_disk_vars
  PROVE  TypesOK'
<1> USE DEF file_vars, thread_vars, bound_vars, user_vars
<1>1. CASE MainStep
  <2>1. CASE MainShutdown
    BY <2>1 DEF MainShutdown, TypesOK, DiskTypeOK, UserTypeOK, queued
  <2>2. CASE MainExit
    BY <2>2 DEF MainExit, TypesOK, DiskTypeOK, UserTypeOK, queued
  <2>3. QED
    BY <1>1, <2>1, <2>2, RegisterTypes, FollowTypes DEF MainStep
<1>2. CASE DiskThread
  BY <1>2, DiskThreadTypes
<1>3. CASE Crash
  BY <1>3 DEF Crash, TypesOK, DiskTypeOK, UserTypeOK, queued
<1>4. CASE Restart
  BY <1>4, RestartTypes
<1>5. CASE UNCHANGED disk_vars
  BY <1>5 DEF disk_vars, TypesOK, DiskTypeOK, UserTypeOK, queued
<1>6. QED
  BY <1>1, <1>2, <1>3, <1>4, <1>5 DEF DiskNext

\* The first start, on an empty disk.
LEMMA InitTypes == DiskInit => TypesOK
<1> SUFFICES ASSUME DiskInit PROVE TypesOK
  OBVIOUS
<1>1. /\ << >> \in Seq(ValidData) /\ << >> \in Seq(UserPersistentData)
      /\ << >> \in Seq(ValidNames \cup {Torn})
  OBVIOUS
<1>2. DiskTypeOK
  BY <1>1 DEF DiskInit, UserInit, DiskTypeOK, UserTypeOK, IsMap, EmptyMap,
     INVALID_USER_ID
<1>3. \A name \in DOMAIN user_file :
        user_file[name] # Torn => user_file[name].user_id <= 0
  BY DEF DiskInit, EmptyMap
<1>4. QED
  BY <1>1, <1>2, <1>3 DEF DiskInit, UserInit, TypesOK, EmptyMap, queued

(***************************************************************************)
(* Every variable keeps its type, through every write, crash and load.     *)
(* The loads are what this takes: biggest_user_id and the directory scan   *)
(* pick the largest of a set, which exists since ids on disk are bounded.  *)
(***************************************************************************)
THEOREM DiskTypesCorrect == DiskSpec => []DiskTypeOK
<1>1. TypesOK => DiskTypeOK
  BY DEF TypesOK
<1>2. TypesOK /\ [DiskNext]_disk_vars => TypesOK'
  BY NextTypes
<1>3. QED
  BY <1>1, <1>2, InitTypes, PTL DEF DiskSpec

-----------------------------------------------------------------------------
(***************************************************************************)
(* What is on disk is a past of what is in memory.                         *)
(***************************************************************************)

\* The memory only grows: a registered user keeps its id and its followers,
\* and is given at most more of them.
MemoryGrows ==
  \A name \in DOMAIN username_to_id :
    /\ name \in DOMAIN username_to_id'
    /\ username_to_id'[name] = username_to_id[name]
    /\ \A f \in Seq(UserIds) :
         IsPrefix(f, id_to_user[username_to_id[name]].followed_by) =>
           IsPrefix(f, id_to_user'[username_to_id[name]].followed_by)

\* So a past of it stays one.
LEMMA PastStaysPast ==
  ASSUME MemoryGrows, NEW d \in ValidData,
         PastIn(d, username_to_id, id_to_user)
  PROVE  PastIn(d, username_to_id', id_to_user')
<1>1. d.followed_by \in Seq(UserIds)
  BY DEF ValidData, UserPersistentData
<1>2. QED
  BY <1>1 DEF PastIn, MemoryGrows

\* The disk stays a past, when the files that changed hold a record of one.
LEMMA FilesStayPast ==
  ASSUME DiskIsAPast, UNCHANGED <<username_to_id, id_to_user, read_faults>>,
         NEW d, PastIn(d, username_to_id, id_to_user),
         \A name \in loaded_names' :
           \/ name \in loaded_names /\ user_file'[name] = user_file[name]
           \/ name = d.username /\ user_file'[name] = Record(d)
  PROVE  DiskIsAPast'
<1> SUFFICES ASSUME read_faults = 0, NEW name \in loaded_names'
             PROVE  /\ name \in DOMAIN username_to_id
                    /\ user_file'[name].user_id = username_to_id[name]
                    /\ IsPrefix(user_file'[name].followed_by,
                                id_to_user[username_to_id[name]].followed_by)
  BY DEF DiskIsAPast
<1>1. CASE name \in loaded_names /\ user_file'[name] = user_file[name]
  BY <1>1 DEF DiskIsAPast
<1>2. CASE name = d.username /\ user_file'[name] = Record(d)
  <2>1. user_file'[name].user_id = d.user_id /\ user_file'[name].followed_by = d.followed_by
    BY <1>2 DEF Record
  <2>2. QED
    BY <1>2, <2>1 DEF PastIn
<1>3. QED
  BY <1>1, <1>2

\* It also stays one when the memory grows.
LEMMA DiskStaysPast ==
  ASSUME TypesOK, DiskIsAPast, MemoryGrows, UNCHANGED <<file_vars, read_faults>>
  PROVE  DiskIsAPast'
<1> SUFFICES ASSUME read_faults = 0, NEW name \in loaded_names
             PROVE  /\ name \in DOMAIN username_to_id'
                    /\ user_file[name].user_id = username_to_id'[name]
                    /\ IsPrefix(user_file[name].followed_by,
                                id_to_user'[username_to_id'[name]].followed_by)
  BY DEF DiskIsAPast, loaded_names, listed_names, file_vars
<1>1. user_file[name].followed_by \in Seq(UserIds)
  BY DEF TypesOK, DiskTypeOK, IsMap, loaded_names, FileContent
<1>2. QED
  BY <1>1 DEF DiskIsAPast, MemoryGrows

\* A step of the main thread that lets the memory grow and queues a past.
LEMMA MainKeepsPast ==
  ASSUME TypesOK, PastInv, read_faults = 0, MemoryGrows, RegistryConsistent',
         UNCHANGED <<batch, pc, file_vars, read_faults>>,
         NEW d, PastIn(d, username_to_id', id_to_user'),
         queued' = Append(queued, d)
  PROVE  PastInv'
<1>1. /\ AllPast(queued, username_to_id, id_to_user)
      /\ AllPast(batch, username_to_id, id_to_user)
      /\ DiskIsAPast
      /\ pc = "append" => HeadWritten
  BY DEF PastInv, QueuesPast
<1>2. queued \in Seq(ValidData) /\ batch \in Seq(ValidData)
  BY DEF TypesOK
<1>3. \A i \in DOMAIN queued' : PastIn(queued'[i], username_to_id', id_to_user')
  <2> SUFFICES ASSUME NEW i \in DOMAIN queued'
               PROVE  PastIn(queued'[i], username_to_id', id_to_user')
    OBVIOUS
  <2>1. CASE i \in DOMAIN queued
    <3>1. queued[i] \in ValidData /\ queued'[i] = queued[i]
      BY <1>2, <2>1
    <3>2. PastIn(queued[i], username_to_id, id_to_user)
      BY <1>1, <2>1 DEF AllPast
    <3>3. QED
      BY <3>1, <3>2, PastStaysPast
  <2>2. CASE i \notin DOMAIN queued
    <3>1. queued'[i] = d
      BY <1>2, <2>2
    <3>2. QED
      BY <3>1
  <2>3. QED
    BY <2>1, <2>2
<1>4. \A i \in DOMAIN batch : PastIn(batch[i], username_to_id', id_to_user')
  <2> SUFFICES ASSUME NEW i \in DOMAIN batch
               PROVE  PastIn(batch[i], username_to_id', id_to_user')
    OBVIOUS
  <2>1. batch[i] \in ValidData
    BY <1>2
  <2>2. PastIn(batch[i], username_to_id, id_to_user)
    BY <1>1 DEF AllPast
  <2>3. QED
    BY <2>1, <2>2, PastStaysPast
<1>5. DiskIsAPast'
  BY <1>1, DiskStaysPast
<1>6. QueuesPast'
  BY <1>3, <1>4 DEF QueuesPast, AllPast
<1>7. HeadWritten' <=> HeadWritten
  BY DEF HeadWritten, file_vars
<1>8. QED
  BY <1>1, <1>5, <1>6, <1>7 DEF PastInv

\* Registering a user: its id is not in use.
LEMMA RegisterGrows ==
  ASSUME TypesOK, RegistryConsistent, NEW name \in ValidNames,
         MainRegister(name)
  PROVE  LET u == last_user_id + 1
             d == [user_id |-> u, username |-> name, followed_by |-> << >>]
         IN  /\ name \notin DOMAIN username_to_id
             /\ \A n \in DOMAIN username_to_id :
                  id_to_user'[username_to_id[n]] = id_to_user[username_to_id[n]]
             /\ DOMAIN username_to_id' = DOMAIN username_to_id \cup {name}
             /\ username_to_id'[name] = u
             /\ \A n \in DOMAIN username_to_id :
                  username_to_id'[n] = username_to_id[n]
             /\ DOMAIN id_to_user' = DOMAIN id_to_user \cup {u}
             /\ \A v \in DOMAIN id_to_user : id_to_user'[v] = id_to_user[v]
             /\ id_to_user'[u].followed_by = << >>
             /\ MemoryGrows
             /\ RegistryConsistent'
             /\ PastIn(d, username_to_id', id_to_user')
             /\ queued' = Append(queued, d)
<1> DEFINE u == last_user_id + 1
           d == [user_id |-> u, username |-> name, followed_by |-> << >>]
           new == [username |-> name, followed_by |-> << >>,
                   pending_notifications |-> << >>]
<1>1. /\ last_user_id' = u
      /\ username_to_id' = Put(username_to_id, name, u)
      /\ queued' = Append(queued, d)
      /\ id_to_user' = Put(id_to_user, u, new)
      /\ Registers(name)
  BY DEF MainRegister, add_or_update_user, registered, next_user_id, queued
<1>2. /\ last_user_id \in Nat /\ u \in Nat /\ last_user_id <= u
      /\ IsMap(username_to_id, Names, UserIds)
      /\ IsMap(id_to_user, UserIds, UserData)
  BY DEF TypesOK, DiskTypeOK, UserTypeOK
<1>3. u \notin DOMAIN id_to_user
  BY <1>2 DEF RegistryConsistent
<1>4. name \notin DOMAIN username_to_id
  BY <1>1, <1>2 DEF Registers, get_user_id_from_username, IsMap, UserIds,
     INVALID_USER_ID
<1>5. new.username = name /\ new.followed_by = << >>
  OBVIOUS
<1>6. /\ d.user_id = u /\ d.username = name /\ d.followed_by = << >>
  OBVIOUS
<1> HIDE DEF u, d, new
<1>7. /\ DOMAIN username_to_id' = DOMAIN username_to_id \cup {name}
      /\ username_to_id'[name] = u
      /\ \A n \in DOMAIN username_to_id : username_to_id'[n] = username_to_id[n]
  BY <1>1, <1>4 DEF Put
<1>8. /\ DOMAIN id_to_user' = DOMAIN id_to_user \cup {u}
      /\ id_to_user'[u] = new
      /\ \A v \in DOMAIN id_to_user : id_to_user'[v] = id_to_user[v]
  BY <1>1, <1>3 DEF Put
<1>9. \A n \in DOMAIN username_to_id :
        id_to_user'[username_to_id[n]] = id_to_user[username_to_id[n]]
  BY <1>8 DEF RegistryConsistent, user_id_exists
<1>10. MemoryGrows
  BY <1>7, <1>9 DEF MemoryGrows
<1>11. RegistryConsistent'
  <2>1. \A n \in DOMAIN username_to_id' :
          /\ username_to_id'[n] \in DOMAIN id_to_user'
          /\ id_to_user'[username_to_id'[n]].username = n
    BY <1>5, <1>7, <1>8 DEF RegistryConsistent, user_id_exists
  <2>2. ASSUME NEW v \in DOMAIN id_to_user'
        PROVE  /\ v <= last_user_id'
               /\ id_to_user'[v].username \in DOMAIN username_to_id'
               /\ username_to_id'[id_to_user'[v].username] = v
    <3>1. CASE v = u
      BY <1>1, <1>2, <1>5, <1>7, <1>8, <3>1
    <3>2. CASE v # u
      <4>1. v \in DOMAIN id_to_user /\ v \in Nat
        BY <1>2, <1>8, <3>2 DEF IsMap, UserIds
      <4>2. v <= last_user_id /\ id_to_user[v].username \in DOMAIN username_to_id
            /\ username_to_id[id_to_user[v].username] = v
        BY <4>1 DEF RegistryConsistent
      <4>3. v <= u
        BY <1>2, <4>1, <4>2
      <4>4. QED
        BY <1>1, <1>7, <1>8, <4>1, <4>2, <4>3
    <3>3. QED
      BY <3>1, <3>2
  <2>3. QED
    BY <2>1, <2>2 DEF RegistryConsistent, user_id_exists
<1>12. PastIn(d, username_to_id', id_to_user')
  <2>1. IsPrefix(<< >>, << >>)
    BY DEF IsPrefix
  <2>2. QED
    BY <1>5, <1>6, <1>7, <1>8, <2>1 DEF PastIn
<1>13. QED
  BY <1>1, <1>4, <1>5, <1>7, <1>8, <1>9, <1>10, <1>11, <1>12 DEF u, d

\* Following a user that was not followed yet: only its list grows, by the
\* follower.
LEMMA FollowGrows ==
  ASSUME TypesOK, RegistryConsistent, NEW followed \in DOMAIN id_to_user,
         NEW follower \in DOMAIN id_to_user, MainFollow(followed, follower),
         ~already_follows(followed, follower)
  PROVE  LET f == Append(id_to_user[followed].followed_by, follower)
             d == [user_id |-> followed, username |-> id_to_user[followed].username,
                   followed_by |-> f]
         IN  /\ username_to_id' = username_to_id
             /\ DOMAIN id_to_user' = DOMAIN id_to_user
             /\ id_to_user'[followed].followed_by = f
             /\ \A v \in DOMAIN id_to_user :
                  v # followed => id_to_user'[v] = id_to_user[v]
             /\ MemoryGrows
             /\ RegistryConsistent'
             /\ PastIn(d, username_to_id', id_to_user')
             /\ queued' = Append(queued, d)
<1> DEFINE old == id_to_user[followed]
           f   == Append(old.followed_by, follower)
           d   == [user_id |-> followed, username |-> old.username,
                   followed_by |-> f]
<1>1. /\ followed \in UserIds /\ follower \in UserIds
      /\ old \in UserData
      /\ IsMap(id_to_user, UserIds, UserData)
  BY DEF TypesOK, DiskTypeOK, UserTypeOK, IsMap
<1>2. /\ id_to_user' = [id_to_user EXCEPT ![followed].followed_by = f]
      /\ queued' = Append(queued, d)
      /\ UNCHANGED <<last_user_id, username_to_id>>
  BY DEF MainFollow, add_follow, add_followed_by, user_id_exists, queued
<1>3. /\ DOMAIN id_to_user' = DOMAIN id_to_user
      /\ id_to_user'[followed] = [old EXCEPT !.followed_by = f]
      /\ \A v \in DOMAIN id_to_user :
           v # followed => id_to_user'[v] = id_to_user[v]
  BY <1>1, <1>2 DEF IsMap
<1>4. /\ id_to_user'[followed].followed_by = f
      /\ id_to_user'[followed].username = old.username
  BY <1>1, <1>3 DEF UserData
<1>5. old.followed_by \in Seq(UserIds) /\ f \in Seq(UserIds)
  BY <1>1 DEF UserData
<1>6. \A s \in Seq(UserIds) : IsPrefix(s, old.followed_by) => IsPrefix(s, f)
  BY <1>1, <1>5, PrefixOfAppend
<1>7. IsPrefix(f, f)
  BY <1>5, PrefixOfItself
<1>8. /\ d.user_id = followed /\ d.username = old.username /\ d.followed_by = f
  OBVIOUS
<1> HIDE DEF d, f
<1>9. MemoryGrows
  <2> SUFFICES ASSUME NEW name \in DOMAIN username_to_id,
                      NEW s \in Seq(UserIds),
                      IsPrefix(s, id_to_user[username_to_id[name]].followed_by)
               PROVE  IsPrefix(s, id_to_user'[username_to_id[name]].followed_by)
    BY <1>2 DEF MemoryGrows
  <2>1. username_to_id[name] \in DOMAIN id_to_user
    BY DEF RegistryConsistent, user_id_exists
  <2>2. CASE username_to_id[name] = followed
    BY <1>4, <1>6, <2>2
  <2>3. CASE username_to_id[name] # followed
    BY <1>3, <2>1, <2>3
  <2>4. QED
    BY <2>2, <2>3
<1>10. \A v \in DOMAIN id_to_user : id_to_user'[v].username = id_to_user[v].username
  BY <1>3, <1>4
<1> HIDE DEF old
<1>11. RegistryConsistent'
  BY <1>2, <1>3, <1>10 DEF RegistryConsistent, user_id_exists
<1>12. PastIn(d, username_to_id', id_to_user')
  <2>1. old.username \in DOMAIN username_to_id /\ username_to_id[old.username] = followed
    BY DEF RegistryConsistent, old
  <2>2. QED
    BY <1>2, <1>4, <1>7, <1>8, <2>1 DEF PastIn
<1>13. QED
  BY <1>2, <1>3, <1>4, <1>9, <1>11, <1>12 DEF d, f, old

\* Which users a start would load after a file has been given a record, or cut.
LEMMA LoadableAfterWrite ==
  ASSUME TypesOK, NEW name \in ValidNames, NEW record,
         NEW lines \in {<< >>, <<Torn>>}, WriteFile(name, lines, record)
  PROVE  \A n \in loaded_names' :
           \/ n \in loaded_names /\ user_file'[n] = user_file[n]
           \/ n = name /\ user_file'[n] = record /\ record # Torn
<1>1. CASE name = DirectoryName
  <2>1. directory_file' = lines
    BY <1>1 DEF WriteFile
  <2>2. Range(lines) \subseteq {Torn}
    BY DEF Range
  <2>3. loaded_names' = {}
    BY <2>1, <2>2, TornIsNotWhole DEF loaded_names, listed_names,
       is_valid_username
  <2>4. QED
    BY <2>3
<1>2. CASE name # DirectoryName
  <2>1. /\ user_file' = Put(user_file, name, record)
        /\ directory_file' = directory_file
    BY <1>2 DEF WriteFile
  <2>2. listed_names' = listed_names
    BY <2>1 DEF listed_names
  <2>3. /\ DOMAIN user_file' = DOMAIN user_file \cup {name}
        /\ user_file'[name] = record
        /\ \A n \in DOMAIN user_file : n # name => user_file'[n] = user_file[n]
    BY <2>1 DEF Put
  <2>4. QED
    BY <2>2, <2>3 DEF loaded_names
<1>3. QED
  BY <1>1, <1>2

\* The lines of the directory after a name has been appended.
LEMMA ListedAfterAppend ==
  ASSUME TypesOK, NEW name,
         directory_file' =
           IF directory_file # << >> /\ Last(directory_file) = Torn
             THEN Front(directory_file) ELSE Append(directory_file, name)
  PROVE  listed_names' \subseteq listed_names \cup {name}
<1>1. directory_file \in Seq(ValidNames \cup {Torn})
  BY DEF TypesOK, DiskTypeOK
<1>2. directory_file # << >> =>
        Range(Front(directory_file)) \subseteq Range(directory_file)
  BY <1>1 DEF Range, Front
<1>3. Range(Append(directory_file, name)) \subseteq Range(directory_file) \cup {name}
  <2>1. ASSUME NEW i \in DOMAIN Append(directory_file, name)
        PROVE  Append(directory_file, name)[i] \in Range(directory_file) \cup {name}
    BY <1>1 DEF Range
  <2>2. QED
    BY <2>1 DEF Range
<1>4. Range(directory_file') \subseteq Range(directory_file) \cup {name}
  BY <1>2, <1>3
<1>5. QED
  BY <1>4 DEF listed_names

\* What a step of the disk thread leaves of a batch is still past.
LEMMA TailPast ==
  ASSUME TypesOK, batch # << >>, QueuesPast
  PROVE  /\ PastIn(Head(batch), username_to_id, id_to_user)
         /\ AllPast(Tail(batch), username_to_id, id_to_user)
<1>1. batch \in Seq(ValidData)
  BY DEF TypesOK
<1>2. /\ 1 \in DOMAIN batch /\ Head(batch) = batch[1]
      /\ \A i \in DOMAIN Tail(batch) : i + 1 \in DOMAIN batch /\ Tail(batch)[i] = batch[i + 1]
  BY <1>1
<1>3. QED
  BY <1>2 DEF QueuesPast, AllPast

\* The disk thread writes what was true at some time.
LEMMA DiskThreadPast ==
  ASSUME TypesOK, PastInv, read_faults' = 0, DiskThread
  PROVE  PastInv'
<1> USE DEF file_vars, thread_vars, bound_vars, user_vars
<1>1. /\ UNCHANGED <<last_user_id, username_to_id, id_to_user, read_faults>>
      /\ read_faults = 0
  BY DEF DiskThread, DiskReadFlag, DiskDrain, DiskBatchDone, DiskOpen,
     DiskOpenFails, DiskWrite, DiskAppend, DiskAppendFails
<1>2. /\ RegistryConsistent /\ QueuesPast /\ DiskIsAPast
      /\ pc = "append" => HeadWritten
  BY <1>1 DEF PastInv
<1>3. RegistryConsistent'
  BY <1>1, <1>2 DEF RegistryConsistent, user_id_exists
<1>4. ASSUME queued' = queued \/ queued' = << >>,
             \/ batch' = batch \/ batch' = queued
             \/ batch # << >> /\ batch' = Tail(batch)
      PROVE  QueuesPast'
  <2>1. AllPast(<< >>, username_to_id, id_to_user)
    BY DEF AllPast
  <2>2. AllPast(queued', username_to_id, id_to_user)
    BY <1>2, <1>4, <2>1 DEF QueuesPast
  <2>3. AllPast(batch', username_to_id, id_to_user)
    BY <1>2, <1>4, TailPast DEF QueuesPast
  <2>4. QED
    BY <1>1, <2>2, <2>3 DEF QueuesPast
<1>5. ASSUME UNCHANGED <<directory_file, user_file>>
      PROVE  DiskIsAPast'
  BY <1>1, <1>2, <1>5 DEF DiskIsAPast, loaded_names, listed_names
<1>15. ASSUME PastIn(Head(batch), username_to_id, id_to_user),
              \A n \in loaded_names' :
                \/ n \in loaded_names /\ user_file'[n] = user_file[n]
                \/ /\ n = Head(batch).username
                   /\ user_file'[n] = Record(Head(batch))
       PROVE  DiskIsAPast'
  <2>1. UNCHANGED <<username_to_id, id_to_user, read_faults>>
    BY <1>1
  <2>2. DiskIsAPast
    BY <1>2
  <2>3. QED
    BY <1>15, <2>1, <2>2, FilesStayPast
<1>6. CASE DiskReadFlag
  <2>1. QueuesPast'
    BY <1>4, <1>6 DEF DiskReadFlag, queued
  <2>2. QED
    BY <1>3, <1>5, <1>6, <2>1 DEF DiskReadFlag, PastInv
<1>7. CASE DiskDrain
  <2>1. QueuesPast'
    BY <1>4, <1>7 DEF DiskDrain, queued
  <2>2. QED
    BY <1>3, <1>5, <1>7, <2>1 DEF DiskDrain, PastInv
<1>8. CASE DiskBatchDone
  <2>1. pc' # "append"
    BY <1>8 DEF DiskBatchDone
  <2>2. QED
    BY <1>2, <1>3, <1>4, <1>5, <1>8, <2>1 DEF DiskBatchDone, PastInv, queued
<1>9. CASE DiskOpen
  <2>1. /\ Head(batch).username \in ValidNames
        /\ PastIn(Head(batch), username_to_id, id_to_user)
    BY <1>2, <1>9, HeadTypes, TailPast DEF DiskOpen
  <2>2. WriteFile(Head(batch).username, << >>, Torn)
    BY <1>9 DEF DiskOpen
  <2>3. \A n \in loaded_names' :
          n \in loaded_names /\ user_file'[n] = user_file[n]
    BY <2>1, <2>2, LoadableAfterWrite
  <2>4. DiskIsAPast'
    BY <1>15, <2>1, <2>3
  <2>5. QueuesPast'
    BY <1>4, <1>9 DEF DiskOpen, queued
  <2>6. QED
    BY <1>3, <1>9, <2>4, <2>5 DEF DiskOpen, PastInv
<1>10. CASE DiskOpenFails
  <2>1. QueuesPast'
    BY <1>4, <1>10 DEF DiskOpenFails, queued
  <2>2. QED
    BY <1>3, <1>5, <1>10, <2>1 DEF DiskOpenFails, PastInv
<1>11. CASE DiskWrite
  <2>1. batch # << >>
    BY <1>11 DEF DiskWrite, TypesOK
  <2>2. /\ Head(batch).username \in ValidNames
        /\ PastIn(Head(batch), username_to_id, id_to_user)
    BY <1>2, <2>1, HeadTypes, TailPast
  <2>3. WriteFile(Head(batch).username, <<Torn>>, Record(Head(batch)))
    BY <1>11 DEF DiskWrite
  <2>4. \A n \in loaded_names' :
          \/ n \in loaded_names /\ user_file'[n] = user_file[n]
          \/ n = Head(batch).username /\ user_file'[n] = Record(Head(batch))
    BY <2>2, <2>3, LoadableAfterWrite
  <2>5. DiskIsAPast'
    BY <1>15, <2>2, <2>4
  <2>6. QueuesPast'
    BY <1>4, <1>11, <2>1 DEF DiskWrite, queued
  <2>7. pc' = "append" => HeadWritten'
    <3>1. pc' = "append" => batch' = batch
      BY <1>11 DEF DiskWrite
    <3>2. Head(batch).username # DirectoryName =>
            /\ Head(batch).username \in DOMAIN user_file'
            /\ user_file'[Head(batch).username] = Record(Head(batch))
      BY <2>3 DEF WriteFile, Put
    <3>3. QED
      BY <3>1, <3>2 DEF HeadWritten
  <2>8. QED
    BY <1>3, <2>5, <2>6, <2>7 DEF PastInv
<1>12. CASE DiskAppend
  <2>1. batch # << >> /\ pc = "append"
    BY <1>12 DEF DiskAppend, TypesOK
  <2>2. PastIn(Head(batch), username_to_id, id_to_user)
    BY <1>2, <2>1, TailPast
  <2>3. listed_names' \subseteq listed_names \cup {Head(batch).username}
    BY <1>12, ListedAfterAppend DEF DiskAppend
  <2>4. user_file' = user_file /\ DirectoryName \notin DOMAIN user_file
    BY <1>12 DEF DiskAppend, TypesOK
  <2>5. \A n \in loaded_names' :
          \/ n \in loaded_names /\ user_file'[n] = user_file[n]
          \/ n = Head(batch).username /\ user_file'[n] = Record(Head(batch))
    BY <1>2, <2>1, <2>3, <2>4 DEF loaded_names, HeadWritten
  <2>6. DiskIsAPast'
    BY <1>15, <2>2, <2>5
  <2>7. QueuesPast'
    BY <1>4, <1>12, <2>1 DEF DiskAppend, queued
  <2>8. QED
    BY <1>3, <1>12, <2>6, <2>7 DEF DiskAppend, PastInv
<1>13. CASE DiskAppendFails
  <2>1. batch # << >>
    BY <1>13 DEF DiskAppendFails, TypesOK
  <2>2. QueuesPast'
    BY <1>4, <1>13, <2>1 DEF DiskAppendFails, queued
  <2>3. QED
    BY <1>3, <1>5, <1>13, <2>2 DEF DiskAppendFails, PastInv
<1>14. QED
  BY <1>6, <1>7, <1>8, <1>9, <1>10, <1>11, <1>12, <1>13 DEF DiskThread

\* The load brings back what the files hold: the users loaded are registered
\* under different ids, so none hides another.
LEMMA LoadedMemory ==
  ASSUME TypesOK, RegistryConsistent, DiskIsAPast, read_faults = 0,
         NEW listed, Load(loaded_names, listed)
  PROVE  /\ DOMAIN username_to_id' = loaded_names
         /\ \A name \in loaded_names :
              /\ username_to_id'[name] = user_file[name].user_id
              /\ username_to_id'[name] = username_to_id[name]
              /\ username_to_id'[name] \in DOMAIN id_to_user'
              /\ id_to_user'[username_to_id'[name]].username = name
              /\ id_to_user'[username_to_id'[name]].followed_by =
                   user_file[name].followed_by
              /\ user_file[name].followed_by \in Seq(UserIds)
         /\ \A u \in DOMAIN id_to_user' :
              /\ id_to_user'[u].username \in loaded_names
              /\ username_to_id'[id_to_user'[u].username] = u
         /\ RegistryConsistent'
<1>1. /\ username_to_id' = [name \in loaded_names |-> user_file[name].user_id]
      /\ id_to_user' = [u \in loaded_ids(loaded_names) |-> loaded_user(loaded_names, u)]
      /\ last_user_id' = biggest_user_id(loaded_names)
  BY DEF Load
<1>2. \A u \in loaded_ids(loaded_names) :
        /\ u <= biggest_user_id(loaded_names)
        /\ loaded_user(loaded_names, u).username \in loaded_names
        /\ user_file[loaded_user(loaded_names, u).username].user_id = u
        /\ loaded_user(loaded_names, u).followed_by =
             user_file[loaded_user(loaded_names, u).username].followed_by
  BY LoadFacts
<1>3. \A name \in loaded_names :
        /\ name \in DOMAIN username_to_id
        /\ user_file[name].user_id = username_to_id[name]
        /\ id_to_user[username_to_id[name]].username = name
  BY DEF DiskIsAPast, RegistryConsistent
<1>4. \A name \in loaded_names :
        /\ user_file[name].user_id \in loaded_ids(loaded_names)
        /\ loaded_user(loaded_names, user_file[name].user_id).username = name
  <2> SUFFICES ASSUME NEW name \in loaded_names
               PROVE  /\ user_file[name].user_id \in loaded_ids(loaded_names)
                      /\ loaded_user(loaded_names, user_file[name].user_id).username = name
    OBVIOUS
  <2> DEFINE u == user_file[name].user_id
             other == loaded_user(loaded_names, u).username
  <2>1. u \in loaded_ids(loaded_names)
    BY DEF loaded_ids
  <2>2. other \in loaded_names /\ user_file[other].user_id = u
    BY <1>2, <2>1
  <2> HIDE DEF other
  <2>3. other = name
    BY <1>3, <2>2
  <2>4. QED
    BY <2>1, <2>3 DEF other
<1>5. \A name \in loaded_names : user_file[name].followed_by \in Seq(UserIds)
  BY LoadFacts DEF FileContent
<1>6. \A name \in loaded_names :
        /\ username_to_id'[name] = user_file[name].user_id
        /\ username_to_id'[name] = username_to_id[name]
        /\ username_to_id'[name] \in DOMAIN id_to_user'
        /\ id_to_user'[username_to_id'[name]].username = name
        /\ id_to_user'[username_to_id'[name]].followed_by = user_file[name].followed_by
  BY <1>1, <1>2, <1>3, <1>4
<1>7. \A u \in DOMAIN id_to_user' :
        /\ id_to_user'[u].username \in loaded_names
        /\ username_to_id'[id_to_user'[u].username] = u
        /\ u <= last_user_id'
  BY <1>1, <1>2
<1>8. DOMAIN username_to_id' = loaded_names
  BY <1>1
<1>9. RegistryConsistent'
  BY <1>6, <1>7, <1>8 DEF RegistryConsistent, user_id_exists
<1>10. QED
  BY <1>5, <1>6, <1>7, <1>8, <1>9

\* After a restart the server holds what the disk held.
LEMMA RestartPast ==
  ASSUME TypesOK, PastInv, read_faults' = 0, Restart
  PROVE  PastInv'
<1>1. /\ Load(loaded_names, listed_names) /\ read_faults = 0
  BY RestartLoads DEF TypesOK, DiskTypeOK
<1>2. RegistryConsistent /\ DiskIsAPast
  BY <1>1 DEF PastInv
<1>3. /\ DOMAIN username_to_id' = loaded_names
      /\ \A name \in loaded_names :
           /\ username_to_id'[name] = user_file[name].user_id
           /\ id_to_user'[username_to_id'[name]].followed_by =
                user_file[name].followed_by
           /\ user_file[name].followed_by \in Seq(UserIds)
      /\ RegistryConsistent'
  BY <1>1, <1>2, LoadedMemory
<1>4. loaded_names' = loaded_names /\ user_file' = user_file
  BY DEF Restart, file_vars, loaded_names, listed_names
<1>5. DiskIsAPast'
  BY <1>3, <1>4, PrefixOfItself DEF DiskIsAPast
<1>6. QueuesPast' /\ pc' # "append"
  BY DEF Restart, QueuesPast, AllPast, queued
<1>7. QED
  BY <1>3, <1>5, <1>6 DEF PastInv

\* Every step.
LEMMA NextPast ==
  ASSUME TypesOK, PastInv, [DiskNext]_disk_vars
  PROVE  PastInv'
<1> SUFFICES ASSUME read_faults' = 0 PROVE PastInv'
  BY DEF PastInv
<1> USE DEF file_vars, thread_vars, bound_vars, user_vars
<1>1. ASSUME UNCHANGED <<user_vars, batch, pc, file_vars, read_faults>>
      PROVE  PastInv'
  BY <1>1 DEF PastInv, RegistryConsistent, user_id_exists, QueuesPast, DiskIsAPast,
     loaded_names, listed_names, HeadWritten, queued
<1>2. CASE MainStep
  <2>1. UNCHANGED <<batch, pc, file_vars, read_faults>> /\ read_faults = 0
    BY <1>2 DEF MainStep, MainRegister, MainFollow, MainShutdown, MainExit,
       MainUnchanged
  <2>2. RegistryConsistent
    BY <2>1 DEF PastInv
  <2>3. ASSUME NEW name \in ValidNames, MainRegister(name)
        PROVE  PastInv'
    BY <2>1, <2>2, <2>3, RegisterGrows, MainKeepsPast
  <2>4. ASSUME NEW followed \in DOMAIN id_to_user,
               NEW follower \in DOMAIN id_to_user, MainFollow(followed, follower)
        PROVE  PastInv'
    <3>1. CASE already_follows(followed, follower)
      BY <1>1, <2>1, <2>4, <3>1 DEF MainFollow, add_follow, add_followed_by
    <3>2. CASE ~already_follows(followed, follower)
      BY <2>1, <2>2, <2>4, <3>2, FollowGrows, MainKeepsPast
    <3>3. QED
      BY <3>1, <3>2
  <2>5. CASE MainShutdown \/ MainExit
    BY <1>1, <2>5 DEF MainShutdown, MainExit
  <2>6. QED
    BY <1>2, <2>3, <2>4, <2>5 DEF MainStep
<1>3. CASE DiskThread
  BY <1>3, DiskThreadPast
<1>4. CASE Crash
  BY <1>1, <1>4 DEF Crash
<1>5. CASE Restart
  BY <1>5, RestartPast
<1>6. CASE UNCHANGED disk_vars
  BY <1>1, <1>6 DEF disk_vars
<1>7. QED
  BY <1>2, <1>3, <1>4, <1>5, <1>6 DEF DiskNext

\* An empty disk is the past of an empty server.
LEMMA InitPast == DiskInit => PastInv
BY DEF DiskInit, UserInit, PastInv, EmptyMap, RegistryConsistent, QueuesPast,
   AllPast, DiskIsAPast, loaded_names, queued

\* The two together.
LEMMA PastInvariant == DiskSpec => []PastIInv
<1>1. DiskInit => PastIInv
  BY InitTypes, InitPast DEF PastIInv
<1>2. PastIInv /\ [DiskNext]_disk_vars => PastIInv'
  BY NextTypes, NextPast DEF PastIInv
<1>3. QED
  BY <1>1, <1>2, PTL DEF DiskSpec

(***************************************************************************)
(* What the next start would load is always a past of what the server      *)
(* knows, whatever was written, cut short by a crash or could not be       *)
(* opened for writing, and whatever users are called.                      *)
(***************************************************************************)
THEOREM DiskAlwaysAPast == DiskSpec => []DiskIsAPast
<1>1. PastIInv => DiskIsAPast
  BY DEF PastIInv, PastInv, DiskIsAPast
<1>2. QED
  BY <1>1, PastInvariant, PTL

(***************************************************************************)
(* The registry survives restarts: as long as no file failed to open at a  *)
(* start, names and ids match and the counter is above every id, so a      *)
(* crash never makes the server hand out an id that is in use.             *)
(***************************************************************************)
THEOREM RegistrySurvivesRestarts ==
  DiskSpec => [](read_faults = 0 => RegistryConsistent)
<1>1. PastIInv => (read_faults = 0 => RegistryConsistent)
  BY DEF PastIInv, PastInv
<1>2. QED
  BY <1>1, PastInvariant, PTL

-----------------------------------------------------------------------------
(***************************************************************************)
(* A clean exit loses nothing.                                             *)
(***************************************************************************)

\* The disk thread reads the flag before it drains.
LEMMA NextLastDrain ==
  ASSUME TypesOK, LastDrain, [DiskNext]_disk_vars
  PROVE  LastDrain'
<1> USE DEF file_vars, thread_vars, bound_vars, user_vars
<1>1. CASE MainStep
  <2>1. ASSUME NEW name \in ValidNames, MainRegister(name)
        PROVE  LastDrain'
    BY <2>1 DEF MainRegister, MainUnchanged, LastDrain
  <2>2. ASSUME NEW u, NEW v, MainFollow(u, v)
        PROVE  LastDrain'
    BY <2>2 DEF MainFollow, MainUnchanged, LastDrain
  <2>3. CASE MainShutdown
    BY <2>3 DEF MainShutdown, LastDrain, queued
  <2>4. CASE MainExit
    BY <2>4 DEF MainExit, LastDrain, queued
  <2>5. QED
    BY <1>1, <2>1, <2>2, <2>3, <2>4 DEF MainStep
<1>2. CASE DiskThread
  <2>1. CASE DiskReadFlag
    BY <2>1 DEF DiskReadFlag, LastDrain, Alive
  <2>2. CASE DiskDrain
    BY <2>2 DEF DiskDrain, LastDrain, queued, Alive
  <2>3. CASE DiskBatchDone
    BY <2>3 DEF DiskBatchDone, LastDrain, queued, Alive
  <2>4. CASE DiskOpen
    BY <2>4 DEF DiskOpen, LastDrain, queued, Alive
  <2>5. CASE DiskOpenFails
    BY <2>5 DEF DiskOpenFails, LastDrain, queued, Alive
  <2>6. CASE DiskWrite
    BY <2>6 DEF DiskWrite, LastDrain, queued, Alive
  <2>7. CASE DiskAppend
    BY <2>7 DEF DiskAppend, LastDrain, queued, Alive
  <2>8. CASE DiskAppendFails
    BY <2>8 DEF DiskAppendFails, LastDrain, queued, Alive
  <2>9. QED
    BY <1>2, <2>1, <2>2, <2>3, <2>4, <2>5, <2>6, <2>7, <2>8 DEF DiskThread
<1>3. CASE Crash
  BY <1>3 DEF Crash, LastDrain, queued, TypesOK, DiskTypeOK
<1>4. CASE Restart
  BY <1>4 DEF Restart, LastDrain, queued
<1>5. CASE UNCHANGED disk_vars
  BY <1>5 DEF disk_vars, LastDrain, queued
<1>6. QED
  BY <1>1, <1>2, <1>3, <1>4, <1>5 DEF DiskNext

\* A directory of whole lines gets the name as one more line.
LEMMA AppendLists ==
  ASSUME NamesListed, ~overwritten, DiskAppend,
         Head(batch).username \in ValidNames
  PROVE  /\ directory_file' \in Seq(ValidNames)
         /\ listed_names' = listed_names \cup {Head(batch).username}
<1> DEFINE name == Head(batch).username
<1>1. directory_file \in Seq(ValidNames)
  BY DEF NamesListed
<1>2. directory_file # << >> => Last(directory_file) # Torn
  BY <1>1, TornIsNotWhole DEF Last
<1>3. directory_file' = Append(directory_file, name)
  BY <1>2 DEF DiskAppend
<1> HIDE DEF name
<1>4. name \in ValidNames
  BY DEF name
<1>5. directory_file' \in Seq(ValidNames)
  BY <1>1, <1>3, <1>4
<1>6. Range(directory_file') = Range(directory_file) \cup {name}
  <2>1. /\ DOMAIN directory_file' = DOMAIN directory_file \cup {Len(directory_file) + 1}
        /\ directory_file'[Len(directory_file) + 1] = name
        /\ \A i \in DOMAIN directory_file : directory_file'[i] = directory_file[i]
    BY <1>1, <1>3, <1>4
  <2>2. QED
    BY <2>1 DEF Range
<1>7. listed_names' = listed_names \cup {name}
  BY <1>4, <1>6 DEF listed_names, is_valid_username
<1>8. QED
  BY <1>5, <1>7 DEF name

\* The names in memory are listed on disk, in every step.
LEMMA NextNamesListed ==
  ASSUME TypesOK, NamesListed, [DiskNext]_disk_vars
  PROVE  NamesListed'
<1> USE DEF file_vars, thread_vars, bound_vars, user_vars
<1>1. ASSUME UNCHANGED <<directory_file, overwritten, pc, batch, usernames,
                         user_added, faults, unwritten>>
      PROVE  NamesListed'
  BY <1>1 DEF NamesListed, listed_names, Adding
<1>2. CASE MainStep
  BY <1>1, <1>2 DEF MainStep, MainRegister, MainFollow, MainShutdown, MainExit,
     MainUnchanged
<1>3. CASE DiskThread
  <2>1. faults \in Nat
    BY DEF TypesOK, DiskTypeOK
  <2>2. CASE DiskReadFlag \/ DiskDrain \/ DiskBatchDone
    <3>1. /\ UNCHANGED <<directory_file, overwritten, usernames, faults, unwritten>>
          /\ pc \notin {"write", "append"} /\ pc' \notin {"write", "append"}
      BY <2>2 DEF DiskReadFlag, DiskDrain, DiskBatchDone
    <3>2. QED
      BY <3>1 DEF NamesListed, listed_names, Adding
  <2>3. CASE DiskOpen
    <3>1. ~overwritten' =>
            /\ ~overwritten /\ directory_file' = directory_file
            /\ Head(batch).username # DirectoryName
      BY <2>3 DEF DiskOpen, WriteFile
    <3>2. QED
      BY <2>3, <3>1 DEF DiskOpen, NamesListed, listed_names, Adding
  <2>4. CASE DiskOpenFails
    <3>1. faults' # 0
      BY <2>1, <2>4 DEF DiskOpenFails
    <3>2. QED
      BY <2>4, <3>1 DEF DiskOpenFails, NamesListed, listed_names, Adding
  <2>5. CASE DiskWrite
    <3>1. ~overwritten' => ~overwritten /\ directory_file' = directory_file
      BY <2>5 DEF DiskWrite, WriteFile
    <3>2. QED
      BY <2>5, <3>1 DEF DiskWrite, NamesListed, listed_names, Adding
  <2>6. CASE DiskAppend
    <3>1. batch # << >>
      BY <2>6 DEF DiskAppend, TypesOK
    <3>2. Head(batch).username \in ValidNames
      BY <3>1, HeadTypes
    <3>3. ~overwritten =>
            /\ directory_file' \in Seq(ValidNames)
            /\ listed_names' = listed_names \cup {Head(batch).username}
      BY <2>6, <3>2, AppendLists
    <3>4. /\ UNCHANGED <<overwritten, usernames, faults, unwritten>>
          /\ pc = "append" /\ pc' = "next"
      BY <2>6 DEF DiskAppend
    <3>5. Adding \subseteq {Head(batch).username} /\ Adding' = {}
      BY <3>4 DEF Adding
    <3>6. QED
      BY <3>3, <3>4, <3>5 DEF NamesListed
  <2>7. CASE DiskAppendFails
    <3>1. faults' # 0
      BY <2>1, <2>7 DEF DiskAppendFails
    <3>2. QED
      BY <2>7, <3>1 DEF DiskAppendFails, NamesListed, listed_names, Adding
  <2>8. QED
    BY <1>3, <2>2, <2>3, <2>4, <2>5, <2>6, <2>7 DEF DiskThread
<1>4. CASE Crash
  BY <1>1, <1>4 DEF Crash
<1>5. CASE Restart
  <2>1. PICK names \in SUBSET loaded_names, listed \in SUBSET listed_names :
          Load(names, listed)
    BY <1>5, RestartLoads
  <2>2. usernames' \subseteq listed_names
    BY <2>1 DEF Load
  <2>3. QED
    BY <1>5, <2>2 DEF Restart, NamesListed, listed_names, Adding
<1>6. CASE UNCHANGED disk_vars
  BY <1>1, <1>6 DEF disk_vars
<1>7. QED
  BY <1>2, <1>3, <1>4, <1>5, <1>6 DEF DiskNext

\* Records that are appended and records that are taken.
LEMMA AppendNewest ==
  ASSUME NEW S, NEW records \in Seq(S), NEW d \in S
  PROVE  Newest(Append(records, d), d.username, d.followed_by)
<1> DEFINE k == Len(records) + 1
<1>1. /\ k \in DOMAIN Append(records, d) /\ Append(records, d)[k] = d
      /\ \A j \in DOMAIN Append(records, d) : ~(j > k)
  OBVIOUS
<1>2. QED
  BY <1>1 DEF Newest

\* A record of another user does not touch what is newest of this one.
LEMMA AppendOther ==
  ASSUME NEW S, NEW records \in Seq(S), NEW d \in S, NEW name, NEW f,
         d.username # name
  PROVE  /\ Newest(records, name, f) => Newest(Append(records, d), name, f)
         /\ Absent(records, name) => Absent(Append(records, d), name)
<1> DEFINE k == Len(records) + 1
           longer == Append(records, d)
<1>1. /\ DOMAIN longer = DOMAIN records \cup {k}
      /\ longer[k] = d
      /\ \A i \in DOMAIN records : longer[i] = records[i]
  OBVIOUS
<1> HIDE DEF k, longer
<1>2. Absent(records, name) => Absent(longer, name)
  BY <1>1 DEF Absent
<1>3. Newest(records, name, f) => Newest(longer, name, f)
  BY <1>1 DEF Newest
<1>4. QED
  BY <1>2, <1>3 DEF longer

\* Taking the first record leaves the newest one, unless it was the only one.
LEMMA TailNewest ==
  ASSUME NEW S, NEW records \in Seq(S), records # << >>, NEW name, NEW f
  PROVE  /\ Newest(records, name, f) =>
              \/ Newest(Tail(records), name, f)
              \/ /\ Absent(Tail(records), name)
                 /\ Head(records).username = name
                 /\ Head(records).followed_by = f
         /\ Absent(records, name) =>
              Absent(Tail(records), name) /\ Head(records).username # name
<1> DEFINE rest == Tail(records)
<1>1. /\ DOMAIN records = 1 .. Len(records) /\ Len(records) \in Nat
      /\ 1 \in DOMAIN records /\ Head(records) = records[1]
      /\ \A i \in DOMAIN rest : i + 1 \in DOMAIN records /\ rest[i] = records[i + 1]
      /\ \A i \in DOMAIN records : i > 1 => i - 1 \in DOMAIN rest
      /\ \A i \in DOMAIN rest : i \in Nat /\ i >= 1
  OBVIOUS
<1> HIDE DEF rest
<1>2. Absent(records, name) => Absent(rest, name) /\ Head(records).username # name
  BY <1>1 DEF Absent
<1>3. ASSUME Newest(records, name, f)
      PROVE  \/ Newest(rest, name, f)
             \/ /\ Absent(rest, name)
                /\ Head(records).username = name
                /\ Head(records).followed_by = f
  <2>1. PICK i \in DOMAIN records :
          /\ records[i].username = name
          /\ records[i].followed_by = f
          /\ \A j \in DOMAIN records : j > i => records[j].username # name
    BY <1>3 DEF Newest
  <2>2. i \in Nat /\ i >= 1
    BY <1>1
  <2>3. CASE i = 1
    <3>1. \A j \in DOMAIN rest : j + 1 > 1
      BY <1>1
    <3>2. \A j \in DOMAIN rest : rest[j].username # name
      BY <1>1, <2>1, <2>3, <3>1
    <3>3. QED
      BY <1>1, <2>1, <2>3, <3>2 DEF Absent
  <2>4. CASE i # 1
    <3>1. i - 1 \in DOMAIN rest /\ rest[i - 1] = records[i]
      BY <1>1, <2>2, <2>4
    <3>2. ASSUME NEW j \in DOMAIN rest, j > i - 1
          PROVE  rest[j].username # name
      <4>1. j \in Nat /\ j + 1 > i
        BY <1>1, <2>2, <3>2
      <4>2. QED
        BY <1>1, <2>1, <4>1
    <3>3. QED
      BY <2>1, <3>1, <3>2 DEF Newest
  <2>5. QED
    BY <2>3, <2>4
<1>4. QED
  BY <1>2, <1>3 DEF rest

\* A write to one user's file leaves the other users as they were.
LEMMA OthersLoadable ==
  ASSUME NEW n, NEW lines, NEW record, WriteFile(n, lines, record),
         ~overwritten',
         NEW name \in loaded_names, name # n
  PROVE  name \in loaded_names' /\ user_file'[name] = user_file[name]
<1>1. /\ user_file' = Put(user_file, n, record)
      /\ directory_file' = directory_file
  BY DEF WriteFile
<1>2. listed_names' = listed_names
  BY <1>1 DEF listed_names
<1>3. /\ DOMAIN user_file' = DOMAIN user_file \cup {n}
      /\ \A x \in DOMAIN user_file : x # n => user_file'[x] = user_file[x]
  BY <1>1 DEF Put
<1>4. QED
  BY <1>2, <1>3 DEF loaded_names

\* The main thread forgets nothing: what it changes, it queues.
LEMMA MainForgetsNothing ==
  ASSUME TypesOK, PastInv, NothingForgotten, MainStep
  PROVE  NothingForgotten'
<1> SUFFICES ASSUME read_faults' = 0, ~overwritten' PROVE NothingForgotten'
  BY DEF NothingForgotten
<1> USE DEF file_vars, thread_vars, bound_vars, user_vars
<1>1. UNCHANGED <<batch, file_vars, read_faults, unwritten>>
  BY DEF MainStep, MainRegister, MainFollow, MainShutdown, MainExit,
     MainUnchanged
<1>2. /\ read_faults = 0 /\ ~overwritten /\ RegistryConsistent
      /\ loaded_names' = loaded_names /\ user_file' = user_file
  BY <1>1 DEF PastInv, loaded_names, listed_names
<1>3. queued \in Seq(ValidData)
  BY DEF TypesOK
<1>4. ASSUME UNCHANGED user_vars
      PROVE  NothingForgotten'
  BY <1>1, <1>2, <1>4 DEF NothingForgotten, queued
<1>5. ASSUME NEW d \in ValidData, queued' = Append(queued, d),
             NEW name \in DOMAIN username_to_id, name # d.username, NEW f,
             Kept(queued, batch, loaded_names, user_file, name, f)
      PROVE  Kept(queued', batch', loaded_names', user_file', name, f)
  <2>1. /\ Newest(queued, name, f) => Newest(queued', name, f)
        /\ Absent(queued, name) => Absent(queued', name)
    BY <1>3, <1>5, AppendOther
  <2>2. QED
    BY <1>1, <1>2, <1>5, <2>1 DEF Kept
<1>6. ASSUME NEW new \in ValidNames, MainRegister(new)
      PROVE  NothingForgotten'
  <2> DEFINE u == last_user_id + 1
             d == [user_id |-> u, username |-> new, followed_by |-> << >>]
  <2>1. /\ \A n \in DOMAIN username_to_id :
             id_to_user'[username_to_id[n]] = id_to_user[username_to_id[n]]
        /\ DOMAIN username_to_id' = DOMAIN username_to_id \cup {new}
        /\ username_to_id'[new] = u
        /\ \A n \in DOMAIN username_to_id : username_to_id'[n] = username_to_id[n]
        /\ id_to_user'[u].followed_by = << >>
        /\ queued' = Append(queued, d)
        /\ new \notin DOMAIN username_to_id
    BY <1>2, <1>6, RegisterGrows
  <2>2. d \in ValidData /\ d.username = new /\ d.followed_by = << >>
    <3>1. u \in UserIds
      BY DEF TypesOK, DiskTypeOK, UserTypeOK, UserIds, INVALID_USER_ID
    <3>2. << >> \in Seq(UserIds)
      OBVIOUS
    <3>3. QED
      BY <3>1, <3>2, ValidNamesAreNames DEF ValidData, UserPersistentData
  <2> HIDE DEF d, u
  <2>3. Newest(queued', new, << >>)
    BY <1>3, <2>1, <2>2, AppendNewest
  <2>4. ASSUME NEW name \in DOMAIN username_to_id' \ unwritten
        PROVE  Kept(queued', batch', loaded_names', user_file', name,
                    id_to_user'[username_to_id'[name]].followed_by)
    <3>1. CASE name = new
      BY <2>1, <2>3, <3>1 DEF Kept
    <3>2. CASE name # new
      <4>1. /\ name \in DOMAIN username_to_id
            /\ id_to_user'[username_to_id'[name]] = id_to_user[username_to_id[name]]
        BY <2>1, <3>2
      <4>2. Kept(queued, batch, loaded_names, user_file, name,
                 id_to_user[username_to_id[name]].followed_by)
        BY <1>2, <4>1 DEF NothingForgotten
      <4>3. Kept(queued', batch', loaded_names', user_file', name,
                 id_to_user[username_to_id[name]].followed_by)
        BY <1>5, <2>1, <2>2, <3>2, <4>1, <4>2
      <4>4. QED
        BY <4>1, <4>3
    <3>3. QED
      BY <3>1, <3>2
  <2>5. QED
    BY <1>1, <2>4 DEF NothingForgotten
<1>7. ASSUME NEW followed \in DOMAIN id_to_user, NEW follower \in DOMAIN id_to_user,
             MainFollow(followed, follower), ~already_follows(followed, follower)
      PROVE  NothingForgotten'
  <2> DEFINE f == Append(id_to_user[followed].followed_by, follower)
             owner == id_to_user[followed].username
             d == [user_id |-> followed, username |-> owner, followed_by |-> f]
  <2>1. /\ username_to_id' = username_to_id
        /\ id_to_user'[followed].followed_by = f
        /\ \A v \in DOMAIN id_to_user : v # followed => id_to_user'[v] = id_to_user[v]
        /\ queued' = Append(queued, d)
    BY <1>2, <1>7, FollowGrows
  <2>2. d \in ValidData /\ d.username = owner /\ d.followed_by = f
    <3>1. /\ followed \in UserIds /\ follower \in UserIds
          /\ id_to_user[followed] \in UserData /\ owner \in ValidNames
      BY DEF TypesOK, DiskTypeOK, UserTypeOK, IsMap
    <3>2. f \in Seq(UserIds)
      BY <3>1 DEF UserData
    <3>3. QED
      BY <3>1, <3>2, ValidNamesAreNames DEF ValidData, UserPersistentData
  <2> HIDE DEF d, f
  <2>3. Newest(queued', owner, f)
    BY <1>3, <2>1, <2>2, AppendNewest
  <2>4. ASSUME NEW name \in DOMAIN username_to_id \ unwritten
        PROVE  Kept(queued', batch', loaded_names', user_file', name,
                    id_to_user'[username_to_id[name]].followed_by)
    <3>1. CASE username_to_id[name] = followed
      <4>1. name = owner
        BY <1>2, <3>1 DEF RegistryConsistent
      <4>2. QED
        BY <2>1, <2>3, <3>1, <4>1 DEF Kept
    <3>2. CASE username_to_id[name] # followed
      <4>1. /\ username_to_id[name] \in DOMAIN id_to_user
            /\ name # owner
        BY <1>2, <3>2 DEF RegistryConsistent, user_id_exists
      <4>2. id_to_user'[username_to_id[name]] = id_to_user[username_to_id[name]]
        BY <2>1, <3>2, <4>1
      <4>3. Kept(queued, batch, loaded_names, user_file, name,
                 id_to_user[username_to_id[name]].followed_by)
        BY <1>2 DEF NothingForgotten
      <4>4. Kept(queued', batch', loaded_names', user_file', name,
                 id_to_user[username_to_id[name]].followed_by)
        BY <1>5, <2>1, <2>2, <4>1, <4>3
      <4>5. QED
        BY <4>2, <4>4
    <3>3. QED
      BY <3>1, <3>2
  <2>5. QED
    BY <1>1, <2>1, <2>4 DEF NothingForgotten
<1>8. ASSUME NEW followed \in DOMAIN id_to_user, NEW follower \in DOMAIN id_to_user,
             MainFollow(followed, follower), already_follows(followed, follower)
      PROVE  NothingForgotten'
  BY <1>4, <1>8 DEF MainFollow, add_follow, add_followed_by
<1>9. CASE MainShutdown \/ MainExit
  BY <1>4, <1>9 DEF MainShutdown, MainExit
<1>10. QED
  BY <1>6, <1>7, <1>8, <1>9 DEF MainStep

\* The disk thread forgets nothing: a record leaves the batch when its file
\* is written and its name listed.
LEMMA DiskForgetsNothing ==
  ASSUME TypesOK, PastInv, NamesListed, NothingForgotten, LastDrain, DiskThread
  PROVE  NothingForgotten'
<1> USE DEF file_vars, thread_vars, bound_vars, user_vars
<1> DEFINE f(name) == id_to_user[username_to_id[name]].followed_by
<1>1. UNCHANGED <<last_user_id, username_to_id, id_to_user, read_faults>>
  BY DEF DiskThread, DiskReadFlag, DiskDrain, DiskBatchDone, DiskOpen,
     DiskOpenFails, DiskWrite, DiskAppend, DiskAppendFails
<1>2. /\ unwritten \subseteq unwritten'
      /\ ~overwritten' => ~overwritten
  BY DEF DiskThread, DiskReadFlag, DiskDrain, DiskBatchDone, DiskOpen,
     DiskOpenFails, DiskWrite, DiskAppend, DiskAppendFails, WriteFile
<1> SUFFICES ASSUME read_faults' = 0, ~overwritten',
                    NEW name \in DOMAIN username_to_id \ unwritten'
             PROVE  Kept(queued', batch', loaded_names', user_file', name, f(name))
  BY <1>1 DEF NothingForgotten
<1>3. read_faults = 0 /\ ~overwritten /\ name \notin unwritten
  BY <1>1, <1>2
<1>4. Kept(queued, batch, loaded_names, user_file, name, f(name))
  BY <1>3 DEF NothingForgotten
<1> HIDE DEF f
<1>5. ASSUME UNCHANGED <<directory_file, user_file>>
      PROVE  loaded_names' = loaded_names
  BY <1>5 DEF loaded_names, listed_names
<1>6. ASSUME batch # << >>, queued' = queued, batch' = Tail(batch),
             \A n \in loaded_names :
               n # Head(batch).username =>
                 n \in loaded_names' /\ user_file'[n] = user_file[n],
             Head(batch).username = name =>
               /\ name \in loaded_names'
               /\ user_file'[name] = Record(Head(batch))
      PROVE  Kept(queued', batch', loaded_names', user_file', name, f(name))
  <2>1. batch \in Seq(ValidData)
    BY DEF TypesOK
  <2>2. /\ Newest(batch, name, f(name)) =>
             \/ Newest(Tail(batch), name, f(name))
             \/ /\ Absent(Tail(batch), name)
                /\ Head(batch).username = name
                /\ Head(batch).followed_by = f(name)
        /\ Absent(batch, name) =>
             Absent(Tail(batch), name) /\ Head(batch).username # name
    BY <1>6, <2>1, TailNewest
  <2>3. Head(batch).username = name =>
          user_file'[name].followed_by = Head(batch).followed_by
    BY <1>6 DEF Record
  <2>4. QED
    BY <1>4, <1>6, <2>2, <2>3 DEF Kept
<1>7. ASSUME queued' = queued, batch' = batch, batch # << >>,
             \A n \in loaded_names :
               n # Head(batch).username =>
                 n \in loaded_names' /\ user_file'[n] = user_file[n]
      PROVE  Kept(queued', batch', loaded_names', user_file', name, f(name))
  <2>1. Absent(batch, name) => Head(batch).username # name
    <3>1. 1 \in DOMAIN batch /\ Head(batch) = batch[1]
      BY <1>7 DEF TypesOK
    <3>2. QED
      BY <3>1 DEF Absent
  <2>2. QED
    BY <1>4, <1>7, <2>1 DEF Kept
<1>8. CASE DiskReadFlag \/ DiskBatchDone
  BY <1>4, <1>5, <1>8 DEF DiskReadFlag, DiskBatchDone, queued
<1>9. CASE DiskDrain
  <2>1. /\ batch = << >> /\ queued' = << >> /\ batch' = queued
        /\ loaded_names' = loaded_names /\ user_file' = user_file
    BY <1>5, <1>9 DEF DiskDrain, LastDrain, queued
  <2>2. Absent(<< >>, name) /\ ~Newest(<< >>, name, f(name))
    BY DEF Absent, Newest
  <2>3. QED
    BY <1>4, <2>1, <2>2 DEF Kept
<1>10. CASE DiskOpen
  <2>1. /\ queued' = queued /\ batch' = batch /\ batch # << >>
        /\ WriteFile(Head(batch).username, << >>, Torn)
    BY <1>10 DEF DiskOpen, queued
  <2>2. \A n \in loaded_names :
          n # Head(batch).username =>
            n \in loaded_names' /\ user_file'[n] = user_file[n]
    BY <2>1, OthersLoadable
  <2>3. QED
    BY <1>7, <2>1, <2>2
<1>11. CASE DiskWrite
  <2>1. batch # << >>
    BY <1>11 DEF DiskWrite, TypesOK
  <2>2. /\ queued' = queued /\ pc = "write"
        /\ WriteFile(Head(batch).username, <<Torn>>, Record(Head(batch)))
        /\ IF user_added THEN batch' = batch ELSE batch' = Tail(batch)
    BY <1>11 DEF DiskWrite, queued
  <2>3. Head(batch).username \in ValidNames /\ Record(Head(batch)) \in FileContent
    BY <2>1, HeadTypes
  <2>4. \A n \in loaded_names :
          n # Head(batch).username =>
            n \in loaded_names' /\ user_file'[n] = user_file[n]
    BY <2>2, OthersLoadable
  <2>5. CASE user_added
    BY <1>7, <2>1, <2>2, <2>4, <2>5
  <2>6. CASE ~user_added
    <3>1. /\ user_file' = Put(user_file, Head(batch).username, Record(Head(batch)))
          /\ directory_file' = directory_file
      BY <2>2, <2>3 DEF WriteFile
    <3>2. /\ Head(batch).username \in DOMAIN user_file'
          /\ user_file'[Head(batch).username] = Record(Head(batch))
      BY <3>1 DEF Put
    <3>3. Head(batch).username = name => name \in listed_names
      BY <1>3, <2>2, <2>6 DEF NamesListed, Adding
    <3>4. listed_names' = listed_names
      BY <3>1 DEF listed_names
    <3>5. Record(Head(batch)) # Torn
      BY <2>3, TornIsNotWhole
    <3>6. Head(batch).username = name => name \in loaded_names'
      BY <3>2, <3>3, <3>4, <3>5 DEF loaded_names
    <3>7. batch' = Tail(batch)
      BY <2>2, <2>6
    <3>8. QED
      BY <1>6, <2>1, <2>2, <2>4, <3>2, <3>6, <3>7
  <2>7. QED
    BY <2>5, <2>6
<1>12. CASE DiskAppend
  <2>1. batch # << >>
    BY <1>12 DEF DiskAppend, TypesOK
  <2>2. /\ queued' = queued /\ pc = "append" /\ batch' = Tail(batch)
        /\ user_file' = user_file
    BY <1>12 DEF DiskAppend, queued
  <2>3. Head(batch).username \in ValidNames /\ Record(Head(batch)) \in FileContent
    BY <2>1, HeadTypes
  <2>4. listed_names' = listed_names \cup {Head(batch).username}
    BY <1>3, <1>12, <2>3, AppendLists
  <2>5. /\ Head(batch).username \in DOMAIN user_file
        /\ user_file[Head(batch).username] = Record(Head(batch))
    BY <1>3, <2>2 DEF NamesListed, PastInv, HeadWritten
  <2>6. Record(Head(batch)) # Torn
    BY <2>3, TornIsNotWhole
  <2>7. Head(batch).username \in loaded_names'
    BY <2>2, <2>4, <2>5, <2>6 DEF loaded_names
  <2>8. \A n \in loaded_names : n \in loaded_names' /\ user_file'[n] = user_file[n]
    BY <2>2, <2>4 DEF loaded_names
  <2>9. QED
    BY <1>6, <2>1, <2>2, <2>5, <2>7, <2>8
<1>13. CASE DiskOpenFails \/ DiskAppendFails
  <2>1. batch # << >>
    BY <1>13 DEF DiskOpenFails, DiskAppendFails, TypesOK
  <2>2. /\ queued' = queued /\ batch' = Tail(batch) /\ user_file' = user_file
        /\ directory_file' = directory_file
        /\ Head(batch).username \in unwritten'
    BY <1>13 DEF DiskOpenFails, DiskAppendFails, queued
  <2>3. Head(batch).username # name
    BY <2>2
  <2>4. loaded_names' = loaded_names
    BY <1>5, <2>2
  <2>5. QED
    BY <1>6, <2>1, <2>2, <2>3, <2>4
<1>14. QED
  BY <1>8, <1>9, <1>10, <1>11, <1>12, <1>13 DEF DiskThread

\* When the process has stopped after SIGINT, every user is on disk as it is,
\* but for those whose file could not be opened or listed.
LEMMA StoppedIsSaved ==
  ASSUME PastInv, NothingForgotten, LastDrain, status = "stopped",
         read_faults = 0, ~overwritten
  PROVE  /\ loaded_names \subseteq DOMAIN username_to_id
         /\ \A name \in DOMAIN username_to_id \ unwritten : Saved(name)
<1>1. batch = << >> /\ queued = << >>
  BY DEF LastDrain
<1>2. \A name, g : ~Newest(<< >>, name, g)
  BY DEF Newest
<1>3. \A name \in DOMAIN username_to_id \ unwritten :
        /\ name \in loaded_names
        /\ user_file[name].followed_by = id_to_user[username_to_id[name]].followed_by
  BY <1>1, <1>2 DEF NothingForgotten, Kept
<1>4. \A name \in loaded_names :
        /\ name \in DOMAIN username_to_id
        /\ user_file[name].user_id = username_to_id[name]
  BY DEF PastInv, DiskIsAPast
<1>5. QED
  BY <1>3, <1>4 DEF Saved

\* A start knows what is on disk, all of it.
LEMMA RestartForgetsNothing ==
  ASSUME TypesOK, PastInv, Restart
  PROVE  NothingForgotten'
<1> SUFFICES ASSUME read_faults' = 0 PROVE NothingForgotten'
  BY DEF NothingForgotten
<1>1. /\ Load(loaded_names, listed_names) /\ read_faults = 0
  BY RestartLoads DEF TypesOK, DiskTypeOK
<1>2. RegistryConsistent /\ DiskIsAPast
  BY <1>1 DEF PastInv
<1>3. /\ DOMAIN username_to_id' = loaded_names
      /\ \A name \in loaded_names :
           id_to_user'[username_to_id'[name]].followed_by = user_file[name].followed_by
  BY <1>1, <1>2, LoadedMemory
<1>4. loaded_names' = loaded_names /\ user_file' = user_file
  BY DEF Restart, file_vars, loaded_names, listed_names
<1>5. queued' = << >> /\ batch' = << >>
  BY DEF Restart, queued
<1>6. \A name : Absent(<< >>, name)
  BY DEF Absent
<1>7. \A name \in DOMAIN username_to_id' :
        Kept(queued', batch', loaded_names', user_file', name,
             id_to_user'[username_to_id'[name]].followed_by)
  BY <1>3, <1>4, <1>5, <1>6 DEF Kept
<1>8. QED
  BY <1>7 DEF NothingForgotten

\* Every step.
LEMMA NextForgetsNothing ==
  ASSUME TypesOK, PastInv, NamesListed, NothingForgotten, LastDrain,
         [DiskNext]_disk_vars
  PROVE  NothingForgotten'
<1> USE DEF file_vars, thread_vars, bound_vars, user_vars
<1>1. ASSUME UNCHANGED <<user_vars, batch, file_vars, read_faults, unwritten>>
      PROVE  NothingForgotten'
  <2>1. loaded_names' = loaded_names
    BY <1>1 DEF loaded_names, listed_names
  <2>2. QED
    BY <1>1, <2>1 DEF NothingForgotten, queued
<1>2. CASE MainStep
  BY <1>2, MainForgetsNothing
<1>3. CASE DiskThread
  BY <1>3, DiskForgetsNothing
<1>4. CASE Crash
  BY <1>1, <1>4 DEF Crash
<1>5. CASE Restart
  BY <1>5, RestartForgetsNothing
<1>6. CASE UNCHANGED disk_vars
  BY <1>1, <1>6 DEF disk_vars
<1>7. QED
  BY <1>2, <1>3, <1>4, <1>5, <1>6 DEF DiskNext

\* Follower lists name registered users, in every step.
LEMMA NextFollowers ==
  ASSUME TypesOK, PastInv, NamesListed, NothingForgotten, LastDrain,
         FollowersSurviveExits, [DiskNext]_disk_vars
  PROVE  FollowersSurviveExits'
<1> SUFFICES ASSUME crashes' = 0, NoOpenFailed', ~overwritten'
             PROVE  FollowersRegistered'
  BY DEF FollowersSurviveExits
<1> USE DEF file_vars, thread_vars, bound_vars, user_vars
<1>1. /\ crashes \in Nat /\ faults \in Nat /\ read_faults \in Nat
  BY DEF TypesOK, DiskTypeOK
<1>2. ASSUME UNCHANGED <<crashes, read_faults>>, ~overwritten,
             UNCHANGED faults \/ faults' = faults + 1
      PROVE  FollowersRegistered /\ RegistryConsistent
  BY <1>1, <1>2 DEF FollowersSurviveExits, NoOpenFailed, PastInv
<1>3. ASSUME UNCHANGED id_to_user, FollowersRegistered
      PROVE  FollowersRegistered'
  BY <1>3 DEF FollowersRegistered, user_id_exists
<1>4. CASE MainStep
  <2>1. UNCHANGED <<crashes, faults, read_faults, overwritten>>
    BY <1>4 DEF MainStep, MainRegister, MainFollow, MainShutdown, MainExit,
       MainUnchanged
  <2>2. FollowersRegistered /\ RegistryConsistent
    BY <1>2, <2>1
  <2>3. ASSUME NEW name \in ValidNames, MainRegister(name)
        PROVE  FollowersRegistered'
    <3> DEFINE u == last_user_id + 1
    <3>1. /\ DOMAIN id_to_user' = DOMAIN id_to_user \cup {u}
          /\ \A v \in DOMAIN id_to_user : id_to_user'[v] = id_to_user[v]
          /\ id_to_user'[u].followed_by = << >>
      BY <2>2, <2>3, RegisterGrows
    <3> HIDE DEF u
    <3>2. QED
      BY <2>2, <3>1 DEF FollowersRegistered, user_id_exists
  <2>4. ASSUME NEW followed \in DOMAIN id_to_user, NEW follower \in DOMAIN id_to_user,
               MainFollow(followed, follower), ~already_follows(followed, follower)
        PROVE  FollowersRegistered'
    <3> DEFINE old == id_to_user[followed].followed_by
               f   == Append(old, follower)
    <3>1. /\ DOMAIN id_to_user' = DOMAIN id_to_user
          /\ id_to_user'[followed].followed_by = f
          /\ \A v \in DOMAIN id_to_user : v # followed => id_to_user'[v] = id_to_user[v]
      BY <2>2, <2>4, FollowGrows
    <3>2. old \in Seq(UserIds) /\ follower \in UserIds
      BY DEF TypesOK, DiskTypeOK, UserTypeOK, IsMap, UserData
    <3>3. \A i \in DOMAIN f : f[i] = follower \/ (i \in DOMAIN old /\ f[i] = old[i])
      BY <3>2, AppendElements
    <3> HIDE DEF f
    <3>4. \A i \in DOMAIN f : f[i] \in DOMAIN id_to_user
      BY <2>2, <3>3 DEF FollowersRegistered, user_id_exists
    <3>5. QED
      BY <2>2, <3>1, <3>4 DEF FollowersRegistered, user_id_exists
  <2>5. ASSUME NEW followed \in DOMAIN id_to_user, NEW follower \in DOMAIN id_to_user,
               MainFollow(followed, follower), already_follows(followed, follower)
        PROVE  FollowersRegistered'
    BY <1>3, <2>2, <2>5 DEF MainFollow, add_follow, add_followed_by
  <2>6. CASE MainShutdown \/ MainExit
    BY <1>3, <2>2, <2>6 DEF MainShutdown, MainExit
  <2>7. QED
    BY <1>4, <2>3, <2>4, <2>5, <2>6 DEF MainStep
<1>5. CASE DiskThread
  <2>1. /\ UNCHANGED <<id_to_user, crashes, read_faults>>
        /\ UNCHANGED faults \/ faults' = faults + 1
        /\ ~overwritten
    BY <1>5 DEF DiskThread, DiskReadFlag, DiskDrain, DiskBatchDone, DiskOpen,
       DiskOpenFails, DiskWrite, DiskAppend, DiskAppendFails, WriteFile
  <2>2. QED
    BY <1>2, <1>3, <2>1
<1>6. CASE Crash
  BY <1>1, <1>6 DEF Crash
<1>7. CASE Restart
  <2>1. /\ Load(loaded_names, listed_names) /\ read_faults = 0
    BY <1>7, RestartLoads DEF TypesOK, DiskTypeOK, NoOpenFailed
  <2>2. crashes = 0 /\ NoOpenFailed /\ ~overwritten /\ unwritten = {}
    BY <1>7, <2>1 DEF Restart, NoOpenFailed, NamesListed
  <2>3. status = "stopped"
    BY <1>7, <2>2 DEF Restart, Alive, LastDrain, TypesOK, DiskTypeOK
  <2>4. /\ FollowersRegistered /\ RegistryConsistent /\ DiskIsAPast
    BY <2>1, <2>2 DEF FollowersSurviveExits, PastInv
  <2>5. /\ loaded_names = DOMAIN username_to_id
        /\ \A name \in loaded_names :
             user_file[name].followed_by = id_to_user[username_to_id[name]].followed_by
    BY <2>2, <2>3, StoppedIsSaved DEF Saved, NoOpenFailed
  <2>6. /\ DOMAIN username_to_id' = loaded_names
        /\ \A name \in loaded_names :
             /\ username_to_id'[name] = username_to_id[name]
             /\ username_to_id'[name] \in DOMAIN id_to_user'
             /\ id_to_user'[username_to_id'[name]].followed_by =
                  user_file[name].followed_by
        /\ \A u \in DOMAIN id_to_user' :
             /\ id_to_user'[u].username \in loaded_names
             /\ username_to_id'[id_to_user'[u].username] = u
    BY <2>1, <2>4, LoadedMemory
  <2>7. DOMAIN id_to_user \subseteq DOMAIN id_to_user'
    BY <2>4, <2>5, <2>6 DEF RegistryConsistent
  <2>8. \A u \in DOMAIN id_to_user' :
          /\ u \in DOMAIN id_to_user
          /\ id_to_user'[u].followed_by = id_to_user[u].followed_by
    <3> SUFFICES ASSUME NEW u \in DOMAIN id_to_user'
                 PROVE  /\ u \in DOMAIN id_to_user
                        /\ id_to_user'[u].followed_by = id_to_user[u].followed_by
      OBVIOUS
    <3> DEFINE n == id_to_user'[u].username
    <3>1. n \in loaded_names /\ username_to_id'[n] = u
      BY <2>6
    <3> HIDE DEF n
    <3>2. /\ username_to_id[n] = u
          /\ id_to_user'[u].followed_by = user_file[n].followed_by
      BY <2>6, <3>1
    <3>3. user_file[n].followed_by = id_to_user[u].followed_by
      BY <2>5, <3>1, <3>2
    <3>4. u \in DOMAIN id_to_user
      BY <2>4, <2>5, <3>1, <3>2 DEF RegistryConsistent, user_id_exists
    <3>5. QED
      BY <3>2, <3>3, <3>4
  <2>9. QED
    BY <2>4, <2>7, <2>8 DEF FollowersRegistered, user_id_exists
<1>8. CASE UNCHANGED disk_vars
  BY <1>2, <1>3, <1>8 DEF disk_vars
<1>9. QED
  BY <1>4, <1>5, <1>6, <1>7, <1>8 DEF DiskNext

\* The first start.
LEMMA InitDisk == DiskInit => IInv
<1> SUFFICES ASSUME DiskInit PROVE IInv
  OBVIOUS
<1>1. PastIInv
  BY InitTypes, InitPast DEF PastIInv
<1>2. << >> \in Seq(ValidNames)
  OBVIOUS
<1>3. NamesListed
  BY <1>2 DEF DiskInit, NamesListed, Adding
<1>4. NothingForgotten
  BY DEF DiskInit, UserInit, NothingForgotten, EmptyMap
<1>5. LastDrain
  BY DEF DiskInit, UserInit, LastDrain, queued
<1>6. FollowersSurviveExits
  BY DEF DiskInit, UserInit, FollowersSurviveExits, FollowersRegistered, EmptyMap
<1>7. QED
  BY <1>1, <1>3, <1>4, <1>5, <1>6 DEF IInv

(***************************************************************************)
(* The whole inductive invariant of fn_disk_io, the main thread, crashes   *)
(* and starts, whatever users are called.                                  *)
(***************************************************************************)
THEOREM DiskInvariant == DiskSpec => []IInv
<1>1. ASSUME IInv, [DiskNext]_disk_vars PROVE IInv'
  <2>1. /\ TypesOK /\ PastInv /\ NamesListed /\ NothingForgotten /\ LastDrain
        /\ FollowersSurviveExits
    BY <1>1 DEF IInv, PastIInv
  <2>2. TypesOK' /\ PastInv'
    BY <1>1, <2>1, NextTypes, NextPast
  <2>3. NamesListed'
    BY <1>1, <2>1, NextNamesListed
  <2>4. NothingForgotten'
    BY <1>1, <2>1, NextForgetsNothing
  <2>5. LastDrain'
    BY <1>1, <2>1, NextLastDrain
  <2>6. FollowersSurviveExits'
    BY <1>1, <2>1, NextFollowers
  <2>7. QED
    BY <2>2, <2>3, <2>4, <2>5, <2>6 DEF IInv, PastIInv
<1>2. QED
  BY <1>1, InitDisk, PTL DEF DiskSpec

(***************************************************************************)
(* A clean exit loses nothing but the users whose own file could not be    *)
(* opened or listed: fn_disk_io reads must_terminate before it drains, so  *)
(* its last batch holds whatever the main thread queued, and the next      *)
(* start finds every other user as it was.  This holds whatever users are  *)
(* called, until a record is written over the directory itself.            *)
(***************************************************************************)
THEOREM CleanExitAlwaysDurable == DiskSpec => []CleanExitDurable
<1>1. IInv => CleanExitDurable
  BY StoppedIsSaved DEF IInv, PastIInv, CleanExitDurable
<1>2. QED
  BY <1>1, DiskInvariant, PTL

(***************************************************************************)
(* Follower lists name registered users across clean exits and restarts,   *)
(* as the "Sanity check, this shouldn't happen." of notification.cpp says, *)
(* whatever users are called, as long as no record was written over the    *)
(* directory, no open failed and the process did not crash.                *)
(***************************************************************************)
THEOREM FollowersAlwaysSurviveExits == DiskSpec => []FollowersSurviveExits
<1>1. IInv => FollowersSurviveExits
  BY DEF IInv
<1>2. QED
  BY <1>1, DiskInvariant, PTL
=============================================================================
