-------------------------- MODULE ServerFeedProofs --------------------------
(***************************************************************************)
(* The server implements Feed, for any sets of addresses, names and texts  *)
(* and any bounds: each handler, seen through the refinement mapping of    *)
(* ServerFeed, does what one action of Feed does or changes nothing that   *)
(* Feed can see.                                                           *)
(***************************************************************************)
EXTENDS ServerFeed, ServerProofs, WellFoundedInduction

-----------------------------------------------------------------------------
(***************************************************************************)
(* The posts among queued messages.                                        *)
(***************************************************************************)

\* What Feed sees of a post.
Content(m) == [author |-> m.username, text |-> m.body]

Contents(msgs) == [k \in DOMAIN msgs |-> Content(msgs[k])]

\* How many posts there are up to a position.
Rank(msgs, i) == Cardinality({j \in PostsAt(msgs) : j <= i})

\* Posts are finitely many, and their ranks are at most their number.
LEMMA PostsFinite ==
  ASSUME NEW msgs \in Seq(ServerMessageData)
  PROVE  /\ IsFiniteSet(PostsAt(msgs))
         /\ Cardinality(PostsAt(msgs)) \in Nat
         /\ \A i : /\ IsFiniteSet({j \in PostsAt(msgs) : j <= i})
                   /\ Rank(msgs, i) \in Nat
                   /\ Rank(msgs, i) <= Cardinality(PostsAt(msgs))
<1>1. IsFiniteSet(DOMAIN msgs)
  BY FS_Interval
<1>2. PostsAt(msgs) \subseteq DOMAIN msgs
  BY DEF PostsAt
<1>3. IsFiniteSet(PostsAt(msgs))
  BY <1>1, <1>2, FS_Subset
<1>4. \A i : {j \in PostsAt(msgs) : j <= i} \subseteq PostsAt(msgs)
  OBVIOUS
<1>5. QED
  BY <1>3, <1>4, FS_Subset, FS_CardinalityType DEF Rank

\* A list of n members of a set is a sequence of length n.
LEMMA ListIsSeq ==
  ASSUME NEW S, NEW n \in Nat, NEW f, f = [k \in 1 .. n |-> f[k]],
         \A k \in 1 .. n : f[k] \in S
  PROVE  f \in Seq(S) /\ Len(f) = n
<1>1. f \in [1 .. n -> S]
  BY Zenon
<1>2. QED
  BY <1>1

\* There is no post in an empty queue.
LEMMA PostsOfNone == Posts(<< >>) = << >>
<1>1. PostsAt(<< >>) = {}
  BY DEF PostsAt
<1>2. Cardinality(PostsAt(<< >>)) = 0
  BY <1>1, FS_EmptySet
<1>3. QED
  BY <1>2 DEF Posts

\* A set of numbers that has an element has a least element.
LEMMA LeastExists ==
  ASSUME NEW S \in SUBSET Nat, S # {}
  PROVE  \E u \in S : \A v \in S : u <= v
<1>1. PICK t \in S : \A s \in S : ~ (<<s, t>> \in OpToRel(<, Nat))
  BY WFMin, NatLessThanWellFounded
<1>2. \A s \in Nat : s < t => <<s, t>> \in OpToRel(<, Nat)
  BY <1>1 DEF OpToRel
<1>3. ASSUME NEW s \in S PROVE t <= s
  <2>1. s \in Nat /\ t \in Nat /\ ~ (s < t)
    BY <1>1, <1>2
  <2>2. QED
    BY <2>1
<1>4. QED
  BY <1>1, <1>3

\* Ranks count up from 0, by one at each post.
LEMMA RankStep ==
  ASSUME NEW msgs \in Seq(ServerMessageData)
  PROVE  /\ Rank(msgs, 0) = 0
         /\ Rank(msgs, Len(msgs)) = Cardinality(PostsAt(msgs))
         /\ \A i \in Nat :
              Rank(msgs, i + 1) = Rank(msgs, i) +
                                    (IF i + 1 \in PostsAt(msgs) THEN 1 ELSE 0)
<1>1. PostsAt(msgs) \subseteq 1 .. Len(msgs) /\ Len(msgs) \in Nat
  BY DEF PostsAt
<1>2. Rank(msgs, 0) = 0
  <2>1. {j \in PostsAt(msgs) : j <= 0} = {}
    BY <1>1
  <2>2. QED
    BY <2>1, FS_EmptySet DEF Rank
<1>3. Rank(msgs, Len(msgs)) = Cardinality(PostsAt(msgs))
  <2>1. {j \in PostsAt(msgs) : j <= Len(msgs)} = PostsAt(msgs)
    BY <1>1
  <2>2. QED
    BY <2>1 DEF Rank
<1>4. ASSUME NEW i \in Nat
      PROVE  Rank(msgs, i + 1) = Rank(msgs, i) +
                                   (IF i + 1 \in PostsAt(msgs) THEN 1 ELSE 0)
  <2> DEFINE upto(n) == {j \in PostsAt(msgs) : j <= n}
  <2>1. CASE i + 1 \in PostsAt(msgs)
    <3>1. upto(i + 1) = upto(i) \cup {i + 1} /\ i + 1 \notin upto(i)
      BY <1>1, <2>1
    <3>2. IsFiniteSet(upto(i))
      BY PostsFinite
    <3> HIDE DEF upto
    <3>3. Cardinality(upto(i + 1)) = Cardinality(upto(i)) + 1
      BY <3>1, <3>2, FS_AddElement
    <3>4. QED
      BY <2>1, <3>3 DEF Rank, upto
  <2>2. CASE i + 1 \notin PostsAt(msgs)
    <3>1. upto(i + 1) = upto(i)
      BY <1>1, <2>2
    <3>2. Rank(msgs, i + 1) = Rank(msgs, i) /\ Rank(msgs, i) \in Nat
      BY <3>1, PostsFinite DEF Rank
    <3>3. QED
      BY <2>2, <3>2
  <2>3. QED
    BY <2>1, <2>2
<1>5. QED
  BY <1>2, <1>3, <1>4

\* There is a post of every rank.
LEMMA EveryRank ==
  ASSUME NEW msgs \in Seq(ServerMessageData),
         NEW k \in 1 .. Cardinality(PostsAt(msgs))
  PROVE  \E i \in PostsAt(msgs) : Rank(msgs, i) = k
<1> DEFINE S == {i \in Nat : k <= Rank(msgs, i)}
<1>0. Cardinality(PostsAt(msgs)) \in Nat /\ Len(msgs) \in Nat
  BY PostsFinite
<1>1. S \subseteq Nat /\ S # {}
  <2>1. Len(msgs) \in S
    BY <1>0, RankStep
  <2>2. QED
    BY <2>1
<1>2. PICK i \in S : \A j \in S : i <= j
  <2> HIDE DEF S
  <2>1. QED
    BY <1>1, LeastExists
<1>3. i \in Nat /\ k <= Rank(msgs, i) /\ i # 0
  BY <1>0, <1>2, RankStep
<1>4. i - 1 \in Nat /\ (i - 1) + 1 = i
  BY <1>3
<1>5. ~(k <= Rank(msgs, i - 1))
  BY <1>2, <1>4
<1>6. Rank(msgs, i) = Rank(msgs, i - 1) + (IF i \in PostsAt(msgs) THEN 1 ELSE 0)
  BY <1>4, RankStep
<1>7. Rank(msgs, i - 1) \in Nat
  BY PostsFinite
<1>8. i \in PostsAt(msgs) /\ Rank(msgs, i) = k
  BY <1>0, <1>3, <1>5, <1>6, <1>7
<1>9. QED
  BY <1>8

\* No two posts have the same rank.
LEMMA RankUnique ==
  ASSUME NEW msgs \in Seq(ServerMessageData),
         NEW i \in PostsAt(msgs), NEW j \in PostsAt(msgs), i < j
  PROVE  Rank(msgs, i) < Rank(msgs, j)
<1> DEFINE upto(n) == {l \in PostsAt(msgs) : l <= n}
<1>1. PostsAt(msgs) \subseteq Nat
  BY DEF PostsAt
<1>2. upto(i) \subseteq upto(j) /\ j \in upto(j) /\ j \notin upto(i)
  BY <1>1
<1>3. IsFiniteSet(upto(j))
  BY PostsFinite
<1> HIDE DEF upto
<1>4. Cardinality(upto(i)) < Cardinality(upto(j))
  BY <1>2, <1>3, FS_Subset, FS_CardinalityType
<1>5. QED
  BY <1>4 DEF Rank, upto

\* The post of rank k is the k-th.
LEMMA PostOfRank ==
  ASSUME NEW msgs \in Seq(ServerMessageData), NEW i \in PostsAt(msgs)
  PROVE  /\ DOMAIN Posts(msgs) = 1 .. Cardinality(PostsAt(msgs))
         /\ Rank(msgs, i) \in DOMAIN Posts(msgs)
         /\ Posts(msgs)[Rank(msgs, i)] = Content(msgs[i])
<1> DEFINE k == Rank(msgs, i)
           j == CHOOSE j \in PostsAt(msgs) : Rank(msgs, j) = k
<1>1. DOMAIN Posts(msgs) = 1 .. Cardinality(PostsAt(msgs))
  BY DEF Posts
<1>2. i \in Nat \ {0} /\ PostsAt(msgs) \subseteq Nat
  BY DEF PostsAt
<1>3. k \in 1 .. Cardinality(PostsAt(msgs))
  <2>1. i - 1 \in Nat /\ (i - 1) + 1 = i
    BY <1>2
  <2>2. k = Rank(msgs, i - 1) + 1 /\ Rank(msgs, i - 1) \in Nat
    BY <2>1, RankStep, PostsFinite
  <2>3. k <= Cardinality(PostsAt(msgs)) /\ Cardinality(PostsAt(msgs)) \in Nat
    BY PostsFinite
  <2> HIDE DEF k
  <2>4. QED
    BY <2>2, <2>3
<1>4. j \in PostsAt(msgs) /\ Rank(msgs, j) = k
  OBVIOUS
<1>5. Posts(msgs)[k] = Content(msgs[j])
  BY <1>3 DEF Posts, Content, Rank
<1>6. j = i
  <2> HIDE DEF j
  <2>1. Rank(msgs, i) \in Nat /\ Rank(msgs, j) = Rank(msgs, i) /\ j \in PostsAt(msgs)
    BY <1>4, PostsFinite
  <2>2. CASE i < j
    BY <2>1, <2>2, RankUnique
  <2>3. CASE j < i
    BY <2>1, <2>3, RankUnique
  <2>4. QED
    BY <1>2, <1>4, <2>2, <2>3
<1>7. QED
  BY <1>1, <1>3, <1>5, <1>6

\* Messages that are no posts change nothing.
LEMMA PostsThenOthers ==
  ASSUME NEW q \in Seq(ServerMessageData), NEW r \in Seq(ServerMessageData),
         \A k \in DOMAIN r : r[k].msg_type # "ServerSendCommand"
  PROVE  Posts(q \o r) = Posts(q)
<1> DEFINE s == q \o r
           n == Cardinality(PostsAt(q))
<1>1. /\ s \in Seq(ServerMessageData)
      /\ DOMAIN s = 1 .. Len(q) + Len(r)
      /\ Len(q) \in Nat /\ Len(r) \in Nat
      /\ \A i \in 1 .. Len(q) : s[i] = q[i]
      /\ \A i \in DOMAIN s : i > Len(q) => s[i] = r[i - Len(q)]
  OBVIOUS
<1> HIDE DEF s
<1>2. PostsAt(s) = PostsAt(q)
  <2>1. \A i \in DOMAIN s : i > Len(q) => s[i].msg_type # "ServerSendCommand"
    BY <1>1
  <2>2. \A i \in DOMAIN s : i \in DOMAIN q \/ i > Len(q)
    BY <1>1
  <2>3. DOMAIN q \subseteq DOMAIN s /\ \A i \in DOMAIN q : s[i] = q[i]
    BY <1>1
  <2>4. QED
    BY <2>1, <2>2, <2>3 DEF PostsAt
<1>3. \A i : Rank(s, i) = Rank(q, i)
  BY <1>2 DEF Rank
<1>4. DOMAIN Posts(s) = 1 .. n /\ DOMAIN Posts(q) = 1 .. n
  BY <1>2 DEF Posts
<1>5. ASSUME NEW k \in 1 .. n PROVE Posts(s)[k] = Posts(q)[k]
  <2>1. PICK i \in PostsAt(q) : Rank(q, i) = k
    BY EveryRank
  <2>2. s[i] = q[i]
    BY <1>1, <2>1 DEF PostsAt
  <2>3. QED
    BY <1>1, <1>2, <1>3, <2>1, <2>2, PostOfRank
<1>6. Posts(s) = Posts(q)
  BY <1>4, <1>5 DEF Posts
<1>7. QED
  BY <1>6 DEF s

\* Two sequences, one behind the other.
LEMMA Joined ==
  ASSUME NEW S, NEW p \in Seq(S), NEW c \in Seq(S)
  PROVE  /\ p \o c \in Seq(S)
         /\ Len(p \o c) = Len(p) + Len(c)
         /\ \A k \in 1 .. Len(p) : (p \o c)[k] = p[k]
         /\ \A k \in 1 .. Len(c) : (p \o c)[Len(p) + k] = c[k]
OBVIOUS

\* Posts come behind the others, in their order.
LEMMA PostsThenPosts ==
  ASSUME NEW q \in Seq(ServerMessageData), NEW r \in Seq(ServerMessageData),
         \A k \in DOMAIN r : r[k].msg_type = "ServerSendCommand"
  PROVE  Posts(q \o r) = Posts(q) \o Contents(r)
<1> DEFINE s == q \o r
           m == Len(q)
           n == Cardinality(PostsAt(q))
<1>1. /\ s \in Seq(ServerMessageData)
      /\ DOMAIN s = 1 .. m + Len(r) /\ DOMAIN r = 1 .. Len(r)
      /\ m \in Nat /\ Len(r) \in Nat
      /\ \A i \in 1 .. m : s[i] = q[i]
      /\ \A k \in DOMAIN r : s[m + k] = r[k]
      /\ PostsAt(q) \subseteq 1 .. m
  BY DEF PostsAt
<1>0. n \in Nat /\ IsFiniteSet(PostsAt(q))
  BY PostsFinite
<1> HIDE DEF s, m
<1>2. PostsAt(s) = PostsAt(q) \cup ((m + 1) .. (m + Len(r)))
  <2>1. \A i \in 1 .. m : i \in PostsAt(s) <=> i \in PostsAt(q)
    BY <1>1 DEF PostsAt, m
  <2>2. \A i \in (m + 1) .. (m + Len(r)) : i \in PostsAt(s)
    <3>1. SUFFICES ASSUME NEW i \in (m + 1) .. (m + Len(r))
                   PROVE  i \in PostsAt(s)
      OBVIOUS
    <3>2. i - m \in DOMAIN r /\ m + (i - m) = i /\ i \in DOMAIN s
      BY <1>1
    <3>3. QED
      BY <1>1, <3>2 DEF PostsAt
  <2>3. PostsAt(s) \subseteq 1 .. m + Len(r)
    BY <1>1 DEF PostsAt
  <2>4. QED
    BY <1>1, <2>1, <2>2, <2>3
<1>3. ASSUME NEW d \in 0 .. Len(r)
      PROVE  Rank(s, m + d) = n + d
  <2> DEFINE T == (m + 1) .. (m + d)
  <2>1. {j \in PostsAt(s) : j <= m + d} = PostsAt(q) \cup T
    BY <1>1, <1>2
  <2>2. PostsAt(q) \cap T = {}
    BY <1>1
  <2>3. IsFiniteSet(T) /\ Cardinality(T) = d
    <3>1. m + 1 \in Int /\ m + d \in Int /\ m \in Nat /\ d \in Nat
      BY <1>1
    <3>2. Cardinality(T) = IF m + 1 > m + d THEN 0 ELSE (m + d) - (m + 1) + 1
      BY <3>1, FS_Interval
    <3>3. QED
      BY <3>1, <3>2, FS_Interval
  <2> HIDE DEF T
  <2>4. Cardinality(PostsAt(q) \cup T) = n + d
    <3>1. Cardinality(PostsAt(q) \cap T) = 0
      BY <2>2, FS_EmptySet
    <3>2. Cardinality(PostsAt(q) \cup T) =
            n + Cardinality(T) - Cardinality(PostsAt(q) \cap T)
      BY <1>0, <2>3, FS_Union
    <3> HIDE DEF n
    <3>3. QED
      BY <1>0, <2>3, <3>1, <3>2
  <2>5. QED
    BY <2>1, <2>4 DEF Rank
<1>4. \A i \in PostsAt(q) : Rank(s, i) = Rank(q, i)
  <2>1. ASSUME NEW i \in PostsAt(q)
        PROVE  {j \in PostsAt(s) : j <= i} = {j \in PostsAt(q) : j <= i}
    BY <1>1, <1>2
  <2>2. QED
    BY <2>1 DEF Rank
<1>5. Cardinality(PostsAt(s)) = n + Len(r)
  <2>1. Len(s) = m + Len(r)
    BY <1>1
  <2>2. Len(r) \in 0 .. Len(r)
    BY <1>1
  <2>3. QED
    BY <1>1, <1>3, <2>1, <2>2, RankStep
<1>6. /\ DOMAIN Posts(s) = 1 .. n + Len(r)
      /\ DOMAIN Posts(q) = 1 .. n
  BY <1>5 DEF Posts
<1>7. /\ Posts(q) \in Seq({Content(x) : x \in ServerMessageData})
      /\ Len(Posts(q)) = n
  <2>1. ASSUME NEW k \in 1 .. n
        PROVE  Posts(q)[k] \in {Content(x) : x \in ServerMessageData}
    <3>1. PICK i \in PostsAt(q) : Rank(q, i) = k
      BY EveryRank
    <3>2. q[i] \in ServerMessageData
      BY <3>1 DEF PostsAt
    <3>3. QED
      BY <3>1, <3>2, PostOfRank
  <2>2. Posts(q) = [k \in 1 .. n |-> Posts(q)[k]]
    BY <1>6 DEF Posts
  <2>3. n \in Nat
    BY <1>0
  <2> HIDE DEF n
  <2>4. QED
    BY <2>1, <2>2, <2>3, ListIsSeq
<1>8. /\ Contents(r) \in Seq({Content(x) : x \in ServerMessageData})
      /\ Len(Contents(r)) = Len(r)
      /\ \A k \in DOMAIN r : Contents(r)[k] = Content(r[k])
  BY <1>1 DEF Contents
<1> DEFINE t == Posts(q) \o Contents(r)
<1>9. /\ DOMAIN t = 1 .. n + Len(r)
      /\ \A k \in 1 .. n : t[k] = Posts(q)[k]
      /\ \A k \in DOMAIN r : t[n + k] = Content(r[k])
      /\ t = [k \in 1 .. n + Len(r) |-> t[k]]
  <2> DEFINE C == {Content(x) : x \in ServerMessageData}
             p == Posts(q)
             c == Contents(r)
  <2>1. p \in Seq(C) /\ c \in Seq(C) /\ Len(p) = n /\ Len(c) = Len(r)
    BY <1>7, <1>8
  <2> HIDE DEF n, p, c, C
  <2>2. /\ p \o c \in Seq(C) /\ Len(p \o c) = n + Len(r)
        /\ \A k \in 1 .. n : (p \o c)[k] = p[k]
        /\ \A k \in 1 .. Len(r) : (p \o c)[n + k] = c[k]
    <3>1. /\ p \o c \in Seq(C) /\ Len(p \o c) = Len(p) + Len(c)
          /\ \A k \in 1 .. Len(p) : (p \o c)[k] = p[k]
          /\ \A k \in 1 .. Len(c) : (p \o c)[Len(p) + k] = c[k]
      BY <2>1, Joined
    <3>2. QED
      BY <2>1, <3>1
  <2>3. t = p \o c
    BY DEF t, p, c
  <2> HIDE DEF t
  <2>4. DOMAIN t = 1 .. n + Len(r) /\ t = [k \in 1 .. n + Len(r) |-> t[k]]
    <3>1. t \in Seq(C) /\ Len(t) = n + Len(r)
      BY <2>2, <2>3
    <3>2. t = [k \in 1 .. Len(t) |-> t[k]] /\ DOMAIN t = 1 .. Len(t)
      BY <3>1
    <3>3. QED
      BY <3>1, <3>2
  <2>5. \A k \in DOMAIN r : t[n + k] = Contents(r)[k]
    BY <1>1, <2>2, <2>3 DEF c
  <2>6. QED
    BY <1>8, <2>2, <2>3, <2>4, <2>5 DEF p
<1> HIDE DEF t, n
<1>10. ASSUME NEW k \in 1 .. n PROVE Posts(s)[k] = t[k]
  <2>1. PICK i \in PostsAt(q) : Rank(q, i) = k
    BY EveryRank DEF n
  <2>2. s[i] = q[i] /\ i \in PostsAt(s)
    BY <1>1, <1>2, <2>1
  <2>3. Posts(q)[k] = Content(q[i])
    BY <1>1, <2>1, PostOfRank
  <2>4. Rank(s, i) = k
    BY <1>4, <2>1
  <2>5. Posts(s)[k] = Content(s[i])
    BY <1>1, <2>2, <2>4, PostOfRank
  <2>6. t[k] = Posts(q)[k]
    BY <1>9
  <2>7. QED
    BY <2>2, <2>3, <2>5, <2>6
<1>11. ASSUME NEW d \in DOMAIN r PROVE Posts(s)[n + d] = t[n + d]
  <2>1. m + d \in PostsAt(s) /\ Rank(s, m + d) = n + d /\ s[m + d] = r[d]
    BY <1>1, <1>2, <1>3
  <2>2. Posts(s)[n + d] = Content(s[m + d])
    BY <1>1, <2>1, PostOfRank
  <2>3. t[n + d] = Content(r[d])
    BY <1>9
  <2>4. QED
    BY <2>1, <2>2, <2>3
<1>12. ASSUME NEW k \in 1 .. n + Len(r) PROVE Posts(s)[k] = t[k]
  <2>1. CASE k > n
    <3>1. k - n \in DOMAIN r /\ n + (k - n) = k
      BY <1>0, <1>1, <2>1
    <3>2. QED
      BY <1>11, <3>1
  <2>2. QED
    BY <1>0, <1>1, <1>10, <2>1
<1>13. Posts(s) = [k \in 1 .. n + Len(r) |-> Posts(s)[k]]
  BY <1>6 DEF Posts
<1>14. QED
  BY <1>9, <1>12, <1>13 DEF s, t

-----------------------------------------------------------------------------
(***************************************************************************)
(* What the mapping needs besides the server's invariant: only valid names *)
(* are registered, and the author of a stored notification is registered,  *)
(* so that its name is there to be read back.                              *)
(***************************************************************************)
NamesValid == DOMAIN username_to_id \subseteq ValidNames

AuthorsKnown ==
  \A n \in DOMAIN notification_id_to_notification :
    notification_id_to_notification[n].author \in DOMAIN id_to_user

FeedInv == ServerInv /\ NamesValid /\ AuthorsKnown

\* No handler takes a name or an id back.
Grows ==
  /\ \A name \in DOMAIN username_to_id :
       /\ name \in DOMAIN username_to_id'
       /\ username_to_id'[name] = username_to_id[name]
  /\ \A u \in DOMAIN id_to_user :
       /\ u \in DOMAIN id_to_user'
       /\ id_to_user'[u].username = id_to_user[u].username

\* A notification that is stored keeps its author and its text.
NotesKept ==
  \A n \in DOMAIN notification_id_to_notification :
    n \in DOMAIN notification_id_to_notification' =>
      /\ notification_id_to_notification'[n].author
           = notification_id_to_notification[n].author
      /\ notification_id_to_notification'[n].message
           = notification_id_to_notification[n].message

\* Registering adds the name and leaves the others.
LEMMA RegisterGrows ==
  ASSUME FeedInv, NEW name \in ValidNames, add_or_update_user(name),
         DOMAIN id_to_user' = DOMAIN registered(name),
         \A v \in DOMAIN registered(name) :
           id_to_user'[v].username = registered(name)[v].username
  PROVE  /\ Grows
         /\ DOMAIN username_to_id' = DOMAIN username_to_id \cup {name}
         /\ username_to_id'[name] = id_after_login(name)
         /\ DOMAIN id_to_user' = DOMAIN id_to_user \cup {id_after_login(name)}
         /\ NamesValid'
<1> DEFINE u == id_after_login(name)
           r == registered(name)
<1>1. /\ DOMAIN r = DOMAIN id_to_user \cup {u}
      /\ \A v \in DOMAIN id_to_user : r[v] = id_to_user[v]
      /\ Registers(name) <=> name \notin DOMAIN username_to_id
      /\ ~Registers(name) => u = username_to_id[name]
  BY RegisterFacts DEF FeedInv, ServerInv, TypeOK
<1>2. /\ DOMAIN username_to_id' = DOMAIN username_to_id \cup {name}
      /\ username_to_id'[name] = u
      /\ \A x \in DOMAIN username_to_id : username_to_id'[x] = username_to_id[x]
  <2>1. CASE Registers(name)
    BY <1>1, <2>1 DEF add_or_update_user, id_after_login, Put
  <2>2. CASE ~Registers(name)
    BY <1>1, <2>2 DEF add_or_update_user
  <2>3. QED
    BY <2>1, <2>2
<1>3. Grows
  <2> HIDE DEF r, u
  <2> QED
    BY <1>1, <1>2 DEF Grows, r
<1>4. QED
  BY <1>1, <1>2, <1>3 DEF NamesValid, FeedInv

\* A step that leaves the registry and the notifications.
LEMMA SameGrows ==
  ASSUME FeedInv, ServerInv', UNCHANGED <<username_to_id, notification_vars>>,
         DOMAIN id_to_user' = DOMAIN id_to_user,
         \A v \in DOMAIN id_to_user :
           id_to_user'[v].username = id_to_user[v].username
  PROVE  Grows /\ NotesKept /\ FeedInv'
BY DEF Grows, NotesKept, FeedInv, NamesValid, AuthorsKnown, notification_vars

\* The server starts with nothing registered and nothing stored.
LEMMA InitFeedInv == Init => FeedInv
<1>1. Init => NamesValid /\ AuthorsKnown
  BY DEF Init, UserInit, NotificationInit, EmptyMap, NamesValid, AuthorsKnown
<1>2. QED
  BY <1>1, InitServerInv DEF FeedInv

-----------------------------------------------------------------------------
(***************************************************************************)
(* The mapping, map by map.                                                *)
(***************************************************************************)

\* Three of the maps are functions, before and after a step.
LEMMA MapShapes ==
  /\ SessionsMap = [a \in Addresses |-> SessionsMap[a]]
  /\ InboxMap = [a \in Addresses |-> InboxMap[a]]
  /\ WaitingMap = [name \in ValidNames |-> WaitingMap[name]]
BY DEF SessionsMap, InboxMap, WaitingMap

LEMMA MapShapesNext ==
  /\ SessionsMap' = [a \in Addresses |-> SessionsMap'[a]]
  /\ InboxMap' = [a \in Addresses |-> InboxMap'[a]]
  /\ WaitingMap' = [name \in ValidNames |-> WaitingMap'[name]]
BY DEF SessionsMap, InboxMap, WaitingMap

\* Who follows whom, by their ids.
FollowPair(x) ==
  \E f, name \in DOMAIN username_to_id :
    /\ x = <<f, name>>
    /\ already_follows(username_to_id[name], username_to_id[f])

LEMMA FollowsByIds == ServerInv => \A x : x \in FollowsMap <=> FollowPair(x)
<1> SUFFICES ASSUME ServerInv, NEW x
             PROVE  x \in FollowsMap <=> FollowPair(x)
  OBVIOUS
<1>1. RegistryConsistent
  BY DEF ServerInv
<1>2. ASSUME x \in FollowsMap PROVE FollowPair(x)
  <2>1. PICK name \in DOMAIN username_to_id, u \in DOMAIN id_to_user :
          /\ already_follows(username_to_id[name], u)
          /\ x = <<name_of(u), name>>
    BY <1>2 DEF FollowsMap
  <2>2. name_of(u) \in DOMAIN username_to_id /\ username_to_id[name_of(u)] = u
    BY <1>1 DEF RegistryConsistent, name_of
  <2>3. QED
    BY <2>1, <2>2 DEF FollowPair
<1>3. ASSUME FollowPair(x) PROVE x \in FollowsMap
  <2>1. PICK f \in DOMAIN username_to_id, name \in DOMAIN username_to_id :
          /\ x = <<f, name>>
          /\ already_follows(username_to_id[name], username_to_id[f])
    BY <1>3 DEF FollowPair
  <2>2. /\ username_to_id[f] \in DOMAIN id_to_user
        /\ name_of(username_to_id[f]) = f
    BY <1>1 DEF RegistryConsistent, name_of, user_id_exists
  <2>3. QED
    BY <2>1, <2>2 DEF FollowsMap
<1>4. QED
  BY <1>2, <1>3

LEMMA FollowsByIdsNext ==
  ServerInv' => \A x : x \in FollowsMap' <=> FollowPair(x)'
<1>1. (ServerInv => \A x : x \in FollowsMap <=> FollowPair(x))'
  BY FollowsByIds, PTL
<1>2. QED
  BY <1>1

\* A linked address speaks for a registered user.
LEMMA LinkedUser ==
  ASSUME ServerInv, NEW a \in DOMAIN address_to_user_id
  PROVE  /\ a \in Addresses
         /\ address_to_user_id[a] \in UserIds
         /\ address_to_user_id[a] \in DOMAIN user_id_to_connection_data
         /\ address_to_user_id[a] \in DOMAIN id_to_user
<1>1. a \in Addresses /\ address_to_user_id[a] \in UserIds
  BY DEF ServerInv, TypeOK, ConnectionTypeOK, IsMap
<1>2. address_to_user_id[a] \in DOMAIN user_id_to_connection_data
  BY DEF ServerInv, SessionsConsistent, SessionsMatch, get_address_from_user
<1>3. QED
  BY <1>1, <1>2 DEF ServerInv, NothingWaitsForConnected, user_id_exists

\* The sessions of a name are the addresses linked to its id.
LEMMA SpeaksFor ==
  ASSUME FeedInv, NEW a \in Addresses, NEW name \in ValidNames
  PROVE  SessionsMap[a] = name <=>
           /\ name \in DOMAIN username_to_id
           /\ a \in DOMAIN address_to_user_id
           /\ address_to_user_id[a] = username_to_id[name]
<1>1. RegistryConsistent
  BY DEF FeedInv, ServerInv
<1>2. CASE a \notin DOMAIN address_to_user_id
  BY <1>2, NullIsNoName DEF SessionsMap, address_exists
<1>3. CASE a \in DOMAIN address_to_user_id
  <2>1. PICK u : u = address_to_user_id[a]
    OBVIOUS
  <2>2. u \in DOMAIN id_to_user
    BY <1>3, <2>1, LinkedUser DEF FeedInv
  <2>3. SessionsMap[a] = id_to_user[u].username
    BY <1>3, <2>1 DEF SessionsMap, address_exists, name_of
  <2>4. /\ id_to_user[u].username \in DOMAIN username_to_id
        /\ username_to_id[id_to_user[u].username] = u
    BY <1>1, <2>2 DEF RegistryConsistent
  <2>5. name \in DOMAIN username_to_id =>
          id_to_user[username_to_id[name]].username = name
    BY <1>1 DEF RegistryConsistent
  <2>6. QED
    BY <1>3, <2>1, <2>3, <2>4, <2>5
<1>4. QED
  BY <1>2, <1>3

\* The addresses a name has are those its entry holds.
LEMMA AddressesOf ==
  ASSUME FeedInv, NEW name \in ValidNames
  PROVE  /\ name \in DOMAIN username_to_id =>
              F!addresses_of(name) =
                get_address_from_user(user_id_to_connection_data,
                                      username_to_id[name])
         /\ name \notin DOMAIN username_to_id => F!addresses_of(name) = {}
<1>1. F!addresses_of(name) =
        {a \in Addresses : /\ name \in DOMAIN username_to_id
                           /\ a \in DOMAIN address_to_user_id
                           /\ address_to_user_id[a] = username_to_id[name]}
  BY SpeaksFor DEF F!addresses_of
<1>2. ASSUME name \in DOMAIN username_to_id
      PROVE  F!addresses_of(name) =
               get_address_from_user(user_id_to_connection_data,
                                     username_to_id[name])
  <2>1. PICK u : u = username_to_id[name]
    OBVIOUS
  <2> DEFINE held == get_address_from_user(user_id_to_connection_data, u)
  <2>2. held \subseteq Addresses
    BY DEF get_address_from_user, FeedInv, ServerInv, TypeOK,
         ConnectionTypeOK, IsMap, UserConnectionData
  <2>3. \A a \in DOMAIN address_to_user_id :
          address_to_user_id[a] = u => a \in held
    BY DEF FeedInv, ServerInv, SessionsConsistent, SessionsMatch
  <2>4. ASSUME NEW a \in held
        PROVE  a \in DOMAIN address_to_user_id /\ address_to_user_id[a] = u
    <3>1. u \in DOMAIN user_id_to_connection_data
      BY <2>4 DEF get_address_from_user
    <3>2. QED
      BY <3>1, <2>4 DEF FeedInv, ServerInv, SessionsConsistent, SessionsMatch
  <2> HIDE DEF held
  <2>5. F!addresses_of(name) = held
    BY <1>1, <1>2, <2>1, <2>2, <2>3, <2>4
  <2>6. QED
    BY <2>1, <2>5 DEF held
<1>3. QED
  BY <1>1, <1>2

\* A name has an address exactly when its user is connected.
LEMMA HasAddress ==
  ASSUME FeedInv, NEW name \in DOMAIN username_to_id
  PROVE  F!addresses_of(name) # {} <=> user_connected(username_to_id[name])
<1>1. PICK u : u = username_to_id[name]
  OBVIOUS
<1>2. F!addresses_of(name) = get_address_from_user(user_id_to_connection_data, u)
  BY <1>1, AddressesOf DEF FeedInv, NamesValid
<1>3. u \in DOMAIN user_id_to_connection_data =>
        user_id_to_connection_data[u].session_one
          # user_id_to_connection_data[u].session_two
  BY DEF FeedInv, ServerInv, SessionsConsistent, SessionsMatch
<1>4. QED
  BY <1>1, <1>2, <1>3 DEF get_address_from_user, user_connected

\* Links that stay speak for the names they did.
LEMMA SessionKept ==
  ASSUME ServerInv, Grows, NEW a \in Addresses,
         a \in DOMAIN address_to_user_id <=> a \in DOMAIN address_to_user_id',
         a \in DOMAIN address_to_user_id =>
           address_to_user_id'[a] = address_to_user_id[a]
  PROVE  SessionsMap'[a] = SessionsMap[a]
<1>1. a \in DOMAIN address_to_user_id =>
        address_to_user_id[a] \in DOMAIN id_to_user
  BY LinkedUser
<1>2. QED
  BY <1>1 DEF SessionsMap, address_exists, name_of, Grows

LEMMA SessionsKept ==
  ASSUME ServerInv, Grows, UNCHANGED address_to_user_id
  PROVE  UNCHANGED SessionsMap
<1>1. \A a \in Addresses : SessionsMap'[a] = SessionsMap[a]
  BY SessionKept
<1>2. QED
  BY <1>1, MapShapes, MapShapesNext

\* What Feed sees of a list of pending notifications.
PostsOf(list) == [i \in DOMAIN list |-> post_of(list[i])]

\* Entries of a list stand for the message they did while it is stored.
LEMMA PostsOfKept ==
  ASSUME FeedInv, Grows, NotesKept, NEW list,
         \A i \in DOMAIN list :
           /\ list[i].notification_id \in DOMAIN notification_id_to_notification
           /\ list[i].notification_id \in DOMAIN notification_id_to_notification'
  PROVE  PostsOf(list)' = PostsOf(list)
<1>1. ASSUME NEW i \in DOMAIN list
      PROVE  post_of(list[i])' = post_of(list[i])
  <2>1. PICK n : n = list[i].notification_id
    OBVIOUS
  <2>2. /\ n \in DOMAIN notification_id_to_notification
        /\ n \in DOMAIN notification_id_to_notification'
    BY <2>1
  <2>3. /\ notification_id_to_notification'[n].author
             = notification_id_to_notification[n].author
        /\ notification_id_to_notification'[n].message
             = notification_id_to_notification[n].message
    BY <2>2 DEF NotesKept
  <2>4. notification_id_to_notification[n].author \in DOMAIN id_to_user
    BY <2>2 DEF FeedInv, AuthorsKnown
  <2>5. QED
    BY <2>1, <2>2, <2>3, <2>4
    DEF post_of, notification_exists, name_of, Grows
<1>2. QED
  BY <1>1 DEF PostsOf

\* What waits for a name is what its user's list stands for.
LEMMA WaitingByList ==
  ASSUME NEW name \in ValidNames
  PROVE  WaitingMap[name] =
           IF name \in DOMAIN username_to_id
             THEN PostsOf(id_to_user[username_to_id[name]].pending_notifications)
             ELSE << >>
BY DEF WaitingMap, PostsOf

LEMMA WaitingByListNext ==
  ASSUME NEW name \in ValidNames, NEW list,
         name \in DOMAIN username_to_id' =>
           list = id_to_user'[username_to_id'[name]].pending_notifications
  PROVE  WaitingMap'[name] =
           IF name \in DOMAIN username_to_id' THEN PostsOf(list)' ELSE << >>
BY DEF WaitingMap, PostsOf

\* Nothing is made of nothing.
LEMMA PostsOfNothing == PostsOf(<< >>) = << >> /\ PostsOf(<< >>)' = << >>
<1>1. DOMAIN << >> = {}
  OBVIOUS
<1>2. QED
  BY <1>1 DEF PostsOf

\* A list that is left alone stands for what it did.
LEMMA WaitKept ==
  ASSUME FeedInv, FeedInv', Grows, NotesKept, NEW name \in ValidNames,
         name \in DOMAIN username_to_id =>
           id_to_user'[username_to_id[name]].pending_notifications
             = id_to_user[username_to_id[name]].pending_notifications,
         name \in DOMAIN username_to_id' \ DOMAIN username_to_id =>
           id_to_user'[username_to_id'[name]].pending_notifications = << >>
  PROVE  WaitingMap'[name] = WaitingMap[name]
<1>1. CASE name \in DOMAIN username_to_id
  <2>1. PICK u : u = username_to_id[name]
    OBVIOUS
  <2>2. PICK list : list = id_to_user[u].pending_notifications
    OBVIOUS
  <2>3. /\ name \in DOMAIN username_to_id' /\ username_to_id'[name] = u
        /\ list = id_to_user'[u].pending_notifications
        /\ u \in DOMAIN id_to_user /\ u \in DOMAIN id_to_user'
    BY <1>1, <2>1, <2>2
    DEF Grows, FeedInv, ServerInv, RegistryConsistent, user_id_exists
  <2>4. \A i \in DOMAIN list :
          list[i].notification_id \in DOMAIN notification_id_to_notification
    BY <2>2, <2>3
    DEF FeedInv, ServerInv, PendingConsistent, notification_exists
  <2>5. \A i \in DOMAIN list :
          list[i].notification_id \in DOMAIN notification_id_to_notification'
    BY <2>3
    DEF FeedInv, ServerInv, PendingConsistent, notification_exists
  <2>6. PostsOf(list)' = PostsOf(list)
    BY <2>4, <2>5, PostsOfKept
  <2>7. WaitingMap[name] = PostsOf(list)
    BY <1>1, <2>1, <2>2, WaitingByList
  <2>8. WaitingMap'[name] = PostsOf(list)'
    BY <2>3, WaitingByListNext
  <2>9. QED
    BY <2>6, <2>7, <2>8
<1>2. CASE name \notin DOMAIN username_to_id
  <2>1. WaitingMap[name] = << >>
    BY <1>2, WaitingByList
  <2>2. WaitingMap'[name] = << >>
    BY <1>2, WaitingByListNext, PostsOfNothing
  <2>3. QED
    BY <2>1, <2>2
<1>3. QED
  BY <1>1, <1>2

\* So does every list, when new users start with an empty one.
LEMMA WaitingKept ==
  ASSUME FeedInv, FeedInv', Grows, NotesKept,
         \A v \in DOMAIN id_to_user :
           id_to_user'[v].pending_notifications
             = id_to_user[v].pending_notifications,
         \A v \in DOMAIN id_to_user' \ DOMAIN id_to_user :
           id_to_user'[v].pending_notifications = << >>
  PROVE  UNCHANGED WaitingMap
<1>1. ASSUME NEW name \in ValidNames
      PROVE  WaitingMap'[name] = WaitingMap[name]
  <2>1. name \in DOMAIN username_to_id =>
          username_to_id[name] \in DOMAIN id_to_user
    BY DEF FeedInv, ServerInv, RegistryConsistent, user_id_exists
  <2>2. name \in DOMAIN username_to_id' \ DOMAIN username_to_id =>
          username_to_id'[name] \in DOMAIN id_to_user' \ DOMAIN id_to_user
    BY DEF FeedInv, ServerInv, RegistryConsistent, user_id_exists, Grows
  <2>3. QED
    BY <2>1, <2>2, WaitKept
<1>2. QED
  BY <1>1, MapShapes, MapShapesNext

\* An answer is nothing Feed can see.
LEMMA AnswerUnseen ==
  ASSUME NEW q \in Seq(ServerMessageData), NEW m \in ServerMessageData,
         m.msg_type # "ServerSendCommand"
  PROVE  Posts(Append(q, m)) = Posts(q)
<1>1. Append(q, m) = q \o <<m>> /\ <<m>> \in Seq(ServerMessageData)
  OBVIOUS
<1>2. \A k \in DOMAIN <<m>> : <<m>>[k].msg_type # "ServerSendCommand"
  OBVIOUS
<1>3. Posts(q \o <<m>>) = Posts(q)
  BY <1>1, <1>2, PostsThenOthers
<1>4. QED
  BY <1>1, <1>3

LEMMA ToAddressUnseen ==
  ASSUME ServerInv, NEW a \in Addresses, NEW m \in ServerMessageData,
         m.msg_type # "ServerSendCommand", send_queue' = to_address(a, m)
  PROVE  UNCHANGED InboxMap
<1>1. send_queue \in [Addresses -> Seq(ServerMessageData)]
  BY DEF ServerInv, TypeOK, SendQueueTypeOK
<1>2. ASSUME NEW b \in Addresses PROVE InboxMap'[b] = InboxMap[b]
  <2>1. send_queue'[b] = IF b = a THEN Append(send_queue[b], m) ELSE send_queue[b]
    BY <1>1 DEF to_address
  <2>2. Posts(send_queue'[b]) = Posts(send_queue[b])
    BY <1>1, <2>1, AnswerUnseen
  <2>3. InboxMap'[b] = Posts(send_queue'[b])
    BY DEF InboxMap, Posts, PostsAt
  <2>4. QED
    BY <2>2, <2>3 DEF InboxMap
<1>3. QED
  BY <1>2, MapShapes, MapShapesNext

\* Nor is the answer to a command.
LEMMA RespondUnseen ==
  ASSUME ServerInv, NEW u \in DOMAIN user_id_to_connection_data,
         NEW type \in ServerMsgType \ {"ServerSendCommand"},
         NEW name \in Names \cup {NULL}, respond(u, type, name)
  PROVE  UNCHANGED InboxMap
<1> DEFINE conn0 == user_id_to_connection_data
           conn  == take_msg_ids(conn0, u, 1)
           m     == Response(conn[u].last_msg_id, type, name)
           msgs  == [v \in DOMAIN conn |-> IF v = u THEN <<m>> ELSE << >>]
<1>1. ConnMap(conn0) /\ AddrMap(address_to_user_id)
  BY DEF ServerInv, TypeOK, ConnectionTypeOK, ConnMap, AddrMap
<1>2. /\ ConnMap(conn)
      /\ DOMAIN conn = DOMAIN conn0
      /\ \A v \in DOMAIN conn0 :
           /\ conn[v].session_one = conn0[v].session_one
           /\ conn[v].session_two = conn0[v].session_two
  BY <1>1, TakeMsgIds
<1>3. SessionsMatch(conn, address_to_user_id)
  BY <1>1, <1>2, SameSessions DEF ServerInv, SessionsConsistent
<1>4. send_queue' = to_sessions(send_queue, conn, msgs)
  BY DEF respond
<1>5. m \in ServerMessageData /\ m.msg_type # "ServerSendCommand"
  <2>1. conn[u].last_msg_id \in Nat
    BY <1>2 DEF ConnMap, IsMap, UserConnectionData
  <2> HIDE DEF conn
  <2>2. QED
    BY <2>1 DEF Response, ServerMessageData
<1>6. send_queue \in [Addresses -> Seq(ServerMessageData)]
  BY DEF ServerInv, TypeOK, SendQueueTypeOK
<1> HIDE DEF conn, m
<1>7. ASSUME NEW b \in Addresses PROVE InboxMap'[b] = InboxMap[b]
  <2>1. Posts(send_queue'[b]) = Posts(send_queue[b])
    <3>1. CASE b \notin DOMAIN address_to_user_id
      BY <1>3, <1>4, <3>1, ToNobody
    <3>2. CASE b \in DOMAIN address_to_user_id
      <4>1. /\ address_to_user_id[b] \in DOMAIN conn
            /\ send_queue'[b] = Then(send_queue[b], msgs[address_to_user_id[b]])
        BY <1>3, <1>4, <3>2, ToSession
      <4>2. PICK r : r = msgs[address_to_user_id[b]]
        OBVIOUS
      <4>3. r = <<m>> \/ r = << >>
        BY <4>1, <4>2
      <4>4. /\ r \in Seq(ServerMessageData)
            /\ \A k \in DOMAIN r : r[k].msg_type # "ServerSendCommand"
        <5>1. CASE r = <<m>>
          BY <1>5, <5>1
        <5>2. CASE r = << >>
          <6>1. DOMAIN r = {}
            BY <5>2
          <6>2. QED
            BY <5>2, <6>1
        <5>3. QED
          BY <4>3, <5>1, <5>2
      <4>5. Posts(send_queue[b] \o r) = Posts(send_queue[b])
        BY <1>6, <4>4, PostsThenOthers
      <4>6. QED
        BY <4>1, <4>2, <4>5 DEF Then
    <3>3. QED
      BY <3>1, <3>2
  <2>2. InboxMap'[b] = Posts(send_queue'[b])
    BY DEF InboxMap, Posts, PostsAt
  <2>3. QED
    BY <2>1, <2>2 DEF InboxMap
<1>8. QED
  BY <1>7, MapShapes, MapShapesNext

\* Nobody follows anybody else when the lists of followers stay and new
\* users start with an empty one.
LEMMA FollowsKept ==
  ASSUME FeedInv, FeedInv', Grows,
         \A v \in DOMAIN id_to_user :
           id_to_user'[v].followed_by = id_to_user[v].followed_by,
         \A v \in DOMAIN id_to_user' \ DOMAIN id_to_user :
           id_to_user'[v].followed_by = << >>
  PROVE  UNCHANGED FollowsMap
<1>1. /\ RegistryConsistent /\ RegistryConsistent' /\ FollowersConsistent
  BY DEF FeedInv, ServerInv
<1>2. ASSUME NEW x, FollowPair(x) PROVE FollowPair(x)'
  <2>1. PICK f \in DOMAIN username_to_id, name \in DOMAIN username_to_id :
          /\ x = <<f, name>>
          /\ already_follows(username_to_id[name], username_to_id[f])
    BY <1>2 DEF FollowPair
  <2>2. /\ f \in DOMAIN username_to_id' /\ name \in DOMAIN username_to_id'
        /\ username_to_id'[f] = username_to_id[f]
        /\ username_to_id'[name] = username_to_id[name]
        /\ username_to_id[name] \in DOMAIN id_to_user
    BY <1>1 DEF Grows, RegistryConsistent, user_id_exists
  <2>3. already_follows(username_to_id[name], username_to_id[f])'
    BY <2>1, <2>2 DEF already_follows
  <2>4. QED
    BY <2>1, <2>2, <2>3 DEF FollowPair
<1>3. ASSUME NEW x, FollowPair(x)' PROVE FollowPair(x)
  <2>1. PICK f \in DOMAIN username_to_id', name \in DOMAIN username_to_id' :
          /\ x = <<f, name>>
          /\ already_follows(username_to_id[name], username_to_id[f])'
    BY <1>3 DEF FollowPair
  <2>2. PICK u : u = username_to_id'[name]
    OBVIOUS
  <2>3. PICK g : g = username_to_id'[f]
    OBVIOUS
  <2>4. PICK i \in DOMAIN id_to_user'[u].followed_by :
          id_to_user'[u].followed_by[i] = g
    BY <2>1, <2>2, <2>3 DEF already_follows
  <2>5. u \in DOMAIN id_to_user' /\ id_to_user'[u].username = name
    BY <1>1, <2>2 DEF RegistryConsistent, user_id_exists
  <2>6. u \in DOMAIN id_to_user
    BY <2>4, <2>5
  <2>7. g \in DOMAIN id_to_user /\ i \in DOMAIN id_to_user[u].followed_by
        /\ id_to_user[u].followed_by[i] = g
    BY <1>1, <2>4, <2>6 DEF FollowersConsistent, user_id_exists
  <2>8. id_to_user'[g].username = f
    BY <1>1, <2>3 DEF RegistryConsistent
  <2>9. /\ f \in DOMAIN username_to_id /\ username_to_id[f] = g
        /\ name \in DOMAIN username_to_id /\ username_to_id[name] = u
    BY <1>1, <2>5, <2>6, <2>7, <2>8 DEF RegistryConsistent, Grows
  <2>10. QED
    BY <2>1, <2>7, <2>9 DEF FollowPair, already_follows
<1>4. \A x : x \in FollowsMap' <=> x \in FollowsMap
  BY <1>2, <1>3, FollowsByIds, FollowsByIdsNext DEF FeedInv
<1>5. QED
  BY <1>4

-----------------------------------------------------------------------------
(***************************************************************************)
(* The handlers.  Each lemma says that the step keeps the invariant and is *)
(* a step of Feed, or one that Feed does not see.                          *)
(***************************************************************************)
FeedStep == F!FeedNext \/ UNCHANGED F!feed_vars

\* Commands that fail, logins with an invalid name and the disk thread.
LEMMA Quiet ==
  ASSUME FeedInv, ServerInv', UNCHANGED InboxMap,
         UNCHANGED <<address_to_user_id, username_to_id, id_to_user,
                     notification_vars>>
  PROVE  FeedInv' /\ FeedStep
<1>1. Grows /\ NotesKept /\ FeedInv'
  BY SameGrows
<1>2. UNCHANGED MembersMap
  BY DEF MembersMap
<1>3. UNCHANGED FollowsMap
  <2>1. \A v \in DOMAIN id_to_user' : v \in DOMAIN id_to_user
    OBVIOUS
  <2>2. QED
    BY <1>1, <2>1, FollowsKept
<1>4. UNCHANGED SessionsMap
  BY <1>1, SessionsKept DEF FeedInv
<1>5. UNCHANGED WaitingMap
  BY <1>1, WaitingKept
<1>6. QED
  BY <1>1, <1>2, <1>3, <1>4, <1>5 DEF FeedStep, F!feed_vars

LEMMA LoginInvalidUsernameFeed ==
  ASSUME FeedInv, NEW a \in Addresses, NEW name \in Names,
         LoginInvalidUsername(a, name)
  PROVE  FeedInv' /\ FeedStep
<1>1. ServerInv'
  BY LoginInvalidUsernameInv DEF FeedInv
<1> DEFINE m == Response(0, "LoginFailInvalidUsername", NULL)
<1>2. m \in ServerMessageData /\ m.msg_type # "ServerSendCommand"
  BY DEF Response, ServerMessageData, ServerMsgType
<1>3. /\ send_queue' = to_address(a, m)
      /\ UNCHANGED <<address_to_user_id, username_to_id, id_to_user,
                     notification_vars>>
  BY DEF LoginInvalidUsername, connection_vars, user_vars
<1> HIDE DEF m
<1>4. UNCHANGED InboxMap
  BY <1>2, <1>3, ToAddressUnseen DEF FeedInv
<1>5. QED
  BY <1>1, <1>3, <1>4, Quiet

LEMMA CommandFailFeed ==
  ASSUME FeedInv, NEW u, NEW a \in Addresses, u = get_user_id_from_address(a),
         u # INVALID_USER_ID, ServerInv',
         NEW type \in ServerMsgType \ {"ServerSendCommand"},
         NEW name \in Names \cup {NULL}, respond(u, type, name),
         UNCHANGED user_vars
  PROVE  FeedInv' /\ FeedStep
<1>1. u \in DOMAIN user_id_to_connection_data
  BY Linked DEF FeedInv
<1>2. UNCHANGED InboxMap
  BY <1>1, RespondUnseen DEF FeedInv
<1>3. QED
  BY <1>2, Quiet DEF respond, user_vars

LEMMA FailedCommandsFeed ==
  ASSUME FeedInv, NEW a \in Addresses,
         \/ \E name \in Names : FollowFail(a, name)
         \/ \E text \in Messages : SendInvalid(a, text)
  PROVE  FeedInv' /\ FeedStep
<1>1. ServerInv'
  BY RefusedCommands DEF FeedInv
<1>2. PICK u : u = get_user_id_from_address(a)
  OBVIOUS
<1>3. ASSUME NEW name \in Names, FollowFail(a, name)
      PROVE  FeedInv' /\ FeedStep
  <2>1. /\ u # INVALID_USER_ID /\ UNCHANGED user_vars
        /\ respond(u, "FollowCommandFail", name)
    BY <1>2, <1>3 DEF FollowFail
  <2>2. QED
    BY <1>1, <1>2, <2>1, CommandFailFeed DEF ServerMsgType
<1>4. ASSUME NEW text \in Messages, SendInvalid(a, text)
      PROVE  FeedInv' /\ FeedStep
  <2>1. /\ u # INVALID_USER_ID /\ UNCHANGED user_vars
        /\ respond(u, "SendCommandFail", NULL)
    BY <1>2, <1>4 DEF SendInvalid
  <2>2. QED
    BY <1>1, <1>2, <2>1, CommandFailFeed DEF ServerMsgType
<1>5. QED
  BY <1>3, <1>4

\* The disk thread takes its queue; the sender thread transmits its own.
LEMMA DiskQueueDrainFeed ==
  ASSUME FeedInv, DiskQueueDrain
  PROVE  FeedInv' /\ FeedStep
<1>1. ServerInv'
  BY ConsumersInv DEF FeedInv
<1>2. UNCHANGED InboxMap
  BY DEF DiskQueueDrain, InboxMap, Posts, PostsAt
<1>3. QED
  BY <1>1, <1>2, Quiet DEF DiskQueueDrain, connection_vars

LEMMA SendQueueDrainFeed ==
  ASSUME FeedInv, SendQueueDrain
  PROVE  FeedInv' /\ FeedStep
<1>1. ServerInv'
  BY ConsumersInv DEF FeedInv
<1>2. /\ send_queue' = [a \in Addresses |-> << >>]
      /\ UNCHANGED <<address_to_user_id, username_to_id, id_to_user,
                     notification_vars>>
  BY DEF SendQueueDrain, connection_vars, user_vars
<1>3. Grows /\ NotesKept /\ FeedInv'
  BY <1>1, <1>2, SameGrows
<1>4. UNCHANGED <<MembersMap, FollowsMap, SessionsMap, WaitingMap>>
  <2>1. UNCHANGED MembersMap
    BY <1>2 DEF MembersMap
  <2>2. UNCHANGED FollowsMap
    BY <1>2, <1>3, FollowsKept
  <2>3. UNCHANGED SessionsMap
    BY <1>2, <1>3, SessionsKept DEF FeedInv
  <2>4. UNCHANGED WaitingMap
    BY <1>2, <1>3, WaitingKept
  <2>5. QED
    BY <2>1, <2>2, <2>3, <2>4
<1>5. InboxMap' = [a \in Addresses |-> << >>]
  <2>1. ASSUME NEW a \in Addresses PROVE InboxMap'[a] = << >>
    <3>1. InboxMap'[a] = Posts(send_queue'[a])
      BY DEF InboxMap, Posts, PostsAt
    <3>2. QED
      BY <1>2, <3>1, PostsOfNone
  <2>2. QED
    BY <2>1, MapShapesNext
<1>6. F!Transmit
  BY <1>4, <1>5 DEF F!Transmit
<1>7. QED
  BY <1>3, <1>6 DEF FeedStep, F!FeedNext

\* A login that is refused registers its name.
LEMMA RefusedLoginsFeed ==
  ASSUME FeedInv, NEW a \in Addresses, NEW name \in Names,
         LoginTooManySessions(a, name) \/ LoginOtherUser(a, name)
  PROVE  FeedInv' /\ FeedStep
<1>1. ServerInv'
  BY RefusedLogins DEF FeedInv
<1>2. PICK type \in {"LoginFailTooManySessions",
                     "LoginFailAlreadyConnectedToDifferentUser"} :
        send_queue' = to_address(a, Response(0, type, NULL))
  BY DEF LoginTooManySessions, LoginOtherUser
<1>3. /\ name \in ValidNames
      /\ add_or_update_user(name)
      /\ id_to_user' = registered(name)
      /\ UNCHANGED <<connection_vars, notification_vars>>
  BY DEF LoginTooManySessions, LoginOtherUser, is_valid_username
<1> DEFINE u == id_after_login(name)
<1>4. /\ Grows
      /\ DOMAIN username_to_id' = DOMAIN username_to_id \cup {name}
      /\ DOMAIN id_to_user' = DOMAIN id_to_user \cup {u}
      /\ NamesValid'
  BY <1>3, RegisterGrows
<1>5. /\ \A v \in DOMAIN id_to_user : id_to_user'[v] = id_to_user[v]
      /\ u \notin DOMAIN id_to_user =>
           /\ id_to_user'[u].followed_by = << >>
           /\ id_to_user'[u].pending_notifications = << >>
  BY <1>3, RegisterFacts DEF FeedInv, ServerInv, TypeOK
<1> HIDE DEF u
<1>6. NotesKept /\ FeedInv'
  BY <1>1, <1>3, <1>4
  DEF NotesKept, FeedInv, AuthorsKnown, notification_vars, Grows
<1>7. MembersMap' = MembersMap \cup {name}
  BY <1>4 DEF MembersMap
<1>8. UNCHANGED FollowsMap
  BY <1>4, <1>5, <1>6, FollowsKept
<1>9. UNCHANGED SessionsMap
  BY <1>3, <1>4, SessionsKept DEF FeedInv, connection_vars
<1>10. UNCHANGED WaitingMap
  BY <1>4, <1>5, <1>6, WaitingKept
<1>11. UNCHANGED InboxMap
  <2> DEFINE m == Response(0, type, NULL)
  <2>1. m \in ServerMessageData /\ m.msg_type # "ServerSendCommand"
    BY DEF Response, ServerMessageData, ServerMsgType
  <2>2. send_queue' = to_address(a, m)
    BY <1>2
  <2> HIDE DEF m
  <2>3. QED
    BY <2>1, <2>2, ToAddressUnseen DEF FeedInv
<1>12. F!Register(name)
  BY <1>7, <1>8, <1>9, <1>10, <1>11 DEF F!Register
<1>13. QED
  BY <1>3, <1>6, <1>12 DEF FeedStep, F!FeedNext

\* A logout: the address speaks for nobody, and nothing else changes.
LEMMA LogoutFeed ==
  ASSUME FeedInv, NEW a \in Addresses, handle_logout(a)
  PROVE  FeedInv' /\ FeedStep
<1>1. ServerInv'
  BY LogoutInv DEF FeedInv
<1>2. /\ a \in DOMAIN address_to_user_id
      /\ address_to_user_id' = Erase(address_to_user_id, a)
      /\ UNCHANGED <<username_to_id, id_to_user, notification_vars, send_queue>>
  <2>1. a \in DOMAIN address_to_user_id /\ remove_address(a)
    BY DEF handle_logout, address_exists
  <2>2. a \in get_address_from_user(user_id_to_connection_data,
                                    address_to_user_id[a])
    BY <2>1 DEF FeedInv, ServerInv, SessionsConsistent, SessionsMatch
  <2>3. QED
    BY <2>1, <2>2 DEF remove_address, handle_logout, user_vars
<1>3. Grows /\ NotesKept /\ FeedInv'
  BY <1>1, <1>2, SameGrows
<1>4. UNCHANGED <<MembersMap, InboxMap>>
  BY <1>2 DEF MembersMap, InboxMap, Posts, PostsAt
<1>5. UNCHANGED FollowsMap
  BY <1>2, <1>3, FollowsKept
<1>6. UNCHANGED WaitingMap
  BY <1>2, <1>3, WaitingKept
<1>7. SessionsMap' = [SessionsMap EXCEPT ![a] = NULL]
  <2>1. /\ DOMAIN address_to_user_id' = DOMAIN address_to_user_id \ {a}
        /\ \A b \in DOMAIN address_to_user_id \ {a} :
             address_to_user_id'[b] = address_to_user_id[b]
    BY <1>2 DEF Erase
  <2>2. SessionsMap'[a] = NULL
    BY <2>1 DEF SessionsMap, address_exists
  <2>3. \A b \in Addresses \ {a} : SessionsMap'[b] = SessionsMap[b]
    BY <1>3, <2>1, SessionKept DEF FeedInv
  <2>4. QED
    BY <2>2, <2>3, MapShapes, MapShapesNext
<1>8. F!Logout(a)
  BY <1>4, <1>5, <1>6, <1>7 DEF F!Logout
<1>9. QED
  BY <1>3, <1>8 DEF FeedStep, F!FeedNext

\* A user that follows another is entered in its list, if it was not there.
LEMMA AddFollowEffect ==
  ASSUME UserTypeOK, NEW followed \in DOMAIN id_to_user,
         NEW follower \in DOMAIN id_to_user, add_follow(followed, follower)
  PROVE  /\ UNCHANGED username_to_id
         /\ DOMAIN id_to_user' = DOMAIN id_to_user
         /\ \A v \in DOMAIN id_to_user :
              /\ id_to_user'[v].username = id_to_user[v].username
              /\ \A g : already_follows(v, g)' <=>
                          \/ already_follows(v, g)
                          \/ v = followed /\ g = follower
<1>1. UNCHANGED username_to_id
  BY DEF add_follow
<1>2. CASE already_follows(followed, follower)
  <2>1. UNCHANGED id_to_user
    BY <1>2 DEF add_follow, add_followed_by
  <2>2. QED
    BY <1>1, <1>2, <2>1 DEF already_follows
<1>3. CASE ~already_follows(followed, follower)
  <2> DEFINE list == id_to_user[followed].followed_by
  <2>1. id_to_user' = [id_to_user EXCEPT
                         ![followed].followed_by = Append(@, follower)]
    BY <1>3 DEF add_follow, add_followed_by, user_id_exists
  <2>2. /\ list \in Seq(UserIds) /\ follower \in UserIds
        /\ id_to_user[followed] \in UserData
        /\ id_to_user \in [DOMAIN id_to_user -> UserData]
    BY DEF UserTypeOK, IsMap, UserData
  <2>3. /\ DOMAIN id_to_user' = DOMAIN id_to_user
        /\ id_to_user'[followed].followed_by = Append(list, follower)
        /\ id_to_user'[followed].username = id_to_user[followed].username
        /\ \A v \in DOMAIN id_to_user : v # followed =>
             id_to_user'[v] = id_to_user[v]
    BY <2>1, <2>2 DEF UserData
  <2>4. /\ DOMAIN Append(list, follower) = DOMAIN list \cup {Len(list) + 1}
        /\ Append(list, follower)[Len(list) + 1] = follower
        /\ \A i \in DOMAIN list : Append(list, follower)[i] = list[i]
        /\ Len(list) + 1 \notin DOMAIN list
    BY <2>2
  <2>5. ASSUME NEW v \in DOMAIN id_to_user, NEW g
        PROVE  already_follows(v, g)' <=> \/ already_follows(v, g)
                                          \/ v = followed /\ g = follower
    <3>1. CASE v = followed
      <4>1. already_follows(v, g)' <=>
              \E i \in DOMAIN Append(list, follower) :
                Append(list, follower)[i] = g
        BY <2>3, <3>1 DEF already_follows
      <4>2. already_follows(v, g) <=> \E i \in DOMAIN list : list[i] = g
        BY <3>1 DEF already_follows
      <4> HIDE DEF list
      <4>3. QED
        BY <2>4, <3>1, <4>1, <4>2
    <3>2. CASE v # followed
      BY <2>3, <3>2 DEF already_follows
    <3>3. QED
      BY <3>1, <3>2
  <2>6. QED
    BY <1>1, <2>3, <2>5
<1>4. QED
  BY <1>2, <1>3

\* A follow that succeeds adds the pair of names.
LEMMA FollowSuccessFeed ==
  ASSUME FeedInv, NEW a \in Addresses, NEW name \in Names,
         FollowSuccess(a, name)
  PROVE  FeedInv' /\ FeedStep
<1>1. ServerInv'
  BY FollowSuccessInv DEF FeedInv
<1>2. PICK u : u = get_user_id_from_address(a)
  OBVIOUS
<1>3. PICK g : g = get_user_id_from_username(name)
  OBVIOUS
<1>4. /\ u # INVALID_USER_ID
      /\ CanFollow(u, name)
      /\ add_follow(g, u)
      /\ respond(u, "FollowCommandSuccess", name)
  BY <1>2, <1>3 DEF FollowSuccess
<1>5. /\ u \in DOMAIN user_id_to_connection_data /\ u \in DOMAIN id_to_user
      /\ a \in DOMAIN address_to_user_id /\ u = address_to_user_id[a]
  <2>1. a \in DOMAIN address_to_user_id /\ u = address_to_user_id[a]
    BY <1>2, <1>4 DEF get_user_id_from_address, address_exists
  <2>2. QED
    BY <2>1, LinkedUser DEF FeedInv
<1>6. PICK f : f = name_of(u)
  OBVIOUS
<1>7. /\ RegistryConsistent /\ FollowersConsistent /\ UserTypeOK
  BY DEF FeedInv, ServerInv, TypeOK
<1>8. /\ f \in DOMAIN username_to_id /\ username_to_id[f] = u
      /\ f \in ValidNames
  BY <1>5, <1>6, <1>7 DEF RegistryConsistent, name_of, FeedInv, NamesValid
<1>9. /\ name \in DOMAIN username_to_id /\ username_to_id[name] = g
      /\ name \in ValidNames /\ name # f /\ g \in DOMAIN id_to_user
      /\ g # u
  BY <1>3, <1>4, <1>5, <1>6, <1>7
  DEF CanFollow, get_user_id_from_username, get_username_from_user_id,
      user_id_exists, name_of, RegistryConsistent, FeedInv, NamesValid
<1>10. /\ UNCHANGED username_to_id
       /\ DOMAIN id_to_user' = DOMAIN id_to_user
       /\ \A v \in DOMAIN id_to_user :
            /\ id_to_user'[v].username = id_to_user[v].username
            /\ \A h : already_follows(v, h)' <=>
                        \/ already_follows(v, h)
                        \/ v = g /\ h = u
  BY <1>4, <1>5, <1>7, <1>9, AddFollowEffect
<1>11. \A v \in DOMAIN id_to_user :
         id_to_user'[v].pending_notifications
           = id_to_user[v].pending_notifications
  BY <1>4, <1>7, <1>9, FollowStep
<1>12. UNCHANGED <<address_to_user_id, notification_vars>>
  BY <1>4 DEF respond
<1>13. Grows /\ NotesKept /\ FeedInv'
  BY <1>1, <1>10, <1>12, SameGrows
<1>14. UNCHANGED MembersMap
  BY <1>10 DEF MembersMap
<1>15. UNCHANGED SessionsMap
  BY <1>12, <1>13, SessionsKept DEF FeedInv
<1>16. UNCHANGED WaitingMap
  BY <1>10, <1>11, <1>13, WaitingKept
<1>17. UNCHANGED InboxMap
  BY <1>4, <1>5, RespondUnseen DEF FeedInv, ServerMsgType
<1>18. FollowsMap' = FollowsMap \cup {<<f, name>>}
  <2>1. \A x : FollowPair(x)' <=> FollowPair(x) \/ x = <<f, name>>
    <3>1. \A n \in DOMAIN username_to_id : username_to_id[n] \in DOMAIN id_to_user
      BY <1>7 DEF RegistryConsistent, user_id_exists
    <3>2. \A n, h \in DOMAIN username_to_id :
            username_to_id[n] = g /\ username_to_id[h] = u => n = name /\ h = f
      BY <1>7, <1>8, <1>9 DEF RegistryConsistent
    <3>3. \A x : FollowPair(x)' <=>
            \E h, n \in DOMAIN username_to_id :
              /\ x = <<h, n>>
              /\ \/ already_follows(username_to_id[n], username_to_id[h])
                 \/ username_to_id[n] = g /\ username_to_id[h] = u
      <4>1. \A x : FollowPair(x)' <=>
              \E h, n \in DOMAIN username_to_id :
                /\ x = <<h, n>>
                /\ already_follows(username_to_id[n], username_to_id[h])'
        BY <1>10 DEF FollowPair
      <4>2. \A h, n \in DOMAIN username_to_id :
              already_follows(username_to_id[n], username_to_id[h])' <=>
                \/ already_follows(username_to_id[n], username_to_id[h])
                \/ username_to_id[n] = g /\ username_to_id[h] = u
        BY <1>10, <3>1 DEF already_follows
      <4>3. QED
        BY <4>1, <4>2
    <3>4. QED
      BY <1>8, <1>9, <3>2, <3>3 DEF FollowPair
  <2>2. \A x : x \in FollowsMap' <=> x \in FollowsMap \/ x = <<f, name>>
    BY <1>1, <2>1, FollowsByIds, FollowsByIdsNext DEF FeedInv
  <2>3. QED
    BY <2>2
<1>19. F!addresses_of(f) # {}
  BY <1>5, <1>8, HasAddress DEF user_connected
<1>20. F!Follow(f, name)
  BY <1>9, <1>14, <1>15, <1>16, <1>17, <1>18, <1>19 DEF F!Follow, MembersMap
<1>21. QED
  BY <1>8, <1>9, <1>13, <1>20 DEF FeedStep, F!FeedNext

\* Followers by their names.
LEMMA FollowsNames ==
  ASSUME FeedInv, NEW u \in DOMAIN id_to_user
  PROVE  /\ \A v \in DOMAIN id_to_user :
              <<name_of(v), name_of(u)>> \in FollowsMap <=> already_follows(u, v)
         /\ \A f \in DOMAIN username_to_id :
              <<f, name_of(u)>> \in FollowsMap
                <=> already_follows(u, username_to_id[f])
         /\ \A f : <<f, name_of(u)>> \in FollowsMap => f \in DOMAIN username_to_id
<1>1. RegistryConsistent
  BY DEF FeedInv, ServerInv
<1>2. \A f : <<f, name_of(u)>> \in FollowsMap <=>
               /\ f \in DOMAIN username_to_id
               /\ already_follows(u, username_to_id[f])
  <2>1. name_of(u) \in DOMAIN username_to_id /\ username_to_id[name_of(u)] = u
    BY <1>1 DEF RegistryConsistent, name_of
  <2>2. \A f : <<f, name_of(u)>> \in FollowsMap <=> FollowPair(<<f, name_of(u)>>)
    BY FollowsByIds DEF FeedInv
  <2>3. QED
    BY <2>1, <2>2 DEF FollowPair
<1>3. \A v \in DOMAIN id_to_user :
        name_of(v) \in DOMAIN username_to_id /\ username_to_id[name_of(v)] = v
  BY <1>1 DEF RegistryConsistent, name_of
<1>4. QED
  BY <1>2, <1>3

\* What one more entry stands for comes behind what the list stands for.
LEMMA PostsOfAppend ==
  ASSUME NEW S, NEW l \in Seq(S), NEW p \in S
  PROVE  /\ PostsOf(Append(l, p)) = Append(PostsOf(l), post_of(p))
         /\ PostsOf(Append(l, p))' = Append(PostsOf(l)', post_of(p)')
<1> DEFINE m == Append(l, p)
<1>1. /\ Len(l) \in Nat /\ DOMAIN l = 1 .. Len(l)
      /\ DOMAIN m = 1 .. Len(l) + 1
      /\ m[Len(l) + 1] = p
      /\ \A i \in 1 .. Len(l) : m[i] = l[i]
  OBVIOUS
<1> HIDE DEF m
<1>2. ASSUME NEW T, NEW s \in Seq(T), NEW t, NEW x \in T,
             DOMAIN t = 1 .. Len(s) + 1, t = [i \in DOMAIN t |-> t[i]],
             t[Len(s) + 1] = x, \A i \in 1 .. Len(s) : t[i] = s[i]
      PROVE  t = Append(s, x)
  <2>1. /\ Append(s, x) \in Seq(T)
        /\ DOMAIN Append(s, x) = 1 .. Len(s) + 1
        /\ Append(s, x)[Len(s) + 1] = x
        /\ \A i \in 1 .. Len(s) : Append(s, x)[i] = s[i]
    OBVIOUS
  <2>2. Append(s, x) = [i \in DOMAIN Append(s, x) |-> Append(s, x)[i]]
    <3>1. \A r \in Seq(T) : r = [i \in DOMAIN r |-> r[i]]
      OBVIOUS
    <3>2. QED
      BY <2>1, <3>1
  <2>3. \A i \in 1 .. Len(s) + 1 : t[i] = Append(s, x)[i]
    <3> SUFFICES ASSUME NEW i \in 1 .. Len(s) + 1
                 PROVE  t[i] = Append(s, x)[i]
      OBVIOUS
    <3>1. i \in 1 .. Len(s) \/ i = Len(s) + 1
      OBVIOUS
    <3>2. QED
      BY <1>2, <2>1, <3>1
  <2>4. QED
    BY <1>2, <2>1, <2>2, <2>3
<1>3. PostsOf(m) = Append(PostsOf(l), post_of(p))
  <2> DEFINE T == {post_of(x) : x \in S}
  <2>1. PostsOf(l) \in Seq(T) /\ Len(PostsOf(l)) = Len(l)
    BY DEF PostsOf
  <2>2. /\ DOMAIN PostsOf(m) = 1 .. Len(l) + 1
        /\ PostsOf(m) = [i \in DOMAIN PostsOf(m) |-> PostsOf(m)[i]]
        /\ PostsOf(m)[Len(l) + 1] = post_of(p)
        /\ \A i \in 1 .. Len(l) : PostsOf(m)[i] = PostsOf(l)[i]
    BY <1>1 DEF PostsOf
  <2>3. post_of(p) \in T
    OBVIOUS
  <2> HIDE DEF T
  <2>4. QED
    BY <1>2, <2>1, <2>2, <2>3
<1>4. PostsOf(m)' = Append(PostsOf(l)', post_of(p)')
  <2> DEFINE T == {post_of(x)' : x \in S}
  <2>1. PostsOf(l)' \in Seq(T) /\ Len(PostsOf(l)') = Len(l)
    BY DEF PostsOf
  <2>2. /\ DOMAIN PostsOf(m)' = 1 .. Len(l) + 1
        /\ PostsOf(m)' = [i \in DOMAIN PostsOf(m)' |-> PostsOf(m)'[i]]
        /\ PostsOf(m)'[Len(l) + 1] = post_of(p)'
        /\ \A i \in 1 .. Len(l) : PostsOf(m)'[i] = PostsOf(l)'[i]
    BY <1>1 DEF PostsOf
  <2>3. post_of(p)' \in T
    OBVIOUS
  <2>4. PICK s, t, x : s = PostsOf(l)' /\ t = PostsOf(m)' /\ x = post_of(p)'
    OBVIOUS
  <2> HIDE DEF T
  <2>5. t = Append(s, x)
    BY <1>2, <2>1, <2>2, <2>3, <2>4
  <2>6. QED
    BY <2>4, <2>5
<1>5. QED
  BY <1>3, <1>4 DEF m

\* A message is stored for the followers that are offline: each of their
\* lists gets one entry that stands for it, and no other list any.
LEMMA StoreEffect ==
  ASSUME FeedInv, NEW u \in DOMAIN id_to_user, NEW text \in Messages,
         store_notification(u, get_followers(u), text)
  PROVE  /\ NotesKept
         /\ AuthorsKnown'
         /\ \E p \in PendingNotification :
              \A v \in DOMAIN id_to_user :
                IF already_follows(u, v) /\ ~user_connected(v)
                  THEN /\ id_to_user'[v].pending_notifications =
                            Append(id_to_user[v].pending_notifications, p)
                       /\ post_of(p)' = [author |-> id_to_user'[u].username,
                                         text |-> text]
                  ELSE id_to_user'[v].pending_notifications =
                         id_to_user[v].pending_notifications
<1>id. PICK id : id = last_notification_id + 1
  OBVIOUS
<1> DEFINE followers == id_to_user[u].followed_by
           off       == offline_users(followers)
           p         == [user_id |-> u, notification_id |-> id]
           notes     == notification_id_to_notification
           at(v)     == {i \in off : followers[i] = v}
           list(v)   == id_to_user[v].pending_notifications
           waits(v)  == already_follows(u, v) /\ ~user_connected(v)
<1>0. get_followers(u) = followers
  BY DEF get_followers, user_id_exists
<1>1. /\ \A i \in DOMAIN followers : followers[i] \in DOMAIN id_to_user
      /\ \A i, j \in DOMAIN followers : followers[i] = followers[j] => i = j
  BY DEF FeedInv, ServerInv, FollowersConsistent, user_id_exists
<1>2. \A v \in DOMAIN id_to_user : waits(v) <=> at(v) # {}
  BY <1>1 DEF offline_users, already_follows, user_id_exists
<1>3. p \in PendingNotification /\ id \notin DOMAIN notes
  <2>1. id \in NotificationIds /\ u \in UserIds
    BY <1>id DEF FeedInv, ServerInv, TypeOK, NotificationTypeOK, UserTypeOK,
         IsMap, NotificationIds, INVALID_NOTIFICATION_ID
  <2>2. id \notin DOMAIN notes
    BY <1>id DEF FeedInv, ServerInv, TypeOK, NotificationTypeOK,
         PendingConsistent, IsMap, NotificationIds
  <2>3. QED
    BY <2>1, <2>2 DEF PendingNotification
<1>4. CASE off = {}
  <2>1. UNCHANGED <<notification_vars, id_to_user>>
    BY <1>0, <1>4 DEF store_notification
  <2>2. NotesKept /\ AuthorsKnown'
    BY <2>1 DEF NotesKept, AuthorsKnown, notification_vars, FeedInv
  <2>3. \A v \in DOMAIN id_to_user : ~waits(v)
    BY <1>2, <1>4
  <2> HIDE DEF p
  <2>4. QED
    BY <1>3, <2>1, <2>2, <2>3
<1>5. CASE off # {}
  <2> DEFINE note == [author |-> u, message |-> text,
                      pending_users |-> Cardinality(off)]
  <2>1. /\ notification_id_to_notification' = Put(notes, id, note)
        /\ id_to_user' = [v \in DOMAIN id_to_user |->
             add_pending_notification(v, p, Cardinality(at(v)))]
    BY <1>id, <1>0, <1>5 DEF store_notification
  <2>2. /\ DOMAIN notification_id_to_notification' = DOMAIN notes \cup {id}
        /\ notification_id_to_notification'[id].author = u
        /\ notification_id_to_notification'[id].message = text
        /\ \A n \in DOMAIN notes : notification_id_to_notification'[n] = notes[n]
    BY <1>3, <2>1 DEF Put
  <2>3. DOMAIN id_to_user' = DOMAIN id_to_user
    BY <2>1
  <2>4. NotesKept /\ AuthorsKnown'
    BY <2>2, <2>3 DEF NotesKept, AuthorsKnown, FeedInv
  <2>5. post_of(p)' = [author |-> id_to_user'[u].username, text |-> text]
    BY <2>2 DEF post_of, notification_exists, name_of
  <2>6. ASSUME NEW v \in DOMAIN id_to_user
        PROVE  id_to_user'[v].pending_notifications =
                 IF waits(v) THEN Append(list(v), p) ELSE list(v)
    <3>1. Cardinality(at(v)) = IF waits(v) THEN 1 ELSE 0
      <4>1. \A i, j \in at(v) : i = j
        BY <1>1 DEF offline_users
      <4>2. PICK A : A = at(v)
        OBVIOUS
      <4>3. QED
        BY <1>2, <4>1, <4>2, AtMostOne
    <3>2. id_to_user[v] \in UserData /\ list(v) \in Seq(PendingNotification)
      BY DEF FeedInv, ServerInv, TypeOK, UserTypeOK, IsMap, UserData
    <3>3. id_to_user'[v].pending_notifications =
            list(v) \o [k \in 1 .. Cardinality(at(v)) |-> p]
      <4>1. id_to_user'[v] = [id_to_user[v] EXCEPT !.pending_notifications =
                                @ \o [k \in 1 .. Cardinality(at(v)) |-> p]]
        BY <2>1 DEF add_pending_notification
      <4>2. QED
        BY <3>2, <4>1 DEF UserData
    <3>4. PICK l : l = list(v)
      OBVIOUS
    <3>5. PICK c : c = Cardinality(at(v))
      OBVIOUS
    <3> HIDE DEF p
    <3>6. CASE waits(v)
      <4>1. [k \in 1 .. 1 |-> p] = <<p>>
        OBVIOUS
      <4>2. l \in Seq(PendingNotification) => l \o <<p>> = Append(l, p)
        OBVIOUS
      <4>3. QED
        BY <3>1, <3>2, <3>3, <3>4, <3>5, <3>6, <4>1, <4>2
    <3>7. CASE ~waits(v)
      <4>1. [k \in 1 .. 0 |-> p] = << >>
        OBVIOUS
      <4>2. l \in Seq(PendingNotification) => l \o << >> = l
        OBVIOUS
      <4>3. QED
        BY <3>1, <3>2, <3>3, <3>4, <3>5, <3>7, <4>1, <4>2
    <3>8. QED
      BY <3>6, <3>7
  <2> HIDE DEF p
  <2>7. QED
    BY <1>3, <2>4, <2>5, <2>6
<1>6. QED
  BY <1>4, <1>5

\* What a message sent at once adds to what is under way to an address.
LEMMA PublishInbox ==
  ASSUME FeedInv, NEW a \in Addresses, NEW text \in ValidMessages,
         SendSuccess(a, text), NEW b \in Addresses
  PROVE  LET u == get_user_id_from_address(a)
         IN  InboxMap'[b] =
               IF <<SessionsMap[b], name_of(u)>> \in FollowsMap
                 THEN Append(InboxMap[b], [author |-> name_of(u), text |-> text])
                 ELSE InboxMap[b]
<1>u. PICK u : u = get_user_id_from_address(a)
  OBVIOUS
<1> DEFINE followers == get_followers(u)
           n(v)      == Occurrences(followers, v)
           conn0     == user_id_to_connection_data
           conn      == take_msg_ids(conn0, u, 1)
           posts(v)  == [k \in 1 .. n(v) |-> Post(conn[v].last_msg_id + k, u, text)]
           reply     == Response(conn[u].last_msg_id, "SendCommandSuccess", NULL)
           answer(v) == IF v = u THEN <<reply>> ELSE << >>
           msgs      == [v \in DOMAIN conn |-> posts(v) \o answer(v)]
           post      == [author |-> name_of(u), text |-> text]
<1>1. /\ u # INVALID_USER_ID
      /\ send_queue' = to_sessions(send_queue, conn, msgs)
  BY <1>u DEF SendSuccess
<1>2. u \in DOMAIN conn0 /\ u \in DOMAIN id_to_user
  BY <1>u, <1>1, Linked DEF FeedInv
<1>3. ConnMap(conn0) /\ AddrMap(address_to_user_id)
  BY DEF FeedInv, ServerInv, TypeOK, ConnectionTypeOK, ConnMap, AddrMap
<1>4. /\ ConnMap(conn)
      /\ DOMAIN conn = DOMAIN conn0
      /\ \A v \in DOMAIN conn0 :
           /\ conn[v].session_one = conn0[v].session_one
           /\ conn[v].session_two = conn0[v].session_two
  BY <1>3, TakeMsgIds
<1>5. SessionsMatch(conn, address_to_user_id)
  BY <1>3, <1>4, SameSessions DEF FeedInv, ServerInv, SessionsConsistent
<1>6. \A v \in DOMAIN conn : conn[v].last_msg_id \in Nat
  BY <1>4 DEF ConnMap, IsMap, UserConnectionData
<1>7. /\ followers = id_to_user[u].followed_by
      /\ \A i, j \in DOMAIN followers : followers[i] = followers[j] => i = j
      /\ \A i \in DOMAIN followers : followers[i] # u
  BY <1>2 DEF get_followers, user_id_exists, FeedInv, ServerInv,
       FollowersConsistent
<1>8. \A v : n(v) = IF already_follows(u, v) THEN 1 ELSE 0
  <2> SUFFICES ASSUME NEW v
               PROVE  n(v) = IF already_follows(u, v) THEN 1 ELSE 0
    OBVIOUS
  <2>1. PICK P : P = {i \in DOMAIN followers : followers[i] = v}
    OBVIOUS
  <2>2. \A i, j \in P : i = j
    BY <1>7, <2>1
  <2>3. P # {} <=> already_follows(u, v)
    BY <1>7, <2>1 DEF already_follows
  <2>4. QED
    BY <2>1, <2>2, <2>3, AtMostOne DEF Occurrences
<1>9. ~already_follows(u, u)
  BY <1>7 DEF already_follows
<1>10. reply \in ServerMessageData /\ reply.msg_type # "ServerSendCommand"
  <2>1. conn[u].last_msg_id \in Nat
    BY <1>2, <1>4, <1>6
  <2> HIDE DEF conn
  <2>2. QED
    BY <2>1 DEF Response, ServerMessageData, ServerMsgType
<1>11. send_queue[b] \in Seq(ServerMessageData)
  BY DEF FeedInv, ServerInv, TypeOK, SendQueueTypeOK
<1>12. /\ InboxMap'[b] = Posts(send_queue'[b])
       /\ InboxMap[b] = Posts(send_queue[b])
  BY DEF InboxMap, Posts, PostsAt
<1> HIDE DEF n, conn, reply
<1>13. CASE b \notin DOMAIN address_to_user_id
  <2>1. send_queue'[b] = send_queue[b]
    BY <1>1, <1>5, <1>13, ToNobody
  <2>2. SessionsMap[b] = NULL
    BY <1>13 DEF SessionsMap, address_exists
  <2>3. NULL \notin DOMAIN username_to_id
    BY NullIsNoName DEF FeedInv, NamesValid
  <2>4. <<SessionsMap[b], name_of(u)>> \notin FollowsMap
    BY <1>2, <2>2, <2>3, FollowsNames
  <2>5. QED
    BY <1>u, <1>12, <2>1, <2>4
<1>14. CASE b \in DOMAIN address_to_user_id
  <2>1. PICK v : v = address_to_user_id[b]
    OBVIOUS
  <2>2. /\ v \in DOMAIN conn
        /\ send_queue'[b] = Then(send_queue[b], msgs[v])
    <3> HIDE DEF msgs
    <3> QED
      BY <1>1, <1>5, <1>14, <2>1, ToSession
  <2>3. PICK r : r = posts(v) \o answer(v)
    OBVIOUS
  <2>4. send_queue'[b] = send_queue[b] \o r
    BY <2>2, <2>3 DEF Then
  <2>5. SessionsMap[b] = name_of(v) /\ v \in DOMAIN id_to_user
    BY <1>14, <2>1, LinkedUser DEF SessionsMap, address_exists, FeedInv
  <2>6. <<SessionsMap[b], name_of(u)>> \in FollowsMap <=> already_follows(u, v)
    BY <1>2, <2>5, FollowsNames
  <2>7. ASSUME ~already_follows(u, v)
        PROVE  /\ r \in Seq(ServerMessageData)
               /\ \A k \in DOMAIN r : r[k].msg_type # "ServerSendCommand"
    <3>1. posts(v) = << >>
      BY <1>8, <2>7
    <3>2. r = answer(v)
      <4>1. << >> \o <<reply>> = <<reply>> /\ << >> \o << >> = << >>
        OBVIOUS
      <4>2. QED
        BY <2>3, <3>1, <4>1
    <3>3. CASE v = u
      BY <1>10, <3>2, <3>3
    <3>4. CASE v # u
      <4>1. r = << >> /\ DOMAIN << >> = {}
        BY <3>2, <3>4
      <4>2. QED
        BY <4>1
    <3>5. QED
      BY <3>3, <3>4
  <2>8. ASSUME already_follows(u, v)
        PROVE  /\ r \in Seq(ServerMessageData)
               /\ \A k \in DOMAIN r : r[k].msg_type = "ServerSendCommand"
               /\ Contents(r) = <<post>>
    <3>1. v # u
      BY <1>9, <2>8
    <3>2. PICK id : id = conn[v].last_msg_id + 1
      OBVIOUS
    <3>3. PICK m : m = Post(id, u, text)
      OBVIOUS
    <3>4. m \in ServerMessageData
      <4>1. id \in Nat
        BY <1>6, <2>2, <3>2
      <4>2. text \in Messages
        BY ValidMessagesAreMessages
      <4>3. QED
        BY <3>3, <4>1, <4>2, MessageTypes DEF FeedInv, ServerInv, TypeOK
    <3>5. m.msg_type = "ServerSendCommand" /\ Content(m) = post
      BY <1>2, <3>3 DEF Post, Content, get_username_from_user_id,
           user_id_exists, name_of
    <3>6. posts(v) = <<m>>
      <4>1. posts(v) = [k \in 1 .. 1 |-> Post(conn[v].last_msg_id + k, u, text)]
        BY <1>8, <2>8
      <4>2. [k \in 1 .. 1 |-> Post(conn[v].last_msg_id + k, u, text)]
              = [k \in 1 .. 1 |-> m]
        <5>1. \A k \in 1 .. 1 : Post(conn[v].last_msg_id + k, u, text) = m
          BY <3>2, <3>3
        <5>2. QED
          BY <5>1
      <4>3. [k \in 1 .. 1 |-> m] = <<m>>
        OBVIOUS
      <4>4. QED
        BY <4>1, <4>2, <4>3
    <3>7. r = <<m>>
      <4>1. <<m>> \o << >> = <<m>>
        OBVIOUS
      <4>2. QED
        BY <2>3, <3>1, <3>6, <4>1
    <3>8. Contents(r) = <<post>>
      BY <3>5, <3>7 DEF Contents
    <3>9. QED
      BY <3>4, <3>5, <3>7, <3>8
  <2>9. CASE ~already_follows(u, v)
    <3>1. Posts(send_queue[b] \o r) = Posts(send_queue[b])
      BY <1>11, <2>7, <2>9, PostsThenOthers
    <3>2. QED
      BY <1>u, <1>12, <2>4, <2>6, <2>9, <3>1
  <2>10. CASE already_follows(u, v)
    <3>1. Posts(send_queue[b] \o r) = Posts(send_queue[b]) \o <<post>>
      BY <1>11, <2>8, <2>10, PostsThenPosts
    <3>2. Posts(send_queue[b]) \o <<post>> = Append(Posts(send_queue[b]), post)
      <4> DEFINE q == send_queue[b]
      <4>1. PICK s : s = Posts(q)
        OBVIOUS
      <4>2. \E T : s \in Seq(T) /\ post \in T
        <5> DEFINE T == {s[k] : k \in DOMAIN s} \cup {post}
        <5>1. PICK l : l = Cardinality(PostsAt(q))
          OBVIOUS
        <5>2. l \in Nat
          BY <1>11, <5>1, PostsFinite
        <5>3. DOMAIN s = 1 .. l /\ s = [k \in 1 .. l |-> s[k]]
          BY <4>1, <5>1 DEF Posts
        <5>4. \A k \in 1 .. l : s[k] \in T
          BY <5>3
        <5> HIDE DEF T
        <5>5. s \in Seq(T)
          BY <5>2, <5>3, <5>4
        <5>6. QED
          BY <5>5 DEF T
      <4>3. PICK T : s \in Seq(T) /\ post \in T
        BY <4>2
      <4> HIDE DEF post
      <4>4. s \o <<post>> = Append(s, post)
        BY <4>3
      <4>5. QED
        BY <4>1, <4>4
    <3>3. QED
      BY <1>u, <1>12, <2>4, <2>6, <2>10, <3>1, <3>2
  <2>11. QED
    BY <2>9, <2>10
<1>15. QED
  BY <1>13, <1>14

\* A message that is sent: the followers that are connected get it at once
\* and the others find it waiting, each once.
LEMMA SendSuccessFeed ==
  ASSUME FeedInv, NEW a \in Addresses, NEW text \in Messages,
         SendSuccess(a, text)
  PROVE  FeedInv' /\ FeedStep
<1>1. ServerInv'
  BY SendSuccessInv DEF FeedInv
<1>u. PICK u : u = get_user_id_from_address(a)
  OBVIOUS
<1>2. /\ u # INVALID_USER_ID
      /\ text \in ValidMessages
      /\ store_notification(u, get_followers(u), text)
      /\ UNCHANGED <<address_to_user_id, username_to_id>>
  BY <1>u DEF SendSuccess, is_valid_message
<1>3. u \in DOMAIN user_id_to_connection_data /\ u \in DOMAIN id_to_user
  BY <1>u, <1>2, Linked DEF FeedInv
<1>4. /\ DOMAIN id_to_user' = DOMAIN id_to_user
      /\ \A v \in DOMAIN id_to_user :
           /\ id_to_user'[v].username = id_to_user[v].username
           /\ id_to_user'[v].followed_by = id_to_user[v].followed_by
  BY <1>2, <1>3, StoreStep DEF FeedInv, ServerInv, TypeOK
<1>5. /\ NotesKept
      /\ AuthorsKnown'
      /\ \E p \in PendingNotification :
           \A v \in DOMAIN id_to_user :
             IF already_follows(u, v) /\ ~user_connected(v)
               THEN /\ id_to_user'[v].pending_notifications =
                         Append(id_to_user[v].pending_notifications, p)
                    /\ post_of(p)' = [author |-> id_to_user'[u].username,
                                      text |-> text]
               ELSE id_to_user'[v].pending_notifications =
                      id_to_user[v].pending_notifications
  BY <1>2, <1>3, StoreEffect
<1>6. PICK p \in PendingNotification :
        \A v \in DOMAIN id_to_user :
          IF already_follows(u, v) /\ ~user_connected(v)
            THEN /\ id_to_user'[v].pending_notifications =
                      Append(id_to_user[v].pending_notifications, p)
                 /\ post_of(p)' = [author |-> id_to_user'[u].username,
                                   text |-> text]
            ELSE id_to_user'[v].pending_notifications =
                   id_to_user[v].pending_notifications
  BY <1>5
<1>7. Grows /\ FeedInv'
  BY <1>1, <1>2, <1>4, <1>5 DEF Grows, FeedInv, NamesValid
<1>8. PICK f : f = name_of(u)
  OBVIOUS
<1>9. RegistryConsistent
  BY DEF FeedInv, ServerInv
<1>10. /\ f \in DOMAIN username_to_id /\ username_to_id[f] = u
       /\ f \in ValidNames
  BY <1>3, <1>8, <1>9 DEF RegistryConsistent, name_of, FeedInv, NamesValid
<1> DEFINE post == [author |-> f, text |-> text]
<1>11. UNCHANGED MembersMap
  BY <1>2 DEF MembersMap
<1>12. UNCHANGED FollowsMap
  BY <1>4, <1>7, FollowsKept
<1>13. UNCHANGED SessionsMap
  BY <1>2, <1>7, SessionsKept DEF FeedInv
<1>14. ASSUME NEW name \in ValidNames
       PROVE  WaitingMap'[name] =
                IF <<name, f>> \in FollowsMap /\ F!addresses_of(name) = {}
                  THEN Append(WaitingMap[name], post) ELSE WaitingMap[name]
  <2>1. CASE name \notin DOMAIN username_to_id
    <3>1. <<name, f>> \notin FollowsMap
      BY <1>3, <1>8, <2>1, FollowsNames
    <3>2. WaitingMap'[name] = WaitingMap[name]
      BY <1>2, <1>5, <1>7, <2>1, WaitKept
    <3>3. QED
      BY <3>1, <3>2
  <2>2. CASE name \in DOMAIN username_to_id
    <3>1. PICK v : v = username_to_id[name]
      OBVIOUS
    <3>2. v \in DOMAIN id_to_user
      BY <1>9, <2>2, <3>1 DEF RegistryConsistent, user_id_exists
    <3>3. /\ <<name, f>> \in FollowsMap <=> already_follows(u, v)
          /\ F!addresses_of(name) = {} <=> ~user_connected(v)
      BY <1>3, <1>8, <2>2, <3>1, FollowsNames, HasAddress
    <3>4. CASE ~(already_follows(u, v) /\ ~user_connected(v))
      <4>1. id_to_user'[v].pending_notifications
              = id_to_user[v].pending_notifications
        BY <1>6, <3>2, <3>4
      <4>2. WaitingMap'[name] = WaitingMap[name]
        BY <1>2, <1>5, <1>7, <2>2, <3>1, <4>1, WaitKept
      <4>3. QED
        BY <3>3, <3>4, <4>2
    <3>5. CASE already_follows(u, v) /\ ~user_connected(v)
      <4>1. PICK l : l = id_to_user[v].pending_notifications
        OBVIOUS
      <4>2. /\ l \in Seq(PendingNotification)
            /\ \A i \in DOMAIN l :
                 l[i].notification_id \in DOMAIN notification_id_to_notification
        <5>1. l \in Seq(PendingNotification)
          BY <3>2, <4>1 DEF FeedInv, ServerInv, TypeOK, UserTypeOK, IsMap,
               UserData
        <5>2. QED
          BY <3>2, <4>1, <5>1 DEF FeedInv, ServerInv, PendingConsistent,
               notification_exists
      <4>3. PICK m : m = Append(l, p)
        OBVIOUS
      <4>4. m = id_to_user'[v].pending_notifications
        BY <1>6, <3>2, <3>5, <4>1, <4>3
      <4>5. \A i \in DOMAIN m :
              m[i].notification_id \in DOMAIN notification_id_to_notification'
        BY <1>4, <1>7, <3>2, <4>4 DEF FeedInv, ServerInv, PendingConsistent,
             notification_exists
      <4>6. \A i \in DOMAIN l : i \in DOMAIN m /\ m[i] = l[i]
        BY <4>2, <4>3
      <4>7. PostsOf(l)' = PostsOf(l)
        <5>1. \A i \in DOMAIN l :
                l[i].notification_id \in DOMAIN notification_id_to_notification'
          BY <4>5, <4>6
        <5>2. QED
          BY <1>5, <1>7, <4>2, <5>1, PostsOfKept
      <4>8. PostsOf(m)' = Append(PostsOf(l)', post_of(p)')
        BY <4>2, <4>3, PostsOfAppend
      <4>9. post_of(p)' = post
        BY <1>3, <1>4, <1>6, <1>8, <3>2, <3>5 DEF name_of
      <4>10. WaitingMap[name] = PostsOf(l)
        BY <2>2, <3>1, <4>1, WaitingByList
      <4>11. WaitingMap'[name] = PostsOf(m)'
        BY <1>2, <2>2, <3>1, <4>4, WaitingByListNext
      <4> HIDE DEF post
      <4>12. QED
        BY <3>3, <3>5, <4>7, <4>8, <4>9, <4>10, <4>11
    <3>6. QED
      BY <3>4, <3>5
  <2>3. QED
    BY <2>1, <2>2
<1>15. WaitingMap' = [name \in ValidNames |->
         IF <<name, f>> \in FollowsMap /\ F!addresses_of(name) = {}
           THEN Append(WaitingMap[name], post) ELSE WaitingMap[name]]
  BY <1>14, MapShapesNext
<1>16. InboxMap' = [b \in Addresses |->
         IF <<SessionsMap[b], f>> \in FollowsMap
           THEN Append(InboxMap[b], post) ELSE InboxMap[b]]
  <2>1. \A b \in Addresses : InboxMap'[b] =
          IF <<SessionsMap[b], f>> \in FollowsMap
            THEN Append(InboxMap[b], post) ELSE InboxMap[b]
    BY <1>u, <1>2, <1>8, PublishInbox
  <2>2. QED
    BY <2>1, MapShapesNext
<1>17. F!addresses_of(f) # {}
  BY <1>3, <1>10, HasAddress DEF user_connected
<1>18. F!Publish(f, text)
  BY <1>11, <1>12, <1>13, <1>15, <1>16, <1>17 DEF F!Publish
<1>19. QED
  BY <1>2, <1>7, <1>10, <1>18 DEF FeedStep, F!FeedNext

\* The parts of a successful login: the user u it is for, the entries that
\* waited for it and the posts that they become.
LoginParts(a, name, u, list, id, conn, posts) ==
  /\ name \in ValidNames
  /\ u = id_after_login(name) /\ u \in UserIds
  /\ list = registered(name)[u].pending_notifications
  /\ list \in Seq(PendingNotification)
  /\ \A i \in DOMAIN list :
       notification_exists(list[i].notification_id)
       /\ notification_id_to_notification[list[i].notification_id].author
            = list[i].user_id
  /\ conn = take_msg_ids(add_session(u, a), u, 1)
  /\ id = conn[u].last_msg_id
  /\ posts = [k \in DOMAIN list |->
                Post(id + k, list[k].user_id,
                     notification_id_to_notification
                       [list[k].notification_id].message)]
  /\ user_connected(u) => session_available(u)
  /\ get_user_id_from_address(a) \in {INVALID_USER_ID, u}
  /\ add_or_update_user(name)
  /\ DOMAIN id_to_user' = DOMAIN registered(name)
  /\ id_to_user'[u].pending_notifications = << >>
  /\ \A v \in DOMAIN registered(name) :
       /\ id_to_user'[v].username = registered(name)[v].username
       /\ id_to_user'[v].followed_by = registered(name)[v].followed_by
       /\ v # u => id_to_user'[v].pending_notifications
                     = registered(name)[v].pending_notifications
  /\ address_to_user_id' = link_address(u, a)
  /\ notification_id_to_notification' = decrement_pending_users_from(list)
  /\ send_queue' =
       to_sessions(to_address(a, Response(id, "LoginSuccess", NULL)), conn,
                   [v \in DOMAIN conn |-> IF v = u THEN posts ELSE << >>])

\* Every entry of the list is found, so all of it is sent.
LEMMA LoginHasParts ==
  ASSUME FeedInv, NEW a \in Addresses, NEW name \in Names,
         LoginSuccess(a, name)
  PROVE  \E u, list, id, conn, posts :
           LoginParts(a, name, u, list, id, conn, posts)
<1>u. PICK u : u = id_after_login(name)
  OBVIOUS
<1> DEFINE users   == registered(name)
           drained == IF ~user_connected(u) THEN users[u].pending_notifications
                                            ELSE << >>
<1>l. PICK list : list = users[u].pending_notifications
  OBVIOUS
<1>c. PICK conn : conn = take_msg_ids(add_session(u, a), u, 1)
  OBVIOUS
<1>i. PICK id : id = conn[u].last_msg_id
  OBVIOUS
<1>p. PICK posts : posts = [k \in DOMAIN list |->
                              Post(id + k, list[k].user_id,
                                   notification_id_to_notification
                                     [list[k].notification_id].message)]
  OBVIOUS
<1>1. name \in ValidNames /\ ~TooManySessions(name) /\ ~LinkedToOther(a, name)
      /\ add_or_update_user(name)
  BY DEF LoginSuccess, is_valid_username
<1>2. /\ u \in UserIds
      /\ UserMap(users)
      /\ DOMAIN users = DOMAIN id_to_user \cup {u}
      /\ \A v \in DOMAIN id_to_user : users[v] = id_to_user[v]
      /\ u \notin DOMAIN id_to_user => users[u].pending_notifications = << >>
  BY <1>u, <1>1, RegisterFacts DEF FeedInv, ServerInv, TypeOK
<1>3. /\ user_connected(u) => list = << >>
      /\ drained = list
      /\ list \in Seq(PendingNotification)
  BY <1>2, <1>l DEF user_connected, FeedInv, ServerInv,
       NothingWaitsForConnected, user_id_exists, UserMap, IsMap, UserData
<1>4. \A i \in DOMAIN list :
        /\ notification_exists(list[i].notification_id)
        /\ notification_id_to_notification[list[i].notification_id].author
             = list[i].user_id
  <2>1. CASE u \in DOMAIN id_to_user
    BY <1>2, <1>l, <2>1 DEF FeedInv, ServerInv, PendingConsistent
  <2>2. CASE u \notin DOMAIN id_to_user
    <3>1. DOMAIN list = {}
      BY <1>2, <1>l, <2>2
    <3>2. QED
      BY <3>1
  <2>3. QED
    BY <2>1, <2>2
<1>5. deliverable(drained) = list
  <2> HIDE DEF drained
  <2> QED
    BY <1>3, <1>4 DEF deliverable
<1>6. /\ id_to_user' = IF ~user_connected(u)
                         THEN [users EXCEPT ![u].pending_notifications = << >>]
                         ELSE users
      /\ address_to_user_id' = link_address(u, a)
      /\ notification_id_to_notification' = decrement_pending_users_from(list)
      /\ send_queue' =
           to_sessions(to_address(a, Response(id, "LoginSuccess", NULL)), conn,
                       [v \in DOMAIN conn |-> IF v = u THEN posts ELSE << >>])
  <2>1. PICK sent : sent = deliverable(drained)
    OBVIOUS
  <2>2. /\ id_to_user' = IF ~user_connected(u)
                           THEN [users EXCEPT ![u].pending_notifications = << >>]
                           ELSE users
        /\ address_to_user_id' = link_address(u, a)
        /\ notification_id_to_notification' = decrement_pending_users_from(sent)
        /\ send_queue' =
             to_sessions(to_address(a, Response(id, "LoginSuccess", NULL)), conn,
               [v \in DOMAIN conn |->
                  IF v = u
                    THEN [k \in DOMAIN sent |->
                            Post(id + k, sent[k].user_id,
                                 notification_id_to_notification
                                   [sent[k].notification_id].message)]
                    ELSE << >>])
    BY <1>u, <1>c, <1>i, <2>1 DEF LoginSuccess, drain_pending_notifications
  <2>3. sent = list
    BY <1>5, <2>1
  <2> HIDE DEF users
  <2>4. QED
    BY <1>p, <2>2, <2>3
<1>7. /\ DOMAIN id_to_user' = DOMAIN users
      /\ id_to_user'[u].pending_notifications = << >>
      /\ \A v \in DOMAIN users :
           /\ id_to_user'[v].username = users[v].username
           /\ id_to_user'[v].followed_by = users[v].followed_by
           /\ v # u => id_to_user'[v].pending_notifications
                         = users[v].pending_notifications
  <2> HIDE DEF users
  <2>1. CASE user_connected(u)
    BY <1>3, <1>6, <1>l, <2>1
  <2>2. CASE ~user_connected(u)
    <3>1. /\ DOMAIN id_to_user' = DOMAIN users
          /\ \A v \in DOMAIN users :
               id_to_user'[v] = IF v = u
                                  THEN [users[v] EXCEPT
                                          !.pending_notifications = << >>]
                                  ELSE users[v]
      BY <1>6, <2>2
    <3>2. \A v \in DOMAIN users : users[v] \in UserData
      BY <1>2 DEF UserMap, IsMap
    <3>3. u \in DOMAIN users
      BY <1>2
    <3>4. QED
      BY <3>1, <3>2, <3>3 DEF UserData
  <2>3. QED
    BY <2>1, <2>2
<1>8. /\ user_connected(u) => session_available(u)
      /\ get_user_id_from_address(a) \in {INVALID_USER_ID, u}
  BY <1>u, <1>1 DEF TooManySessions, LinkedToOther
<1>9. LoginParts(a, name, u, list, id, conn, posts)
  BY <1>u, <1>l, <1>c, <1>i, <1>p, <1>1, <1>2, <1>3, <1>4, <1>6, <1>7, <1>8
  DEF LoginParts
<1>10. QED
  BY <1>9

\* What a login leaves stored is as it was but for the counts.
LEMMA LoginNotes ==
  ASSUME FeedInv, NEW list \in Seq(PendingNotification), Grows,
         notification_id_to_notification' = decrement_pending_users_from(list)
  PROVE  NotesKept /\ AuthorsKnown'
<1> DEFINE notes == notification_id_to_notification
<1>1. \A n \in DOMAIN notes' :
        /\ n \in DOMAIN notes
        /\ notes'[n] = [notes[n] EXCEPT !.pending_users = @ - mentions(list, n)]
  BY DEF decrement_pending_users_from
<1>2. \A n \in DOMAIN notes : notes[n] \in NotificationData
  BY DEF FeedInv, ServerInv, TypeOK, NotificationTypeOK, IsMap
<1>3. \A n \in DOMAIN notes' : /\ notes'[n].author = notes[n].author
                               /\ notes'[n].message = notes[n].message
  BY <1>1, <1>2 DEF NotificationData
<1>4. QED
  BY <1>1, <1>3 DEF NotesKept, AuthorsKnown, FeedInv, Grows

\* The posts a login sends are those that waited.
LEMMA LoginPosts ==
  ASSUME FeedInv, NEW a \in Addresses, NEW name, NEW u, NEW list, NEW id,
         NEW conn, NEW posts, LoginParts(a, name, u, list, id, conn, posts),
         id \in Nat
  PROVE  /\ posts \in Seq(ServerMessageData)
         /\ \A k \in DOMAIN posts : posts[k].msg_type = "ServerSendCommand"
         /\ Contents(posts) = WaitingMap[name]
<1> DEFINE notes == notification_id_to_notification
           n(k)  == list[k].notification_id
<1>0. /\ name \in ValidNames
      /\ list \in Seq(PendingNotification)
      /\ list = registered(name)[u].pending_notifications
      /\ u = id_after_login(name)
  BY DEF LoginParts
<1>1. \A k \in DOMAIN list : /\ n(k) \in DOMAIN notes
                             /\ notes[n(k)].author = list[k].user_id
                             /\ list[k].user_id \in DOMAIN id_to_user
                             /\ notes[n(k)].message \in Messages
  BY DEF LoginParts, notification_exists, FeedInv, AuthorsKnown, ServerInv, TypeOK,
       NotificationTypeOK, IsMap, NotificationData
<1>2. /\ DOMAIN posts = DOMAIN list
      /\ posts = [k \in DOMAIN posts |-> posts[k]]
      /\ \A k \in DOMAIN list :
           posts[k] = Post(id + k, list[k].user_id, notes[n(k)].message)
  BY DEF LoginParts
<1>3. Len(list) \in Nat /\ DOMAIN list = 1 .. Len(list)
  BY <1>0
<1> HIDE DEF n
<1>4. \A k \in DOMAIN list :
        /\ posts[k].msg_type = "ServerSendCommand"
        /\ Content(posts[k]) = post_of(list[k])
  <2> SUFFICES ASSUME NEW k \in DOMAIN list
               PROVE  /\ posts[k].msg_type = "ServerSendCommand"
                      /\ Content(posts[k]) = post_of(list[k])
    OBVIOUS
  <2>1. posts[k] = [msg_id |-> id + k, msg_type |-> "ServerSendCommand",
                    username |-> id_to_user[list[k].user_id].username,
                    body |-> notes[n(k)].message]
    BY <1>1, <1>2 DEF Post, get_username_from_user_id, user_id_exists
  <2>2. post_of(list[k]) = [author |-> id_to_user[list[k].user_id].username,
                            text |-> notes[n(k)].message]
    BY <1>1 DEF n, post_of, notification_exists, name_of
  <2>3. PICK w, t : /\ w = id_to_user[list[k].user_id].username
                    /\ t = notes[n(k)].message
    OBVIOUS
  <2>4. posts[k] = [msg_id |-> id + k, msg_type |-> "ServerSendCommand",
                    username |-> w, body |-> t]
    BY <2>1, <2>3
  <2>5. post_of(list[k]) = [author |-> w, text |-> t]
    BY <2>2, <2>3
  <2>6. QED
    BY <2>4, <2>5 DEF Content
<1>5. posts \in Seq(ServerMessageData)
  <2>1. ASSUME NEW k \in DOMAIN list PROVE posts[k] \in ServerMessageData
    <3>1. PICK j : j = id + k
      OBVIOUS
    <3>2. j \in Nat
      BY <1>3, <3>1
    <3>3. Post(j, list[k].user_id, notes[n(k)].message) \in ServerMessageData
      BY <1>1, <3>2, MessageTypes DEF FeedInv, ServerInv, TypeOK
    <3>4. QED
      BY <1>2, <3>1, <3>3
  <2>2. QED
    BY <1>2, <1>3, <2>1
<1>6. Contents(posts) = PostsOf(list)
  BY <1>2, <1>4 DEF Contents, PostsOf
<1>7. PostsOf(list) = WaitingMap[name]
  <2>1. /\ \A v \in DOMAIN id_to_user : registered(name)[v] = id_to_user[v]
        /\ u \notin DOMAIN id_to_user => list = << >>
        /\ Registers(name) <=> name \notin DOMAIN username_to_id
        /\ Registers(name) => u \notin DOMAIN id_to_user
        /\ ~Registers(name) => u = username_to_id[name] /\ u \in DOMAIN id_to_user
    BY <1>0, RegisterFacts DEF FeedInv, ServerInv, TypeOK
  <2>2. CASE name \in DOMAIN username_to_id
    BY <1>0, <2>1, <2>2, WaitingByList
  <2>3. CASE name \notin DOMAIN username_to_id
    BY <1>0, <2>1, <2>3, WaitingByList, PostsOfNothing
  <2>4. QED
    BY <2>2, <2>3
<1>8. QED
  BY <1>2, <1>4, <1>5, <1>6, <1>7

\* Feed counts as the server does.
LEMMA SameCardinality == \A S : F!Cardinality(S) = Cardinality(S)
BY DEF F!Cardinality, Cardinality

\* A login from a free address, or from one that is the user's own: it
\* speaks for the user, and what waited is under way to every session.
LEMMA LoginSuccessFeed ==
  ASSUME FeedInv, NEW a \in Addresses, NEW name \in Names,
         LoginSuccess(a, name)
  PROVE  FeedInv' /\ FeedStep
<1>1. ServerInv'
  BY LoginSuccessInv DEF FeedInv
<1>2. PICK u, list, id, conn, posts :
        LoginParts(a, name, u, list, id, conn, posts)
  BY LoginHasParts
<1>3. name \in ValidNames /\ u \in UserIds /\ u = id_after_login(name)
  BY <1>2 DEF LoginParts
<1>4. /\ DOMAIN registered(name) = DOMAIN id_to_user \cup {u}
      /\ registered(name)[u].username = name
      /\ \A v \in DOMAIN id_to_user : registered(name)[v] = id_to_user[v]
      /\ u \notin DOMAIN id_to_user => registered(name)[u].followed_by = << >>
      /\ Registers(name) <=> name \notin DOMAIN username_to_id
      /\ Registers(name) => u \notin DOMAIN id_to_user
      /\ ~Registers(name) => u = username_to_id[name] /\ u \in DOMAIN id_to_user
  BY <1>3, RegisterFacts DEF FeedInv, ServerInv, TypeOK
<1>5. /\ Grows
      /\ DOMAIN username_to_id' = DOMAIN username_to_id \cup {name}
      /\ username_to_id'[name] = u
      /\ DOMAIN id_to_user' = DOMAIN id_to_user \cup {u}
      /\ NamesValid'
  BY <1>2, <1>3, RegisterGrows DEF LoginParts
<1>6. NotesKept /\ FeedInv'
  BY <1>1, <1>2, <1>5, LoginNotes DEF LoginParts, FeedInv
<1>7. /\ id_to_user'[u].username = name
      /\ id_to_user'[u].pending_notifications = << >>
      /\ \A v \in DOMAIN id_to_user :
           /\ id_to_user'[v].followed_by = id_to_user[v].followed_by
           /\ v # u => id_to_user'[v].pending_notifications
                         = id_to_user[v].pending_notifications
      /\ u \notin DOMAIN id_to_user => id_to_user'[u].followed_by = << >>
  BY <1>2, <1>4 DEF LoginParts
<1>8. /\ user_connected(u) => session_available(u)
      /\ get_user_id_from_address(a) \in {INVALID_USER_ID, u}
      /\ address_to_user_id' = link_address(u, a)
  BY <1>2 DEF LoginParts
<1>9. /\ a \in DOMAIN address_to_user_id' /\ address_to_user_id'[a] = u
      /\ \A b \in Addresses \ {a} :
           /\ b \in DOMAIN address_to_user_id' <=> b \in DOMAIN address_to_user_id
           /\ b \in DOMAIN address_to_user_id =>
                address_to_user_id'[b] = address_to_user_id[b]
  BY <1>3, <1>8, AddedSession DEF FeedInv, ServerInv, TypeOK
<1>10. MembersMap' = MembersMap \cup {name}
  BY <1>5 DEF MembersMap
<1>11. UNCHANGED FollowsMap
  BY <1>5, <1>6, <1>7, FollowsKept
<1>12. SessionsMap[a] \in {NULL, name}
  <2>1. CASE a \notin DOMAIN address_to_user_id
    BY <2>1 DEF SessionsMap, address_exists
  <2>2. CASE a \in DOMAIN address_to_user_id
    <3>1. /\ address_to_user_id[a] \in UserIds
          /\ address_to_user_id[a] \in DOMAIN id_to_user
      BY <2>2, LinkedUser DEF FeedInv
    <3>2. address_to_user_id[a] = u
      BY <1>8, <2>2, <3>1
      DEF get_user_id_from_address, address_exists, UserIds, INVALID_USER_ID
    <3>3. SessionsMap[a] = name
      BY <1>3, <1>4, <2>2, <3>1, <3>2, SpeaksFor
    <3>4. QED
      BY <3>3
  <2>3. QED
    BY <2>1, <2>2
<1>13. Cardinality(F!addresses_of(name)) < 2
  <2>1. PICK S : S = F!addresses_of(name)
    OBVIOUS
  <2>2. \A x, y \in S : x = y
    <3>1. CASE name \notin DOMAIN username_to_id
      BY <1>3, <2>1, <3>1, AddressesOf
    <3>2. CASE name \in DOMAIN username_to_id
      <4>1. S = get_address_from_user(user_id_to_connection_data, u)
        BY <1>3, <1>4, <2>1, <3>2, AddressesOf
      <4>2. QED
        BY <1>8, <4>1
        DEF get_address_from_user, session_available, user_connected
    <3>3. QED
      BY <3>1, <3>2
  <2>3. QED
    BY <2>1, <2>2, AtMostOne
<1>14. SessionsMap' = [SessionsMap EXCEPT ![a] = name]
  <2>1. SessionsMap'[a] = name
    BY <1>7, <1>9 DEF SessionsMap, address_exists, name_of
  <2>2. \A b \in Addresses \ {a} : SessionsMap'[b] = SessionsMap[b]
    BY <1>5, <1>9, SessionKept DEF FeedInv
  <2>3. QED
    BY <2>1, <2>2, MapShapes, MapShapesNext
<1>15. WaitingMap' = [WaitingMap EXCEPT ![name] = << >>]
  <2>1. WaitingMap'[name] = << >>
    BY <1>3, <1>5, <1>7, WaitingByListNext, PostsOfNothing
  <2>2. ASSUME NEW x \in ValidNames, x # name
        PROVE  WaitingMap'[x] = WaitingMap[x]
    <3>1. x \in DOMAIN username_to_id =>
            /\ username_to_id[x] \in DOMAIN id_to_user
            /\ username_to_id[x] # u
      BY <1>4, <2>2 DEF FeedInv, ServerInv, RegistryConsistent, user_id_exists
    <3>2. x \in DOMAIN username_to_id' => x \in DOMAIN username_to_id
      BY <1>5, <2>2
    <3>3. QED
      BY <1>5, <1>6, <1>7, <3>1, <3>2, WaitKept
  <2>3. QED
    BY <1>3, <2>1, <2>2, MapShapes, MapShapesNext
<1>16. /\ ConnMap(conn)
       /\ SessionsMatch(conn, address_to_user_id')
       /\ u \in DOMAIN conn /\ id \in Nat
  <2>1. PICK conn0 : conn0 = add_session(u, a)
    OBVIOUS
  <2>2. /\ ConnMap(conn0)
        /\ AddrMap(link_address(u, a))
        /\ SessionsMatch(conn0, link_address(u, a))
        /\ u \in DOMAIN conn0
    BY <1>3, <1>8, <2>1, AddSession DEF FeedInv, ServerInv, TypeOK
  <2>3. conn = take_msg_ids(conn0, u, 1) /\ id = conn[u].last_msg_id
    BY <1>2, <2>1 DEF LoginParts
  <2>4. /\ ConnMap(conn)
        /\ DOMAIN conn = DOMAIN conn0
        /\ \A v \in DOMAIN conn0 :
             /\ conn[v].session_one = conn0[v].session_one
             /\ conn[v].session_two = conn0[v].session_two
    BY <2>2, <2>3, TakeMsgIds
  <2>5. SessionsMatch(conn, link_address(u, a))
    BY <2>2, <2>4, SameSessions
  <2>6. id \in Nat
    BY <2>2, <2>3, <2>4 DEF ConnMap, IsMap, UserConnectionData
  <2>7. QED
    BY <1>8, <2>2, <2>4, <2>5, <2>6
<1>17. /\ posts \in Seq(ServerMessageData)
       /\ \A k \in DOMAIN posts : posts[k].msg_type = "ServerSendCommand"
       /\ Contents(posts) = WaitingMap[name]
  BY <1>2, <1>16, LoginPosts
<1>18. ASSUME NEW b \in Addresses
       PROVE  InboxMap'[b] = IF SessionsMap'[b] = name
                               THEN InboxMap[b] \o WaitingMap[name]
                               ELSE InboxMap[b]
  <2>1. PICK hello : hello = Response(id, "LoginSuccess", NULL)
    OBVIOUS
  <2>2. hello \in ServerMessageData /\ hello.msg_type # "ServerSendCommand"
    BY <1>16, <2>1 DEF Response, ServerMessageData, ServerMsgType
  <2>3. PICK queue : queue = to_address(a, hello)
    OBVIOUS
  <2>4. /\ send_queue[b] \in Seq(ServerMessageData)
        /\ queue[b] \in Seq(ServerMessageData)
        /\ Posts(queue[b]) = Posts(send_queue[b])
    <3>1. send_queue \in [Addresses -> Seq(ServerMessageData)]
      BY DEF FeedInv, ServerInv, TypeOK, SendQueueTypeOK
    <3>2. queue[b] = IF b = a THEN Append(send_queue[b], hello)
                              ELSE send_queue[b]
      BY <2>3, <3>1 DEF to_address
    <3>3. QED
      BY <2>2, <3>1, <3>2, AnswerUnseen
  <2>5. PICK msgs : msgs = [v \in DOMAIN conn |-> IF v = u THEN posts ELSE << >>]
    OBVIOUS
  <2>6. send_queue' = to_sessions(queue, conn, msgs)
    BY <1>2, <2>1, <2>3, <2>5 DEF LoginParts
  <2>7. /\ InboxMap'[b] = Posts(send_queue'[b])
        /\ InboxMap[b] = Posts(send_queue[b])
    BY DEF InboxMap, Posts, PostsAt
  <2>8. CASE b \notin DOMAIN address_to_user_id'
    <3>1. send_queue'[b] = queue[b]
      BY <1>16, <2>6, <2>8, ToNobody
    <3>2. SessionsMap'[b] # name
      BY <1>3, <2>8, NullIsNoName DEF SessionsMap, address_exists
    <3>3. QED
      BY <2>4, <2>7, <3>1, <3>2
  <2>9. CASE b \in DOMAIN address_to_user_id'
    <3>1. PICK v : v = address_to_user_id'[b]
      OBVIOUS
    <3>2. v \in DOMAIN conn /\ send_queue'[b] = Then(queue[b], msgs[v])
      BY <1>16, <2>6, <2>9, <3>1, ToSession
    <3>3. SessionsMap'[b] = id_to_user'[v].username
      BY <2>9, <3>1 DEF SessionsMap, address_exists, name_of
    <3>4. CASE v = u
      <4>1. send_queue'[b] = queue[b] \o posts
        BY <2>5, <3>2, <3>4 DEF Then
      <4>2. Posts(queue[b] \o posts) = Posts(queue[b]) \o WaitingMap[name]
        BY <1>17, <2>4, PostsThenPosts
      <4>3. SessionsMap'[b] = name
        BY <1>7, <3>3, <3>4
      <4>4. QED
        BY <2>4, <2>7, <4>1, <4>2, <4>3
    <3>5. CASE v # u
      <4>1. send_queue'[b] = queue[b]
        <5>1. queue[b] \o << >> = queue[b]
          BY <2>4
        <5>2. QED
          BY <2>5, <3>2, <3>5, <5>1 DEF Then
      <4>2. SessionsMap'[b] # name
        <5>1. v \in DOMAIN id_to_user'
          BY <1>5, <1>9, <2>9, <3>1, <3>5, LinkedUser DEF FeedInv
        <5>2. username_to_id'[id_to_user'[v].username] = v
          BY <1>1, <5>1 DEF ServerInv, RegistryConsistent
        <5>3. QED
          BY <1>5, <3>3, <3>5, <5>2
      <4>3. QED
        BY <2>4, <2>7, <4>1, <4>2
    <3>6. QED
      BY <3>4, <3>5
  <2>10. QED
    BY <2>8, <2>9
<1>19. InboxMap' = [b \in Addresses |-> IF SessionsMap'[b] = name
                                          THEN InboxMap[b] \o WaitingMap[name]
                                          ELSE InboxMap[b]]
  BY <1>18, MapShapesNext
<1>20. F!Login(a, name)
  BY <1>10, <1>11, <1>12, <1>13, <1>14, <1>15, <1>19, SameCardinality
  DEF F!Login, F!MaxSessions
<1>21. QED
  BY <1>3, <1>6, <1>20 DEF FeedStep, F!FeedNext

\* Every step of the server keeps the invariant and is a step of Feed.
LEMMA NextFeed == FeedInv /\ [Next]_vars => FeedInv' /\ FeedStep
<1> SUFFICES ASSUME FeedInv, [Next]_vars PROVE FeedInv' /\ FeedStep
  OBVIOUS
<1>1. ASSUME NEW a \in Addresses, NEW name \in Names, handle_login(a, name)
      PROVE  FeedInv' /\ FeedStep
  BY <1>1, LoginInvalidUsernameFeed, RefusedLoginsFeed, LoginSuccessFeed
  DEF handle_login
<1>2. ASSUME NEW a \in Addresses, NEW name \in Names,
             handle_follow_command(a, name)
      PROVE  FeedInv' /\ FeedStep
  BY <1>2, FailedCommandsFeed, FollowSuccessFeed DEF handle_follow_command
<1>3. ASSUME NEW a \in Addresses, NEW text \in Messages,
             handle_send_command(a, text)
      PROVE  FeedInv' /\ FeedStep
  BY <1>3, FailedCommandsFeed, SendSuccessFeed DEF handle_send_command
<1>4. ASSUME NEW a \in Addresses, handle_logout(a)
      PROVE  FeedInv' /\ FeedStep
  BY <1>4, LogoutFeed
<1>5. CASE SendQueueDrain \/ DiskQueueDrain
  BY <1>5, SendQueueDrainFeed, DiskQueueDrainFeed
<1>6. CASE UNCHANGED vars
  <2>1. ServerInv'
    BY <1>6, NextServerInv DEF FeedInv
  <2>2. /\ UNCHANGED <<address_to_user_id, username_to_id, id_to_user,
                       notification_vars>>
        /\ UNCHANGED send_queue
    BY <1>6 DEF vars, connection_vars, user_vars
  <2>3. UNCHANGED InboxMap
    BY <2>2 DEF InboxMap, Posts, PostsAt
  <2>4. QED
    BY <2>1, <2>2, <2>3, Quiet
<1>7. QED
  BY <1>1, <1>2, <1>3, <1>4, <1>5, <1>6 DEF Next, handle_incoming_datagram

\* At the start nobody is registered and nothing is under way.
LEMMA InitFeed == Init => F!FeedInit
<1> SUFFICES ASSUME Init PROVE F!FeedInit
  OBVIOUS
<1> USE DEF Init, ConnectionInit, UserInit, NotificationInit, EmptyMap
<1>1. MembersMap = {}
  BY DEF MembersMap
<1>2. FollowsMap = {}
  BY DEF FollowsMap
<1>3. SessionsMap = [a \in Addresses |-> NULL]
  BY DEF SessionsMap, address_exists
<1>4. WaitingMap = [u \in ValidNames |-> << >>]
  BY DEF WaitingMap
<1>5. InboxMap = [a \in Addresses |-> << >>]
  BY PostsOfNone DEF InboxMap
<1>6. QED
  BY <1>1, <1>2, <1>3, <1>4, <1>5 DEF F!FeedInit

(***************************************************************************)
(* The server implements Feed: every message reaches every user that       *)
(* followed its author when it was sent, once and in order, at once if the *)
(* user is logged in and otherwise with its next login, whatever the ids,  *)
(* reference counts and stored notifications do in between.                *)
(***************************************************************************)
THEOREM ServerImplementsFeed == Spec => ImplementsFeed
<1>1. FeedInv /\ [Next]_vars => FeedInv' /\ [F!FeedNext]_(F!feed_vars)
  BY NextFeed DEF FeedStep
<1>2. QED
  BY <1>1, InitFeedInv, InitFeed, PTL DEF Spec, ImplementsFeed, F!FeedSpec
=============================================================================
