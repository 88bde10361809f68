--------------------------- MODULE RilEventSteps ----------------------------
(***************************************************************************)
(* The inductive invariant IInv of RilEvent, facts about the operators the *)
(* model is built from, and the parts of the invariance that are about the *)
(* data: every step keeps the types, the table of watched descriptors      *)
(* covered, the lists intact and the timers ordered.                       *)
(*                                                                         *)
(* The heart of IInv is OneListener: s_listen_event and s_commands_event   *)
(* hand a single "turn" to each other, and each is added only by the       *)
(* holder of the turn, so that no event is added twice or deleted when it  *)
(* is not there.                                                           *)
(***************************************************************************)
EXTENDS RilEvent, FiniteSetTheorems, TLAPS

-----------------------------------------------------------------------------
(* The inductive invariant. *)

Pending(x) == x \in Range(pending_list)

\* The descriptors of the events: fixed for three of them, accept()'s for the fourth.
Descriptors ==
    /\ fd["wakeup"] = 1 /\ fd["listen"] = 2 /\ fd["debug"] = 3
    /\ fd["commands"] \in CommandFd \cup {0}
    /\ index["commands"] # 0 \/ at = "accepted" => fd["commands"] \in CommandFd

\* Where the loop is, against what runs, what is pending and what was added.
Position ==
    /\ at # "crashed" => (running = None <=> at \in {"pipe", "copy", "select", "collect", "fire", "dead"})
    /\ at \in {"clear", "free"} => running \in Info
    /\ at = "accepted" => running = "listen"
    /\ at = "relisten" => running = "commands"
    /\ at \in {"pipe", "copy", "select", "collect", "dead"} => pending_list = <<>>
    /\ at # "crashed" => (at = "pipe" <=> index["wakeup"] = 0)
    /\ task[Loop] # Idle => at = "tail"

\* Which calls the threads can be in.
Tasks ==
    /\ task[Main].pc \in {"addListen", "addDebug", "idle"}
    /\ \A t \in Thread \ {Main} : task[t].pc \notin {"addListen", "addDebug"}
    /\ \A t \in Thread : task[t].pc \in {"cancel", "store"} => task[t].info \in Info
    /\ task[Main].pc \in {"addListen", "addDebug"} => index["debug"] = 0

\* The turn of the two sockets is in one place: RIL_register() has not added the listen
\* event; it is watched, pending or runs; a client was accepted, is watched, or has left.
OneListener ==
    /\ task[Main].pc = "addListen" =>
          /\ index["listen"] = 0 /\ ~Pending("listen") /\ ~Runs("listen")
          /\ at \notin {"accepted", "relisten"} /\ index["commands"] = 0
    /\ index["listen"] # 0 =>
          /\ ~Pending("listen") /\ ~Runs("listen")
          /\ at \notin {"accepted", "relisten"} /\ index["commands"] = 0
    /\ Pending("listen") =>
          ~Runs("listen") /\ at \notin {"accepted", "relisten"} /\ index["commands"] = 0
    /\ Runs("listen") \/ at \in {"accepted", "relisten"} => index["commands"] = 0

\* RIL_register() has not added the listen event yet, or a client can still connect, or
\* one is connected or is being served, unless the process crashed.
ListenerKept ==
    \/ task[Main].pc = "addListen"
    \/ index["listen"] # 0 \/ Pending("listen") \/ Runs("listen")
    \/ at \in {"accepted", "relisten", "crashed"} \/ index["commands"] # 0

\* A persistent event that is pending, or whose callback begins, is still watched.
StillWatched == \A e \in Event \ OneShot : Pending(e) \/ Runs(e) => index[e] # 0

\* The watched command socket is the current one, unless it was closed.
CommandsCurrent ==
    (index["commands"] # 0 \/ at = "accepted") /\ ~broken => fd["commands"] = s_fdCommand

\* The timers: sorted, timed while they are allocated, and at the front of the pending
\* list when their time is over.
TimersOrdered ==
    /\ \A j, k \in 1..Len(timer_list) : j < k => left[timer_list[j]] <= left[timer_list[k]]
    /\ \A i \in Info : kind[i] # None => left[i] # None
    /\ \A i \in Info : Pending(i) => left[i] = -1
    /\ \E n \in 0..Len(pending_list) : TimersFirst(pending_list, n)

IInv ==
    /\ TypeOK /\ Covered /\ ListsIntact /\ CommandsFdCurrent /\ ~listMutex
    /\ Descriptors /\ Position /\ Tasks /\ OneListener /\ ListenerKept /\ StillWatched
    /\ CommandsCurrent /\ TimersOrdered

-----------------------------------------------------------------------------
(* Facts about the operators. *)

\* Lists, as the prover knows them.
LEMMA EqualLists ==
    ASSUME NEW S, NEW q \in Seq(S), NEW r \in Seq(S), Len(q) = Len(r), \A i \in 1..Len(q) : q[i] = r[i]
    PROVE  q = r
  OBVIOUS

\* A list over a set is one over a larger set.
LEMMA WiderList ==
    ASSUME NEW S, NEW T, NEW q \in Seq(S), S \subseteq T
    PROVE  q \in Seq(T)
  OBVIOUS

\* The list two lists make, joined.
LEMMA JoinedLists ==
    ASSUME NEW S, NEW q \in Seq(S), NEW r \in Seq(S)
    PROVE  /\ q \o r \in Seq(S) /\ Len(q \o r) = Len(q) + Len(r)
           /\ \A i \in 1..(Len(q) + Len(r)) : (q \o r)[i] = IF i <= Len(q) THEN q[i] ELSE r[i - Len(q)]
  OBVIOUS

\* The empty list adds nothing.
LEMMA JoinedWithNothing ==
    ASSUME NEW S, NEW q \in Seq(S)
    PROVE  q \o <<>> = q /\ <<>> \o q = q
  OBVIOUS

\* A part of a list, element by element.
LEMMA PartOfList ==
    ASSUME NEW S, NEW q, NEW m \in Int, NEW n \in Int, \A i \in m..n : q[i] \in S
    PROVE  /\ SubSeq(q, m, n) \in Seq(S) /\ Len(SubSeq(q, m, n)) = IF m <= n THEN n - m + 1 ELSE 0
           /\ \A i \in 1..(n - m + 1) : SubSeq(q, m, n)[i] = q[m + i - 1]
  OBVIOUS

\* A list is the part of it from its first element to its last.
LEMMA WholeList ==
    ASSUME NEW S, NEW q \in Seq(S)
    PROVE  SubSeq(q, 1, Len(q)) = q
  OBVIOUS

\* What remains of a list without its head.
LEMMA RestOfList ==
    ASSUME NEW S, NEW q \in Seq(S), q # <<>>
    PROVE  /\ Head(q) \in S /\ Tail(q) \in Seq(S) /\ Len(Tail(q)) = Len(q) - 1
           /\ \A i \in 1..Len(Tail(q)) : Tail(q)[i] = q[i + 1]
  OBVIOUS

\* Two parts that meet make one part.
LEMMA AdjacentParts ==
    ASSUME NEW S, NEW q \in Seq(S), NEW m \in 1..(Len(q) + 1), NEW k \in (m - 1)..Len(q), NEW n \in k..Len(q)
    PROVE  SubSeq(q, m, k) \o SubSeq(q, k + 1, n) = SubSeq(q, m, n)
  OBVIOUS

\* The elements of a list over a set are in that set.
LEMMA RangeOfList ==
    ASSUME NEW S, NEW q \in Seq(S)
    PROVE  Range(q) \in SUBSET S
  BY DEF Range

\* The elements of a sequence.
LEMMA RangeIs == \A S : \A s \in Seq(S) : Range(s) = {s[j] : j \in 1..Len(s)}
  BY DEF Range

\* The elements of two lists joined are those of the two.
LEMMA RangeOfJoined ==
    ASSUME NEW S, NEW q \in Seq(S), NEW r \in Seq(S)
    PROVE  Range(q \o r) = Range(q) \cup Range(r)
<1>0. Range(q) = {q[j] : j \in 1..Len(q)} /\ Range(r) = {r[j] : j \in 1..Len(r)}
  BY RangeIs, Zenon
<1>1. \A x \in Range(q \o r) : x \in Range(q) \/ x \in Range(r)
  BY DEF Range
<1>2. \A x \in Range(q) : x \in Range(q \o r)
  <2> SUFFICES ASSUME NEW i \in 1..Len(q) PROVE q[i] \in Range(q \o r)
    BY <1>0, Zenon
  <2>1. (q \o r)[i] = q[i] /\ i \in 1..(Len(q) + Len(r)) /\ DOMAIN (q \o r) = 1..(Len(q) + Len(r))
    OBVIOUS
  <2> QED
    BY <2>1, Zenon DEF Range
<1>3. \A x \in Range(r) : x \in Range(q \o r)
  <2> SUFFICES ASSUME NEW i \in 1..Len(r) PROVE r[i] \in Range(q \o r)
    BY <1>0, Zenon
  <2>1. /\ (q \o r)[Len(q) + i] = r[i] /\ Len(q) + i \in 1..(Len(q) + Len(r))
        /\ DOMAIN (q \o r) = 1..(Len(q) + Len(r))
    OBVIOUS
  <2> QED
    BY <2>1, Zenon DEF Range
<1> QED
  BY <1>1, <1>2, <1>3, Zenon

\* A nonempty set of natural numbers has a least element.
LEMMA LeastNat ==
    ASSUME NEW T, T \subseteq Nat, T # {}
    PROVE  \E n \in T : \A m \in T : n <= m
<1> DEFINE R == OpToRel(<, Nat)
<1>1. IsWellFoundedOn(R, Nat)
  BY NatLessThanWellFounded, Zenon
<1>2. \A x, y \in Nat : x < y => <<x, y>> \in R
  BY DEF OpToRel
<1> HIDE DEF R
<1>3. PICK x \in T : \A y \in T : <<y, x>> \notin R
  BY <1>1, WFMin, Zenon
<1>4. \A y \in T : x <= y
  <2> TAKE y \in T
  <2>1. ~(y < x)
    BY <1>2, <1>3, Zenon
  <2> QED
    BY <2>1
<1> QED
  BY <1>4

\* The table has a slot for each event.
LEMMA FourSlots == MaxFdEvents \in Nat /\ MaxFdEvents >= 4
<1>1. IsFiniteSet({}) /\ Cardinality({}) = 0
  BY FS_EmptySet
<1>2. IsFiniteSet({"wakeup"}) /\ Cardinality({"wakeup"}) = 1
  BY FS_Singleton, Zenon
<1> DEFINE two == {"wakeup"} \cup {"listen"}
           three == two \cup {"debug"}
<1>3. IsFiniteSet(two) /\ Cardinality(two) = 2
  <2>1. "listen" \notin {"wakeup"}
    OBVIOUS
  <2>2. IsFiniteSet(two) /\ Cardinality(two) = Cardinality({"wakeup"}) + 1
    BY <1>2, <2>1, FS_AddElement, Zenon
  <2> QED
    BY <1>2, <2>2
<1>4. IsFiniteSet(three) /\ Cardinality(three) = 3
  <2>1. "debug" \notin two
    OBVIOUS
  <2>2. IsFiniteSet(three) /\ Cardinality(three) = Cardinality(two) + 1
    BY <1>3, <2>1, FS_AddElement, Zenon
  <2> QED
    BY <1>3, <2>2
<1>5. Cardinality(three \cup {"commands"}) = 4
  <2>1. "commands" \notin three
    OBVIOUS
  <2>2. Cardinality(three \cup {"commands"}) = Cardinality(three) + 1
    BY <1>4, <2>1, FS_AddElement, Zenon
  <2> QED
    BY <1>4, <2>2
<1>6. Event = three \cup {"commands"}
  BY DEF Event
<1> QED
  BY <1>5, <1>6, EventAssumption

\* FirstFree is a free slot of the table.
LEMMA FirstFreeSlot == FreeSlots # {} => FirstFree \in FreeSlots
<1> SUFFICES ASSUME FreeSlots # {} PROVE FirstFree \in FreeSlots
  OBVIOUS
<1>1. FreeSlots \subseteq Nat
  BY FourSlots DEF FreeSlots, Slot
<1>2. \E s \in FreeSlots : \A r \in FreeSlots : s <= r
  BY <1>1, LeastNat, Zenon
<1> QED
  BY <1>2 DEF FirstFree

\* Highest is an upper bound of a bounded set of descriptors.
LEMMA HighestBounds ==
    ASSUME NEW S, NEW b \in Nat, S \subseteq Nat, \A m \in S : m < b
    PROVE  Highest(S) \in Nat /\ \A m \in S : m <= Highest(S)
<1>1. CASE S = {}
  BY <1>1 DEF Highest
<1>2. CASE S # {}
  <2> DEFINE U == {n \in Nat : \A m \in S : m <= n}
  <2>1. U \subseteq Nat /\ b \in U
    OBVIOUS
  <2>2. PICK n \in U : \A m \in U : n <= m
    BY <2>1, LeastNat, Zenon
  <2>3. n \in S
    <3> SUFFICES ASSUME n \notin S PROVE FALSE
      OBVIOUS
    <3>1. \A m \in S : m \in Nat /\ m < n
      BY <2>2
    <3>2. PICK m \in S : TRUE
      BY <1>2, Zenon
    <3>3. n - 1 \in Nat /\ \A k \in S : k <= n - 1
      BY <3>1, <3>2
    <3>4. n - 1 \in U
      BY <3>3
    <3> QED
      BY <2>2, <3>4
  <2>4. \E k \in S : \A m \in S : m <= k
    BY <2>2, <2>3
  <2>5. Highest(S) = CHOOSE k \in S : \A m \in S : m <= k
    BY <1>2, Zenon DEF Highest
  <2> HIDE DEF U
  <2> QED
    BY <2>4, <2>5, Zenon
<1> QED
  BY <1>1, <1>2

-----------------------------------------------------------------------------
(* The table. *)

\* An event that has an index is in the table, at that index only.
LEMMA WatchedIndex ==
    ASSUME TypeOK, Covered, NEW e \in Event
    PROVE  /\ e \in Watched(watch_table) <=> index[e] # 0
           /\ \A s \in Slot : watch_table[s] = e <=> index[e] = s
<1>1. \A s \in Slot : watch_table[s] = e <=> s \in {index[e]} \ {0}
  BY DEF Covered
<1>2. 0 \notin Slot /\ index[e] \in {0} \cup Slot /\ e # None
  BY EventAssumption DEF TypeOK, Slot
<1>3. \A s \in Slot : watch_table[s] = e <=> index[e] = s
  BY <1>1, <1>2
<1> QED
  BY <1>2, <1>3 DEF Watched

\* The watched events are events.
LEMMA WatchedEvents == TypeOK => Watched(watch_table) \subseteq Event
  BY DEF TypeOK, Watched

\* ril_event_add() of an event that is not watched finds a free slot, and keeps what
\* select() is given covered.
LEMMA AddStep ==
    ASSUME TypeOK, Covered, NEW e \in Event, index[e] = 0, fd[e] \in CommandFd \cup 1..3,
           RilEventAdd(e)
    PROVE  /\ Covered' /\ UNCHANGED <<fd, listMutex>>
           /\ \E s \in Slot : s # 0 /\ index' = [index EXCEPT ![e] = s]
           /\ watch_table' \in [Slot -> Event \cup {None}]
           /\ readFds' \subseteq CommandFd \cup 1..3 /\ nfds' \in Nat
           /\ Watched(watch_table') = Watched(watch_table) \cup {e}
<1>1. FreeSlots # {}
  <2> SUFFICES ASSUME FreeSlots = {} PROVE FALSE
    OBVIOUS
  <2>1. \A s \in Slot : watch_table[s] \in Event
    BY DEF FreeSlots, TypeOK
  <2>2. 1 \in Slot /\ 2 \in Slot /\ 3 \in Slot /\ 4 \in Slot
    BY FourSlots DEF Slot
  <2>3. \A s \in Slot : index[watch_table[s]] = s
    BY <2>1, WatchedIndex
  <2>4. \A s \in Slot : watch_table[s] # e
    BY <2>3, FourSlots DEF Slot
  <2> DEFINE a == watch_table[1]
             b == watch_table[2]
             c == watch_table[3]
             d == watch_table[4]
  <2>5. index[a] = 1 /\ index[b] = 2 /\ index[c] = 3 /\ index[d] = 4
    BY <2>2, <2>3
  <2>6. a # b /\ a # c /\ a # d /\ b # c /\ b # d /\ c # d
    BY <2>5
  <2>7. a \in Event \ {e} /\ b \in Event \ {e} /\ c \in Event \ {e} /\ d \in Event \ {e}
    BY <2>1, <2>2, <2>4
  <2> HIDE DEF a, b, c, d
  <2> QED
    BY <2>6, <2>7 DEF Event
<1> DEFINE n == FirstFree
<1>2. n \in Slot /\ watch_table[n] = None
  BY <1>1, FirstFreeSlot DEF FreeSlots
<1>3. /\ watch_table' = [watch_table EXCEPT ![n] = e]
      /\ index' = [index EXCEPT ![e] = n]
      /\ readFds' = readFds \cup {fd[e]}
      /\ nfds' = IF fd[e] >= nfds THEN fd[e] + 1 ELSE nfds
      /\ UNCHANGED <<fd, listMutex>>
  BY <1>1 DEF RilEventAdd
<1> HIDE DEF n
<1>4. n # 0 /\ fd[e] \in Nat
  <2>1. n # 0
    BY <1>2, FourSlots DEF Slot
  <2>2. CommandFd \subseteq Nat
    BY EventAssumption
  <2>3. fd[e] \in CommandFd \/ fd[e] \in 1..3
    BY Zenon
  <2>4. \A f \in 1..3 : f \in Nat
    OBVIOUS
  <2>5. fd[e] \in Nat
    BY <2>2, <2>3, <2>4, Zenon
  <2> QED
    BY <2>1, <2>5, Zenon
<1>5. watch_table' \in [Slot -> Event \cup {None}]
  BY <1>2, <1>3 DEF TypeOK
<1>6. Watched(watch_table') = Watched(watch_table) \cup {e}
  BY <1>2, <1>3, EventAssumption, SMTT(30) DEF TypeOK, Watched
<1>7. Covered'
  <2>1. readFds' = {fd'[x] : x \in Watched(watch_table')}
    BY <1>3, <1>6, Zenon DEF Covered
  <2>2. \A f \in readFds' : f < nfds'
    <3> TAKE f \in readFds'
    <3>1. readFds \subseteq Nat /\ nfds \in Nat
      BY EventAssumption DEF TypeOK
    <3>2. f \in readFds \/ f = fd[e]
      BY <1>3, Zenon
    <3>3. f \in readFds => f \in Nat /\ f < nfds
      BY <3>1, Zenon DEF Covered
    <3> QED
      BY <1>3, <1>4, <3>1, <3>2, <3>3
  <2>3. ASSUME NEW x \in Event
        PROVE  {s \in Slot : watch_table'[s] = x} = {index'[x]} \ {0}
    <3>1. CASE x = e
      <4>1. \A s \in Slot : watch_table[s] # e
        BY WatchedIndex, FourSlots DEF Slot
      <4> QED
        BY <1>2, <1>3, <1>4, <3>1, <4>1 DEF TypeOK
    <3>2. CASE x # e
      <4>1. x # None
        BY EventAssumption
      <4>2. \A s \in Slot : watch_table'[s] = x <=> watch_table[s] = x
        BY <1>2, <1>3, <3>2, <4>1 DEF TypeOK
      <4>3. index'[x] = index[x]
        BY <1>3, <3>2 DEF TypeOK
      <4> QED
        BY <4>2, <4>3 DEF Covered
    <3> QED
      BY <3>1, <3>2
  <2> QED
    BY <2>1, <2>2, <2>3 DEF Covered
<1>8. readFds' \subseteq CommandFd \cup 1..3 /\ nfds' \in Nat
  BY <1>3, <1>4 DEF TypeOK
<1>9. \E s \in Slot : s # 0 /\ index' = [index EXCEPT ![e] = s]
  BY <1>2, <1>3, <1>4, Zenon
<1> QED
  BY <1>3, <1>5, <1>6, <1>7, <1>8, <1>9, Zenon

\* No two events have the same descriptor.
LEMMA DistinctFds ==
    ASSUME Descriptors
    PROVE  \A x, y \in Event : fd[x] = fd[y] => x = y
<1>1. fd["commands"] \notin {1, 2, 3}
  BY EventAssumption DEF Descriptors
<1> QED
  BY <1>1 DEF Descriptors, Event

\* removeWatch() of watched events keeps what select() is given covered.
LEMMA RemoveStep ==
    ASSUME TypeOK, Covered, Descriptors, NEW R, R \subseteq Event, RemoveWatch(R)
    PROVE  /\ Covered' /\ UNCHANGED fd
           /\ index' = [e \in Event |-> IF e \in R THEN 0 ELSE index[e]]
           /\ watch_table' \in [Slot -> Event \cup {None}]
           /\ index' \in [Event -> {0} \cup Slot]
           /\ readFds' \subseteq CommandFd \cup 1..3 /\ nfds' \in Nat
           /\ Watched(watch_table') = Watched(watch_table) \ R
<1> DEFINE left_over == {fd[e] : e \in Watched(watch_table')}
<1>1. /\ watch_table' = [s \in Slot |-> IF watch_table[s] \in R THEN None ELSE watch_table[s]]
      /\ index' = [e \in Event |-> IF e \in R THEN 0 ELSE index[e]]
      /\ readFds' = readFds \ {fd[e] : e \in R}
      /\ nfds' = IF \E e \in R : fd[e] + 1 = nfds THEN Highest(left_over) + 1 ELSE nfds
      /\ fd' = fd
  BY DEF RemoveWatch
<1>2. None \notin R
  BY EventAssumption
<1>3. Watched(watch_table') = Watched(watch_table) \ R
  BY <1>1, <1>2 DEF Watched
<1>4. watch_table' \in [Slot -> Event \cup {None}] /\ index' \in [Event -> {0} \cup Slot]
  BY <1>1 DEF TypeOK
<1>5. readFds' = left_over
  <2>1. readFds = {fd[e] : e \in Watched(watch_table)}
    BY DEF Covered
  <2>2. \A x \in Watched(watch_table), y \in R : fd[x] = fd[y] => x = y
    BY DistinctFds, WatchedEvents
  <2> QED
    BY <1>1, <1>3, <2>1, <2>2
<1>6. readFds' \subseteq readFds /\ readFds \subseteq CommandFd \cup 1..3 /\ readFds \subseteq Nat
  BY <1>1, EventAssumption DEF TypeOK
<1>7. nfds \in Nat /\ \A f \in readFds : f < nfds
  BY DEF TypeOK, Covered
<1>8. Highest(left_over) \in Nat /\ \A f \in left_over : f <= Highest(left_over)
  <2>1. left_over \subseteq Nat /\ \A f \in left_over : f < nfds
    BY <1>5, <1>6, <1>7, Zenon
  <2> HIDE DEF left_over
  <2> QED
    BY <1>7, <2>1, HighestBounds, Zenon
<1>9. nfds' \in Nat /\ \A f \in readFds' : f < nfds'
  <2> HIDE DEF left_over
  <2>1. CASE \E e \in R : fd[e] + 1 = nfds
    <3>1. nfds' = Highest(left_over) + 1
      BY <1>1, <2>1
    <3> QED
      BY <1>5, <1>6, <1>8, <3>1
  <2>2. CASE ~\E e \in R : fd[e] + 1 = nfds
    BY <1>1, <1>6, <1>7, <2>2
  <2> QED
    BY <2>1, <2>2
<1>10. ASSUME NEW x \in Event
       PROVE  {s \in Slot : watch_table'[s] = x} = {index'[x]} \ {0}
  <2>1. CASE x \in R
    <3>1. \A s \in Slot : watch_table'[s] # x
      BY <1>1, <2>1, EventAssumption
    <3> QED
      BY <1>1, <2>1, <3>1
  <2>2. CASE x \notin R
    <3>1. \A s \in Slot : watch_table'[s] = x <=> watch_table[s] = x
      BY <1>1, <2>2, EventAssumption
    <3>2. index'[x] = index[x]
      BY <1>1, <2>2
    <3> QED
      BY <3>1, <3>2 DEF Covered
  <2> QED
    BY <2>1, <2>2
<1>11. Covered'
  <2>1. readFds' = {fd'[e] : e \in Watched(watch_table')}
    BY <1>1, <1>5, Zenon
  <2> QED
    BY <1>9, <1>10, <2>1 DEF Covered
<1> QED
  BY <1>1, <1>3, <1>4, <1>6, <1>9, <1>11, Zenon

-----------------------------------------------------------------------------
(* What a step leaves alone. *)

\* The conjuncts of IInv that are about where the loop, the threads and the events are.
Control ==
    /\ CommandsFdCurrent /\ ~listMutex /\ Descriptors /\ Position /\ Tasks
    /\ OneListener /\ ListenerKept /\ StillWatched /\ CommandsCurrent

\* The table stays covered while it does not change.
LEMMA CoveredKept == Covered /\ UNCHANGED table => Covered'
  BY DEF Covered, Watched, table

\* The lists stay intact while they do not change, unless a client is accepted.
LEMMA ListsKept ==
    ASSUME ListsIntact, UNCHANGED <<pending_list, timer_list, kind>>,
           running' \in {running, None},
           at' = "accepted" => at = "accepted" /\ UNCHANGED watch_table
    PROVE  ListsIntact'
  BY EventAssumption DEF ListsIntact, Watched

\* The timers stay ordered while they do not change.
LEMMA TimersKept ==
    TimersOrdered /\ UNCHANGED <<pending_list, timer_list, left, kind>> => TimersOrdered'
  BY DEF TimersOrdered, Pending, TimersFirst

-----------------------------------------------------------------------------
(* The table under every step. *)

\* Every event is added only while it is not watched, and has its descriptor then.
LEMMA AddedUnwatched ==
    ASSUME IInv
    PROVE  /\ at = "pipe" => index["wakeup"] = 0
           /\ Runs("listen") \/ at = "relisten" \/ task[Main].pc = "addListen" => index["listen"] = 0
           /\ at = "accepted" => index["commands"] = 0 /\ fd["commands"] \in CommandFd
           /\ task[Main].pc = "addDebug" => index["debug"] = 0
           /\ fd["wakeup"] \in 1..3 /\ fd["listen"] \in 1..3 /\ fd["debug"] \in 1..3
  BY DEF IInv, Descriptors, Position, Tasks, OneListener, Runs

\* What an action that adds e does to the table.
Added(e) ==
    /\ Covered' /\ UNCHANGED <<fd, listMutex>>
    /\ \E s \in Slot : s # 0 /\ index' = [index EXCEPT ![e] = s]
    /\ watch_table' \in [Slot -> Event \cup {None}]
    /\ readFds' \subseteq CommandFd \cup 1..3 /\ nfds' \in Nat
    /\ Watched(watch_table') = Watched(watch_table) \cup {e}

\* What an action that removes R does to the table.
Removed(R) ==
    /\ Covered' /\ UNCHANGED <<fd, listMutex>>
    /\ index' = [e \in Event |-> IF e \in R THEN 0 ELSE index[e]]
    /\ watch_table' \in [Slot -> Event \cup {None}]
    /\ index' \in [Event -> {0} \cup Slot]
    /\ readFds' \subseteq CommandFd \cup 1..3 /\ nfds' \in Nat
    /\ Watched(watch_table') = Watched(watch_table) \ R

\* The actions that add an event do add it.
LEMMA Adding ==
    ASSUME IInv
    PROVE  /\ CreatePipe => Added("wakeup")
           /\ ListenCallbackRefuses \/ Relisten \/ RegisterAdd("listen", "addListen", "addDebug")
                 => Added("listen")
           /\ RegisterAdd("debug", "addDebug", "idle") => Added("debug")
           /\ WatchCommands => Added("commands")
<1>1. ASSUME NEW e \in Event, index[e] = 0, fd[e] \in CommandFd \cup 1..3, RilEventAdd(e)
      PROVE  Added(e)
  BY <1>1, AddStep DEF IInv, Added
<1>2. CreatePipe => Added("wakeup")
  BY <1>1, AddedUnwatched DEF CreatePipe, Event
<1>3. ListenCallbackRefuses => Added("listen")
  BY <1>1, AddedUnwatched DEF ListenCallbackRefuses, Event
<1>4. Relisten => Added("listen")
  BY <1>1, AddedUnwatched DEF Relisten, Event
<1>5. RegisterAdd("listen", "addListen", "addDebug") => Added("listen")
  BY <1>1, AddedUnwatched DEF RegisterAdd, Event
<1>6. RegisterAdd("debug", "addDebug", "idle") => Added("debug")
  BY <1>1, AddedUnwatched DEF RegisterAdd, Event
<1>7. WatchCommands => Added("commands")
  BY <1>1, AddedUnwatched DEF WatchCommands, Event
<1> QED
  BY <1>2, <1>3, <1>4, <1>5, <1>6, <1>7

\* The actions that remove events; ril_event_del() is only called for a watched event,
\* and so returns with the mutex released.
LEMMA Removing ==
    ASSUME IInv
    PROVE  /\ CommandsClosed => Removed({"commands"})
           /\ Collect => Removed(OneShot \cap Readies)
<1>1. ASSUME NEW R, R \subseteq Event, RemoveWatch(R), UNCHANGED listMutex PROVE Removed(R)
  BY <1>1, RemoveStep DEF IInv, Removed
<1>2. CommandsClosed => Removed({"commands"})
  <2>1. CommandsClosed => index["commands"] # 0
    BY DEF CommandsClosed, IInv, StillWatched, Event, OneShot
  <2>2. CommandsClosed => RemoveWatch({"commands"}) /\ UNCHANGED listMutex
    BY <2>1 DEF CommandsClosed, RilEventDel
  <2> QED
    BY <1>1, <2>2 DEF Event
<1>3. Collect => Removed(OneShot \cap Readies)
  BY <1>1 DEF Collect, ProcessReadReadies, OneShot, Event
<1> QED
  BY <1>2, <1>3

\* ril_event_set() of the command socket's event does not touch the table.
LEMMA CoveredAccept ==
    ASSUME IInv, NEW f \in CommandFd, ListenCallbackAccepts(f)
    PROVE  Covered'
<1>1. index["commands"] = 0
  BY DEF IInv, OneListener, ListenCallbackAccepts
<1>2. index' = index /\ \A e \in Event \ {"commands"} : fd'[e] = fd[e]
  BY <1>1 DEF ListenCallbackAccepts, IInv, TypeOK
<1>3. "commands" \notin Watched(watch_table)
  BY <1>1, WatchedIndex DEF IInv, Event
<1>4. UNCHANGED <<watch_table, readFds, nfds>>
  BY DEF ListenCallbackAccepts
<1>5. Watched(watch_table) \subseteq Event \ {"commands"}
  BY <1>3, WatchedEvents DEF IInv
<1>6. readFds' = {fd'[e] : e \in Watched(watch_table')}
  BY <1>2, <1>4, <1>5 DEF IInv, Covered
<1> QED
  BY <1>2, <1>4, <1>6 DEF IInv, Covered

-----------------------------------------------------------------------------
(* Facts about sequences. *)

Distinct(s) == \A j, k \in 1..Len(s) : s[j] = s[k] => j = k
Apart(s, t) == \A j \in 1..Len(s), k \in 1..Len(t) : s[j] # t[k]
Insert(s, k, x) == SubSeq(s, 1, k - 1) \o <<x>> \o SubSeq(s, k, Len(s))

\* A sequence cut after its first n elements.
LEMMA CutSeq ==
    ASSUME NEW S, NEW s \in Seq(S), NEW n \in 0..Len(s)
    PROVE  /\ SubSeq(s, 1, n) \in Seq(S) /\ SubSeq(s, n + 1, Len(s)) \in Seq(S)
           /\ Len(SubSeq(s, 1, n)) = n /\ Len(SubSeq(s, n + 1, Len(s))) = Len(s) - n
           /\ \A j \in 1..n : SubSeq(s, 1, n)[j] = s[j]
           /\ \A j \in 1..(Len(s) - n) : SubSeq(s, n + 1, Len(s))[j] = s[n + j]
           /\ SubSeq(s, 1, n) \o SubSeq(s, n + 1, Len(s)) = s
<1>1. Len(s) \in Nat /\ \A j \in 1..Len(s) : s[j] \in S
  OBVIOUS
<1>2. \A j \in 1..n : s[j] \in S
  BY <1>1
<1>3. /\ SubSeq(s, 1, n) \in Seq(S) /\ Len(SubSeq(s, 1, n)) = n
      /\ \A j \in 1..n : SubSeq(s, 1, n)[j] = s[j]
  BY <1>1, <1>2, PartOfList
<1>4. \A j \in (n + 1)..Len(s) : s[j] \in S
  BY <1>1
<1>5. /\ SubSeq(s, n + 1, Len(s)) \in Seq(S) /\ Len(SubSeq(s, n + 1, Len(s))) = Len(s) - n
      /\ \A j \in 1..(Len(s) - n) : SubSeq(s, n + 1, Len(s))[j] = s[n + j]
  <2>1. n + 1 \in Int /\ Len(s) \in Int /\ Len(s) - (n + 1) + 1 = Len(s) - n
    BY <1>1
  <2>2. /\ SubSeq(s, n + 1, Len(s)) \in Seq(S)
        /\ Len(SubSeq(s, n + 1, Len(s))) = IF n + 1 <= Len(s) THEN Len(s) - (n + 1) + 1 ELSE 0
        /\ \A j \in 1..(Len(s) - (n + 1) + 1) : SubSeq(s, n + 1, Len(s))[j] = s[n + 1 + j - 1]
    BY <1>4, <2>1, PartOfList
  <2>3. Len(SubSeq(s, n + 1, Len(s))) = Len(s) - n
    BY <1>1, <2>2
  <2>4. ASSUME NEW j \in 1..(Len(s) - n) PROVE SubSeq(s, n + 1, Len(s))[j] = s[n + j]
    <3>1. n + 1 + j - 1 = n + j
      BY <1>1
    <3> QED
      BY <2>1, <2>2, <3>1
  <2> QED
    BY <2>2, <2>3, <2>4
<1>6. SubSeq(s, 1, n) \o SubSeq(s, n + 1, Len(s)) = s
  <2>1. SubSeq(s, 1, n) \o SubSeq(s, n + 1, Len(s)) = SubSeq(s, 1, Len(s))
    <3>1. 1 \in 1..(Len(s) + 1) /\ n \in (1 - 1)..Len(s) /\ Len(s) \in n..Len(s)
      BY <1>1
    <3> QED
      BY <3>1, AdjacentParts, Zenon
  <2> QED
    BY <2>1, WholeList, Zenon
<1> QED
  BY <1>3, <1>5, <1>6, Zenon

\* A sequence with x inserted at place k.
LEMMA InsertSeq ==
    ASSUME NEW S, NEW s \in Seq(S), NEW x \in S, NEW k \in 1..(Len(s) + 1)
    PROVE  /\ Insert(s, k, x) \in Seq(S) /\ Len(Insert(s, k, x)) = Len(s) + 1
           /\ \A j \in 1..(Len(s) + 1) :
                 Insert(s, k, x)[j] = IF j < k THEN s[j] ELSE IF j = k THEN x ELSE s[j - 1]
           /\ Range(Insert(s, k, x)) = Range(s) \cup {x}
<1> DEFINE a == SubSeq(s, 1, k - 1)
           b == SubSeq(s, k, Len(s))
           c == a \o <<x>>
<1>1. k - 1 \in 0..Len(s) /\ (k - 1) + 1 = k /\ Len(s) \in Nat /\ k \in Nat
  OBVIOUS
<1>2. /\ a \in Seq(S) /\ b \in Seq(S) /\ Len(a) = k - 1 /\ Len(b) = Len(s) - (k - 1)
      /\ \A j \in 1..(k - 1) : a[j] = s[j]
      /\ \A j \in 1..(Len(s) - (k - 1)) : b[j] = s[(k - 1) + j]
      /\ a \o b = s
  <2> DEFINE m == k - 1
  <2>1. m \in 0..Len(s) /\ k = m + 1
    BY <1>1
  <2> HIDE DEF m
  <2>2. /\ SubSeq(s, 1, m) \in Seq(S) /\ SubSeq(s, m + 1, Len(s)) \in Seq(S)
        /\ Len(SubSeq(s, 1, m)) = m /\ Len(SubSeq(s, m + 1, Len(s))) = Len(s) - m
        /\ \A j \in 1..m : SubSeq(s, 1, m)[j] = s[j]
        /\ \A j \in 1..(Len(s) - m) : SubSeq(s, m + 1, Len(s))[j] = s[m + j]
        /\ SubSeq(s, 1, m) \o SubSeq(s, m + 1, Len(s)) = s
    BY <2>1, CutSeq, Zenon
  <2>3. a = SubSeq(s, 1, m) /\ b = SubSeq(s, m + 1, Len(s)) /\ k - 1 = m
    BY <2>1 DEF m
  <2> HIDE DEF a, b
  <2> QED
    BY <2>2, <2>3, Zenon
<1> HIDE DEF a, b
<1>3. <<x>> \in Seq(S) /\ Len(<<x>>) = 1 /\ <<x>>[1] = x
  OBVIOUS
<1>4. /\ c \in Seq(S) /\ Len(c) = k
      /\ \A j \in 1..k : c[j] = IF j < k THEN s[j] ELSE x
  BY <1>2, <1>3, JoinedLists, SMTT(30)
<1>5. Range(c) = Range(a) \cup {x}
  <2>1. Range(<<x>>) = {x}
    BY <1>3 DEF Range
  <2>2. Range(a \o <<x>>) = Range(a) \cup Range(<<x>>)
    <3>1. a \in Seq(S) /\ <<x>> \in Seq(S)
      BY <1>2, <1>3, Zenon
    <3> QED
      BY <3>1, RangeOfJoined, ZenonT(30)
  <2> QED
    BY <2>1, <2>2
<1> HIDE DEF c
<1>6. Insert(s, k, x) = c \o b
  BY DEF Insert, a, b, c
<1>7. /\ c \o b \in Seq(S) /\ Len(c \o b) = Len(s) + 1
      /\ \A j \in 1..(Len(s) + 1) :
            (c \o b)[j] = IF j < k THEN s[j] ELSE IF j = k THEN x ELSE s[j - 1]
  <2>1. /\ c \o b \in Seq(S) /\ Len(c \o b) = Len(c) + Len(b)
        /\ \A j \in 1..(Len(c) + Len(b)) : (c \o b)[j] = IF j <= Len(c) THEN c[j] ELSE b[j - Len(c)]
    <3>1. c \in Seq(S) /\ b \in Seq(S)
      BY <1>2, <1>4, Zenon
    <3> QED
      BY <3>1, JoinedLists
  <2>2. Len(c) + Len(b) = Len(s) + 1
    BY <1>2, <1>4, SMTT(30)
  <2>3. ASSUME NEW j \in 1..(Len(s) + 1)
        PROVE  (c \o b)[j] = IF j < k THEN s[j] ELSE IF j = k THEN x ELSE s[j - 1]
    <3>1. CASE j <= k
      BY <1>4, <2>1, <2>2, <3>1
    <3>2. CASE j > k
      <4>1. (c \o b)[j] = b[j - k] /\ j - k \in 1..(Len(s) - (k - 1))
        BY <1>4, <2>1, <2>2, <3>2
      <4>2. b[j - k] = s[(k - 1) + (j - k)]
        BY <1>2, <4>1, Zenon
      <4> QED
        BY <3>2, <4>1, <4>2, SMTT(30)
    <3>3. j <= k \/ j > k
      BY <1>1
    <3> QED
      BY <3>1, <3>2, <3>3, Zenon
  <2> QED
    BY <2>1, <2>2, <2>3
<1>8. Range(c \o b) = Range(s) \cup {x}
  <2>1. Range(s) = Range(a) \cup Range(b)
    BY <1>2, RangeOfJoined, ZenonT(30)
  <2>2. Range(c \o b) = Range(c) \cup Range(b)
    BY <1>2, <1>4, RangeOfJoined
  <2> QED
    BY <1>5, <2>1, <2>2
<1> QED
  BY <1>6, <1>7, <1>8

\* What t is when x is inserted into s as its k-th element.
Inserted(s, k, x, t) ==
    /\ Len(t) = Len(s) + 1
    /\ \A j \in 1..(Len(s) + 1) : t[j] = IF j < k THEN s[j] ELSE IF j = k THEN x ELSE s[j - 1]
    /\ Range(t) = Range(s) \cup {x}

\* Insert does what Inserted says of it.
LEMMA InsertedSeq ==
    ASSUME NEW S, NEW s \in Seq(S), NEW x \in S, NEW k \in 1..(Len(s) + 1)
    PROVE  Inserted(s, k, x, Insert(s, k, x))
<1> DEFINE t == Insert(s, k, x)
<1>1. /\ Len(t) = Len(s) + 1
      /\ \A j \in 1..(Len(s) + 1) : t[j] = IF j < k THEN s[j] ELSE IF j = k THEN x ELSE s[j - 1]
      /\ Range(t) = Range(s) \cup {x}
  BY InsertSeq
<1> HIDE DEF t
<1>2. Inserted(s, k, x, t)
  BY <1>1, Zenon DEF Inserted
<1> QED
  BY <1>2 DEF t

\* When a concatenation has no element twice.
LEMMA ConcatDistinct ==
    ASSUME NEW S, NEW s \in Seq(S), NEW t \in Seq(S)
    PROVE  Distinct(s \o t) <=> Distinct(s) /\ Distinct(t) /\ Apart(s, t)
<1> DEFINE c == s \o t
<1>1. /\ c \in Seq(S) /\ Len(c) = Len(s) + Len(t)
      /\ \A j \in 1..Len(s) : c[j] = s[j]
      /\ \A j \in 1..Len(t) : c[j + Len(s)] = t[j]
      /\ Len(s) \in Nat /\ Len(t) \in Nat
  BY JoinedLists
<1> HIDE DEF c
<1>2. ASSUME Distinct(c) PROVE Distinct(s) /\ Distinct(t) /\ Apart(s, t)
  <2>1. Distinct(s)
    BY <1>1, <1>2 DEF Distinct
  <2>2. Distinct(t)
    <3> SUFFICES ASSUME NEW j \in 1..Len(t), NEW k \in 1..Len(t), t[j] = t[k] PROVE j = k
      BY DEF Distinct
    <3>1. j + Len(s) \in 1..Len(c) /\ k + Len(s) \in 1..Len(c) /\ c[j + Len(s)] = c[k + Len(s)]
      BY <1>1
    <3>2. j + Len(s) = k + Len(s)
      BY <1>2, <3>1 DEF Distinct
    <3> QED
      BY <1>1, <3>2
  <2>3. Apart(s, t)
    <3> SUFFICES ASSUME NEW j \in 1..Len(s), NEW k \in 1..Len(t), s[j] = t[k] PROVE FALSE
      BY DEF Apart
    <3>1. j \in 1..Len(c) /\ k + Len(s) \in 1..Len(c) /\ c[j] = c[k + Len(s)]
      BY <1>1
    <3>2. j = k + Len(s)
      BY <1>2, <3>1 DEF Distinct
    <3> QED
      BY <1>1, <3>2
  <2> QED
    BY <2>1, <2>2, <2>3
<1>3. ASSUME Distinct(s), Distinct(t), Apart(s, t) PROVE Distinct(c)
  <2> SUFFICES ASSUME NEW j \in 1..Len(c), NEW k \in 1..Len(c), c[j] = c[k] PROVE j = k
    BY DEF Distinct
  <2>1. \A m \in 1..Len(c) : m > Len(s) =>
           m - Len(s) \in 1..Len(t) /\ c[m] = t[m - Len(s)]
    <3> SUFFICES ASSUME NEW m \in 1..Len(c), m > Len(s)
                 PROVE  m - Len(s) \in 1..Len(t) /\ c[m] = t[m - Len(s)]
      OBVIOUS
    <3>1. m - Len(s) \in 1..Len(t) /\ (m - Len(s)) + Len(s) = m
      BY <1>1
    <3> QED
      BY <1>1, <3>1, SMTT(30)
  <2>2. \A m \in 1..Len(c) : m <= Len(s) => m \in 1..Len(s) /\ c[m] = s[m]
    BY <1>1
  <2>3. CASE j <= Len(s) /\ k <= Len(s)
    BY <1>3, <2>2, <2>3 DEF Distinct
  <2>4. CASE j > Len(s) /\ k > Len(s)
    <3>1. j - Len(s) = k - Len(s)
      BY <1>3, <2>1, <2>4, Zenon DEF Distinct
    <3> QED
      BY <1>1, <3>1
  <2>5. CASE j <= Len(s) /\ k > Len(s)
    BY <1>3, <2>1, <2>2, <2>5 DEF Apart
  <2>6. CASE j > Len(s) /\ k <= Len(s)
    BY <1>3, <2>1, <2>2, <2>6 DEF Apart
  <2> QED
    BY <1>1, <2>3, <2>4, <2>5, <2>6
<1> QED
  BY <1>2, <1>3 DEF c

-----------------------------------------------------------------------------
(* The lists under every step. *)

\* What Collect puts on the pending list: the first n timers, then each ready event once.
Collected(n, r) ==
    /\ Expired(n)
    /\ timer_list' = SubSeq(timer_list, n + 1, Len(timer_list))
    /\ pending_list' = SubSeq(timer_list, 1, n) \o r
    /\ Range(r) = Readies /\ Distinct(r)

\* What processReadReadies() and processTimeouts() put on the pending list: ready watched events, and a first part of timer_list.
LEMMA Collecting ==
    ASSUME IInv, Collect
    PROVE  /\ Readies \subseteq Watched(watch_table) /\ Readies \subseteq Event
           /\ \E n \in 0..Len(timer_list), r \in Seq(Event) : Collected(n, r)
<1>1. pending_list = <<>>
  BY DEF IInv, Position, Collect
<1>2. IsFiniteSet(ReadySlots)
  <2>1. IsFiniteSet(Slot)
    BY FourSlots, FS_Interval DEF Slot
  <2> QED
    BY <2>1, FS_Subset DEF ReadySlots
<1>3. Cardinality(ReadySlots) \in Nat
  BY <1>2, FS_CardinalityType
<1>4. \A s \in ReadySlots : s \in Slot /\ watch_table[s] \in Event
  BY DEF ReadySlots, IInv, TypeOK
<1>5. PICK n \in 0..Len(timer_list), scan \in Scans :
         /\ Expired(n) /\ ProcessTimeouts(n)
         /\ pending_list' = pending_list \o SubSeq(timer_list, 1, n)
                              \o [k \in 1..Cardinality(ReadySlots) |-> watch_table[scan[k]]]
  BY Zenon DEF Collect
<1> DEFINE c == Cardinality(ReadySlots)
           r == [k \in 1..c |-> watch_table[scan[k]]]
<1>6. /\ \A k \in 1..c : scan[k] \in ReadySlots
      /\ \A j, k \in 1..c : j < k => scan[j] < scan[k]
      /\ ReadySlots = {scan[k] : k \in 1..c}
  BY DEF Scans
<1> HIDE DEF c
<1>7. r \in Seq(Event) /\ Len(r) = c /\ \A k \in 1..c : r[k] = watch_table[scan[k]]
  <2>1. \A k \in 1..c : watch_table[scan[k]] \in Event
    BY <1>4, <1>6
  <2>2. c \in Nat
    BY <1>3 DEF c
  <2>3. r \in Seq(Event)
    BY <2>1, <2>2
  <2> QED
    BY <2>2, <2>3
<1> HIDE DEF r
<1>8. Range(r) = Readies
  <2>1. Range(r) = {watch_table[scan[k]] : k \in 1..c}
    BY <1>7, RangeIs
  <2> QED
    BY <1>6, <2>1 DEF Readies
<1>9. Distinct(r)
  <2> SUFFICES ASSUME NEW j \in 1..c, NEW k \in 1..c, r[j] = r[k] PROVE j = k
    BY <1>7 DEF Distinct
  <2>1. scan[j] \in Slot /\ scan[k] \in Slot /\ watch_table[scan[j]] \in Event
    BY <1>4, <1>6
  <2>2. watch_table[scan[j]] = watch_table[scan[k]]
    BY <1>7
  <2>3. scan[j] = scan[k]
    BY <2>1, <2>2, WatchedIndex DEF IInv
  <2>4. scan[j] \in Nat /\ scan[k] \in Nat /\ c \in Nat
    BY <1>3, <2>1, FourSlots DEF Slot, c
  <2>5. ~(j < k) /\ ~(k < j)
    BY <1>6, <2>3, <2>4
  <2> QED
    BY <2>4, <2>5
<1>10. pending_list' = SubSeq(timer_list, 1, n) \o r
  <2>1. timer_list \in Seq(Info)
    BY DEF IInv, TypeOK
  <2>2. SubSeq(timer_list, 1, n) \in Seq(Info)
    BY <2>1, CutSeq
  <2>3. <<>> \o SubSeq(timer_list, 1, n) = SubSeq(timer_list, 1, n)
    BY <2>2, JoinedWithNothing
  <2> QED
    BY <1>1, <1>5, <2>3 DEF r, c
<1>11. Collected(n, r)
  BY <1>5, <1>8, <1>9, <1>10, Zenon DEF Collected, ProcessTimeouts
<1>12. Readies \subseteq Watched(watch_table) /\ Readies \subseteq Event
  BY <1>4 DEF Readies, ReadySlots, Watched
<1> QED
  BY <1>7, <1>11, <1>12

\* The lists of Collect: their types, and what is on them.
LEMMA CollectedLists ==
    ASSUME IInv, NEW n \in 0..Len(timer_list), NEW r \in Seq(Event), Collected(n, r)
    PROVE  /\ timer_list' \in Seq(Info) /\ pending_list' \in Seq(Info \cup Event)
           /\ SubSeq(timer_list, 1, n) \in Seq(Info)
           /\ timer_list = SubSeq(timer_list, 1, n) \o timer_list'
           /\ Len(timer_list') = Len(timer_list) - n
           /\ \A j \in 1..Len(timer_list') : timer_list'[j] = timer_list[n + j]
           /\ Len(pending_list') = n + Len(r)
           /\ \A j \in 1..n : pending_list'[j] = timer_list[j]
           /\ \A j \in 1..Len(r) : pending_list'[n + j] = r[j]
           /\ Range(pending_list') = Range(SubSeq(timer_list, 1, n)) \cup Readies
<1> DEFINE a == SubSeq(timer_list, 1, n)
<1>1. timer_list \in Seq(Info)
  BY DEF IInv, TypeOK
<1>2. /\ a \in Seq(Info) /\ timer_list' \in Seq(Info)
      /\ Len(a) = n /\ Len(timer_list') = Len(timer_list) - n
      /\ \A j \in 1..n : a[j] = timer_list[j]
      /\ \A j \in 1..(Len(timer_list) - n) : timer_list'[j] = timer_list[n + j]
      /\ a \o timer_list' = timer_list
  BY <1>1, CutSeq, Zenon DEF Collected
<1>3. pending_list' = a \o r /\ Range(r) = Readies
  BY DEF Collected
<1> HIDE DEF a
<1>4. a \in Seq(Info \cup Event) /\ r \in Seq(Info \cup Event)
  BY <1>2, WiderList
<1>5. /\ a \o r \in Seq(Info \cup Event) /\ Len(a \o r) = n + Len(r)
      /\ \A j \in 1..(n + Len(r)) : (a \o r)[j] = IF j <= n THEN a[j] ELSE r[j - n]
  <2>1. /\ a \o r \in Seq(Info \cup Event) /\ Len(a \o r) = Len(a) + Len(r)
        /\ \A j \in 1..(Len(a) + Len(r)) : (a \o r)[j] = IF j <= Len(a) THEN a[j] ELSE r[j - Len(a)]
    BY <1>4, JoinedLists
  <2> QED
    BY <1>2, <2>1, SMTT(30)
<1>6. Range(a \o r) = Range(a) \cup Readies
  BY <1>3, <1>4, RangeOfJoined
<1>7. \A j \in 1..n : (a \o r)[j] = timer_list[j]
  BY <1>2, <1>5
<1>8. ASSUME NEW j \in 1..Len(r) PROVE (a \o r)[n + j] = r[j]
  <2>1. n + j \in 1..(n + Len(r)) /\ ~(n + j <= n) /\ (n + j) - n = j
    OBVIOUS
  <2> QED
    BY <1>5, <2>1
<1> QED
  BY <1>2, <1>3, <1>5, <1>6, <1>7, <1>8 DEF a

-----------------------------------------------------------------------------
(* Every step keeps the types. *)

\* Every variable has its type at the start.
LEMMA TypeInit == Init => TypeOK
<1> SUFFICES ASSUME Init PROVE TypeOK
  OBVIOUS
<1>1. /\ watch_table \in [Slot -> Event \cup {None}]
      /\ index \in [Event -> {0} \cup Slot]
      /\ readFds = {} /\ nfds = 0 /\ rfds = {}
      /\ timer_list = <<>> /\ pending_list = <<>>
  BY DEF Init
<1>2. fd \in [Event -> CommandFd \cup 0..3]
  BY DEF Init, Event
<1>3. TaskTypeOK
  BY EventAssumption DEF Init, TaskTypeOK, Doing, Idle
<1>4. timer_list \in Seq(Info) /\ pending_list \in Seq(Info \cup Event) /\ nfds \in Nat
  BY <1>1
<1>5. /\ left \in [Info -> -1..MaxDelay \cup {None}] /\ kind \in [Info -> {"user", "wake", None}]
      /\ userParam \in [Info -> {0, 1}]
  BY DEF Init
<1>6. calls \in 0..MaxCalls /\ inputs \in 0..MaxInputs
  BY EventAssumption DEF Init
<1> QED
  BY <1>1, <1>2, <1>3, <1>4, <1>5, <1>6, Zenon DEF Init, TypeOK

\* The parts of TypeOK, by what the actions leave alone together.
TableTypeOK ==
    /\ watch_table \in [Slot -> Event \cup {None}] /\ index \in [Event -> {0} \cup Slot]
    /\ fd \in [Event -> CommandFd \cup 0..3] /\ readFds \subseteq CommandFd \cup 1..3 /\ nfds \in Nat
TimersTypeOK == timer_list \in Seq(Info) /\ left \in [Info -> -1..MaxDelay \cup {None}]
PendingTypeOK == pending_list \in Seq(Info \cup Event)
WaitTypeOK == rfds \subseteq CommandFd \cup 1..3 /\ limit \in 0..MaxDelay \cup {None}
AtTypeOK ==
    at \in {"pipe", "copy", "select", "collect", "fire", "run", "accepted",
            "relisten", "ran", "tail", "clear", "free", "dead", "crashed"}
RunningTypeOK == running \in Info \cup Event \cup {None}
MutexTypeOK == listMutex \in BOOLEAN
PipeTypeOK == pipe \in {"none", "empty", "full"}
WorldTypeOK == ready \subseteq Event /\ broken \in BOOLEAN /\ s_fdCommand \in CommandFd \cup {None}
InfosTypeOK == kind \in [Info -> {"user", "wake", None}] /\ userParam \in [Info -> {0, 1}]
WakeTypeOK == s_last_wake_timeout_info \in Info \cup {None} /\ wakeLock \in BOOLEAN
BoundsTypeOK == calls \in 0..MaxCalls /\ inputs \in 0..MaxInputs

\* TypeOK is the conjunction of its parts.
LEMMA TypeParts ==
    TypeOK <=> /\ TableTypeOK /\ TimersTypeOK /\ PendingTypeOK /\ WaitTypeOK /\ AtTypeOK /\ RunningTypeOK
               /\ MutexTypeOK /\ PipeTypeOK /\ WorldTypeOK /\ TaskTypeOK /\ InfosTypeOK /\ WakeTypeOK
               /\ BoundsTypeOK
  BY Zenon DEF TypeOK, TableTypeOK, TimersTypeOK, PendingTypeOK, WaitTypeOK, AtTypeOK, RunningTypeOK,
     MutexTypeOK, PipeTypeOK, WorldTypeOK, InfosTypeOK, WakeTypeOK, BoundsTypeOK

\* A part stays as it is when its variables do.
LEMMA TypeKept ==
    ASSUME TypeOK
    PROVE  /\ UNCHANGED table => TableTypeOK'
           /\ UNCHANGED timers => TimersTypeOK'
           /\ UNCHANGED pending_list => PendingTypeOK'
           /\ UNCHANGED wait => WaitTypeOK'
           /\ UNCHANGED at => AtTypeOK'
           /\ UNCHANGED running => RunningTypeOK'
           /\ UNCHANGED listMutex => MutexTypeOK'
           /\ UNCHANGED pipe => PipeTypeOK'
           /\ UNCHANGED world => WorldTypeOK'
           /\ UNCHANGED task => TaskTypeOK'
           /\ UNCHANGED infos => InfosTypeOK'
           /\ UNCHANGED wake => WakeTypeOK'
           /\ UNCHANGED bounds => BoundsTypeOK'
<1>1. UNCHANGED table => TableTypeOK'
  BY TypeParts, Zenon DEF table, TableTypeOK
<1>2. UNCHANGED timers => TimersTypeOK'
  BY TypeParts, Zenon DEF timers, TimersTypeOK
<1>3. UNCHANGED pending_list => PendingTypeOK'
  BY TypeParts, Zenon DEF PendingTypeOK
<1>4. UNCHANGED wait => WaitTypeOK'
  BY TypeParts, Zenon DEF wait, WaitTypeOK
<1>5. UNCHANGED at => AtTypeOK'
  BY TypeParts, Zenon DEF AtTypeOK
<1>6. UNCHANGED running => RunningTypeOK'
  BY TypeParts, Zenon DEF RunningTypeOK
<1>7. UNCHANGED listMutex => MutexTypeOK'
  BY TypeParts, Zenon DEF MutexTypeOK
<1>8. UNCHANGED pipe => PipeTypeOK'
  BY TypeParts, Zenon DEF PipeTypeOK
<1>9. UNCHANGED world => WorldTypeOK'
  BY TypeParts, Zenon DEF world, WorldTypeOK
<1>10. UNCHANGED task => TaskTypeOK'
  BY TypeParts, Zenon DEF TaskTypeOK
<1>11. UNCHANGED infos => InfosTypeOK'
  BY TypeParts, Zenon DEF infos, InfosTypeOK
<1>12. UNCHANGED wake => WakeTypeOK'
  BY TypeParts, Zenon DEF wake, WakeTypeOK
<1>13. UNCHANGED bounds => BoundsTypeOK'
  BY TypeParts, Zenon DEF bounds, BoundsTypeOK
<1> QED
  BY <1>1, <1>2, <1>3, <1>4, <1>5, <1>6, <1>7, <1>8, <1>9, <1>10, <1>11, <1>12, <1>13, Zenon

\* Every step keeps the types.
LEMMA TypeStep == IInv /\ [Next]_vars => TypeOK'
<1> SUFFICES ASSUME IInv, [Next]_vars PROVE TypeOK'
  OBVIOUS
<1>0. TypeOK /\ Tasks /\ Position
  BY DEF IInv
<1>30. ASSUME TableTypeOK', TimersTypeOK', PendingTypeOK', WaitTypeOK', AtTypeOK', RunningTypeOK',
              MutexTypeOK', PipeTypeOK', WorldTypeOK', TaskTypeOK', InfosTypeOK', WakeTypeOK', BoundsTypeOK'
       PROVE  TypeOK'
  BY <1>30, Zenon
     DEF TypeOK, TableTypeOK, TimersTypeOK, PendingTypeOK, WaitTypeOK, AtTypeOK, RunningTypeOK,
         MutexTypeOK, PipeTypeOK, WorldTypeOK, InfosTypeOK, WakeTypeOK, BoundsTypeOK
<1>31. ASSUME NEW e \in Event, Added(e) PROVE TableTypeOK' /\ MutexTypeOK'
  BY <1>0, <1>31, TypeParts DEF Added, TableTypeOK, MutexTypeOK
<1>32. ASSUME NEW t \in Thread, NEW v, task' = [task EXCEPT ![t] = v],
              v \in [pc : {"idle", "grabbed", "reload", "cancel", "schedule", "store", "addListen", "addDebug"},
                     cb : {"user", "wake"}, info : Info \cup {None}]
       PROVE  TaskTypeOK'
  BY <1>0, <1>32, TypeParts, Zenon DEF TaskTypeOK
<1>33. \A t \in Thread : task[t].info \in Info \cup {None} /\ task[t].cb \in {"user", "wake"}
  BY <1>0, TypeParts DEF TaskTypeOK
<1>34. Idle \in [pc : {"idle", "grabbed", "reload", "cancel", "schedule", "store", "addListen", "addDebug"},
                 cb : {"user", "wake"}, info : Info \cup {None}]
  BY DEF Idle
<1>35. \A pc \in {"grabbed", "reload", "cancel", "schedule", "store"}, cb \in {"user", "wake"}, i \in Info \cup {None} :
         Doing(pc, cb, i) \in
             [pc : {"idle", "grabbed", "reload", "cancel", "schedule", "store", "addListen", "addDebug"},
              cb : {"user", "wake"}, info : Info \cup {None}]
  BY DEF Doing
<1>2. ASSUME CreatePipe PROVE TypeOK'
  <2>1. Added("wakeup")
    BY <1>2, Adding
  <2>2. AtTypeOK' /\ PipeTypeOK'
    BY <1>2 DEF CreatePipe, AtTypeOK, PipeTypeOK
  <2>3. "wakeup" \in Event
    BY DEF Event
  <2> QED
    BY <1>0, <1>2, <1>30, <1>31, <2>1, <2>2, <2>3, TypeKept, Zenon DEF CreatePipe
<1>3. ASSUME ListenCallbackRefuses PROVE TypeOK'
  <2>1. Added("listen")
    BY <1>3, Adding
  <2>2. AtTypeOK'
    BY <1>3 DEF ListenCallbackRefuses, AtTypeOK
  <2>3. "listen" \in Event
    BY DEF Event
  <2>4. WorldTypeOK'
    BY <1>0, <1>3, TypeParts, Zenon DEF ListenCallbackRefuses, WorldTypeOK
  <2> QED
    BY <1>0, <1>3, <1>30, <1>31, <2>1, <2>2, <2>3, <2>4, TypeKept, Zenon DEF ListenCallbackRefuses
<1>4. ASSUME Relisten PROVE TypeOK'
  <2>1. Added("listen")
    BY <1>4, Adding
  <2>2. AtTypeOK'
    BY <1>4 DEF Relisten, AtTypeOK
  <2>3. "listen" \in Event
    BY DEF Event
  <2> QED
    BY <1>0, <1>4, <1>30, <1>31, <2>1, <2>2, <2>3, TypeKept, Zenon DEF Relisten
<1>5. ASSUME NEW e \in Event, NEW from, NEW to \in {"addDebug", "idle"},
             RegisterAdd(e, from, to), Added(e)
      PROVE  TypeOK'
  <2>1. TaskTypeOK'
    <3>1. TaskTypeOK /\ task' = [task EXCEPT ![Main].pc = to]
      BY <1>0, <1>5, TypeParts, Zenon DEF RegisterAdd
    <3> QED
      BY <3>1 DEF TaskTypeOK, Thread
  <2>2. PipeTypeOK'
    BY <1>0, <1>5, TypeParts DEF RegisterAdd, PipeTypeOK, TriggerEvLoop
  <2> QED
    BY <1>0, <1>5, <1>30, <1>31, <2>1, <2>2, TypeKept, Zenon DEF RegisterAdd
<1>6. ASSUME WatchCommands PROVE TypeOK'
  <2>1. Added("commands")
    BY <1>6, Adding
  <2>2. TaskTypeOK'
    <3>1. Loop \in Thread
      BY DEF Thread
    <3> QED
      BY <1>6, <1>32, <1>35, <3>1, Zenon DEF WatchCommands
  <2>3. "commands" \in Event
    BY DEF Event
  <2>4. AtTypeOK'
    BY <1>6 DEF WatchCommands, AtTypeOK
  <2>5. WakeTypeOK'
    BY <1>0, <1>6, TypeParts, Zenon DEF WatchCommands, WakeTypeOK
  <2> QED
    BY <1>0, <1>6, <1>30, <1>31, <2>1, <2>2, <2>3, <2>4, <2>5, TypeKept, Zenon DEF WatchCommands
<1>7. ASSUME CommandsClosed PROVE TypeOK'
  <2>1. Removed({"commands"})
    BY <1>7, Removing
  <2>2. TableTypeOK' /\ MutexTypeOK'
    BY <1>0, <2>1, TypeParts, Zenon DEF Removed, TableTypeOK, MutexTypeOK
  <2>3. AtTypeOK'
    BY <1>7 DEF CommandsClosed, AtTypeOK
  <2>4. WorldTypeOK'
    BY <1>0, <1>7, TypeParts, Zenon DEF CommandsClosed, WorldTypeOK
  <2> QED
    BY <1>0, <1>7, <1>30, <2>2, <2>3, <2>4, TypeKept, Zenon DEF CommandsClosed
<1>8. ASSUME Collect PROVE TypeOK'
  <2>1. Removed(OneShot \cap Readies)
    BY <1>8, Removing
  <2>2. timer_list' \in Seq(Info) /\ pending_list' \in Seq(Info \cup Event)
    BY <1>8, Collecting, CollectedLists
  <2>3. TableTypeOK' /\ MutexTypeOK'
    BY <1>0, <2>1, TypeParts, Zenon DEF Removed, TableTypeOK, MutexTypeOK
  <2>4. TimersTypeOK' /\ PendingTypeOK'
    BY <1>0, <1>8, <2>2, TypeParts, Zenon DEF Collect, TimersTypeOK, PendingTypeOK
  <2>5. AtTypeOK'
    BY <1>8 DEF Collect, AtTypeOK
  <2>6. WaitTypeOK'
    BY <1>0, <1>8, TypeParts, Zenon DEF Collect, WaitTypeOK
  <2> QED
    BY <1>0, <1>8, <1>30, <2>3, <2>4, <2>5, <2>6, TypeKept, Zenon DEF Collect
<1>9. ASSUME NEW f \in CommandFd, ListenCallbackAccepts(f) PROVE TypeOK'
  <2>1. TableTypeOK'
    BY <1>0, <1>9, TypeParts, ZenonT(30) DEF ListenCallbackAccepts, TableTypeOK
  <2>2. AtTypeOK'
    BY <1>9 DEF ListenCallbackAccepts, AtTypeOK
  <2>3. WorldTypeOK'
    BY <1>0, <1>9, TypeParts, Zenon DEF ListenCallbackAccepts, WorldTypeOK
  <2> QED
    BY <1>0, <1>9, <1>30, <2>1, <2>2, <2>3, TypeKept, Zenon DEF ListenCallbackAccepts
<1>10. ASSUME PrepareSelect PROVE TypeOK'
  <2>1. timer_list # <<>> => Head(timer_list) \in Info
    BY <1>0, TypeParts DEF TimersTypeOK
  <2>2. timer_list # <<>> => left[Head(timer_list)] \in -1..MaxDelay \cup {None}
    BY <1>0, <2>1, TypeParts DEF TimersTypeOK
  <2>3. timer_list # <<>> => left[Head(timer_list)] # None
    <3>1. timer_list # <<>> => Head(timer_list) \in Range(timer_list)
      BY <1>0, TypeParts DEF TimersTypeOK, Range
    <3>2. Range(pending_list \o timer_list) = Range(pending_list) \cup Range(timer_list)
      <4>1. timer_list \in Seq(Info \cup Event) /\ pending_list \in Seq(Info \cup Event)
        BY <1>0, WiderList, TypeParts DEF TimersTypeOK, PendingTypeOK
      <4> QED
        BY <4>1, RangeOfJoined
    <3>3. timer_list # <<>> => kind[Head(timer_list)] # None
      BY <2>1, <3>1, <3>2, Zenon DEF IInv, ListsIntact
    <3> QED
      BY <2>1, <3>3 DEF IInv, TimersOrdered
  <2>4. limit' \in 0..MaxDelay \cup {None}
    BY <1>10, <2>2, <2>3, EventAssumption, SMTT(30) DEF PrepareSelect
  <2>5. WaitTypeOK'
    <3>1. rfds' \subseteq CommandFd \cup 1..3
      BY <1>0, <1>10, TypeParts, Zenon DEF PrepareSelect, TableTypeOK
    <3> QED
      BY <2>4, <3>1 DEF WaitTypeOK
  <2>6. AtTypeOK'
    BY <1>10 DEF PrepareSelect, AtTypeOK
  <2> QED
    BY <1>0, <1>10, <1>30, <2>5, <2>6, TypeKept, Zenon DEF PrepareSelect
<1>11. ASSUME Select PROVE TypeOK'
  <2>1. rfds' \subseteq rfds
    BY <1>11, Zenon DEF Select
  <2>2. WaitTypeOK'
    BY <1>0, <1>11, <2>1, TypeParts, Zenon DEF Select, WaitTypeOK
  <2>3. AtTypeOK'
    BY <1>11 DEF Select, AtTypeOK
  <2> QED
    BY <1>0, <1>11, <1>30, <2>2, <2>3, TypeKept, Zenon DEF Select
<1>12. ASSUME SelectInterrupted \/ SelectFails PROVE TypeOK'
  <2>1. WaitTypeOK' /\ AtTypeOK'
    BY <1>12 DEF SelectInterrupted, SelectFails, WaitTypeOK, AtTypeOK
  <2> QED
    BY <1>0, <1>12, <1>30, <2>1, TypeKept, Zenon DEF SelectInterrupted, SelectFails
<1>13. ASSUME FirePending PROVE TypeOK'
  <2>1. PendingTypeOK' /\ RunningTypeOK'
    <3>1. CASE pending_list = <<>>
      BY <1>0, <1>13, <3>1, TypeKept, Zenon DEF FirePending
    <3>2. CASE pending_list # <<>>
      <4>1. Head(pending_list) \in Info \cup Event /\ Tail(pending_list) \in Seq(Info \cup Event)
        BY <1>0, <3>2, RestOfList, TypeParts DEF PendingTypeOK
      <4> QED
        BY <1>13, <3>2, <4>1 DEF FirePending, PendingTypeOK, RunningTypeOK
    <3> QED
      BY <3>1, <3>2, Zenon
  <2>2. AtTypeOK'
    BY <1>13 DEF FirePending, AtTypeOK
  <2> QED
    BY <1>0, <1>13, <1>30, <2>1, <2>2, TypeKept, Zenon DEF FirePending
<1>14. ASSUME WakeupCallback \/ CommandsCallback \/ DebugCallback PROVE TypeOK'
  <2>1. AtTypeOK'
    BY <1>14, Zenon DEF WakeupCallback, CommandsCallback, DebugCallback, AtTypeOK
  <2>2. CASE WakeupCallback
    <3>1. PipeTypeOK'
      BY <2>2, Zenon DEF WakeupCallback, PipeTypeOK
    <3> QED
      BY <1>0, <1>30, <2>1, <2>2, <3>1, TypeKept, Zenon DEF WakeupCallback
  <2>3. CASE CommandsCallback
    <3>1. WorldTypeOK'
      BY <1>0, <2>3, TypeParts, Zenon DEF CommandsCallback, WorldTypeOK
    <3> QED
      BY <1>0, <1>30, <2>1, <2>3, <3>1, TypeKept, Zenon DEF CommandsCallback
  <2>4. CASE DebugCallback
    <3>1. WorldTypeOK'
      BY <1>0, <2>4, TypeParts, Zenon DEF DebugCallback, WorldTypeOK
    <3> QED
      BY <1>0, <1>30, <2>1, <2>4, <3>1, TypeKept, Zenon DEF DebugCallback
  <2> QED
    BY <1>14, <2>2, <2>3, <2>4, Zenon
<1>15. ASSUME TimerCallback \/ CallbackReturns \/ ClearLastWake PROVE TypeOK'
  <2>1. AtTypeOK' /\ RunningTypeOK'
    BY <1>0, <1>15, TypeParts, Zenon DEF TimerCallback, CallbackReturns, ClearLastWake, AtTypeOK, RunningTypeOK
  <2>2. WakeTypeOK'
    BY <1>0, <1>15, TypeParts, Zenon DEF TimerCallback, CallbackReturns, ClearLastWake, WakeTypeOK, wake
  <2> QED
    BY <1>0, <1>15, <1>30, <2>1, <2>2, TypeKept, Zenon DEF TimerCallback, CallbackReturns, ClearLastWake
<1>16. ASSUME FreeInfo PROVE TypeOK'
  <2>1. AtTypeOK' /\ RunningTypeOK'
    BY <1>16, Zenon DEF FreeInfo, AtTypeOK, RunningTypeOK
  <2>2. InfosTypeOK'
    BY <1>0, <1>16, TypeParts, Zenon DEF FreeInfo, InfosTypeOK
  <2>3. TimersTypeOK'
    BY <1>0, <1>16, TypeParts, Zenon DEF FreeInfo, TimersTypeOK
  <2> QED
    BY <1>0, <1>16, <1>30, <2>1, <2>2, <2>3, TypeKept, Zenon DEF FreeInfo
<1>17. ASSUME NEW t \in Thread, RequestTimedCallback(t) \/ OnUnsolicitedResponse(t) PROVE TypeOK'
  <2>1. TaskTypeOK'
    <3>1. \/ task' = [task EXCEPT ![t] = Doing("schedule", "user", None)]
          \/ task' = [task EXCEPT ![t] = Doing("grabbed", "wake", None)]
      BY <1>17, Zenon DEF RequestTimedCallback, OnUnsolicitedResponse, Start
    <3> QED
      BY <1>32, <1>35, <3>1
  <2>2. BoundsTypeOK'
    <3>1. calls' = calls + 1 /\ calls < MaxCalls /\ inputs' = inputs
      BY <1>17, Zenon DEF RequestTimedCallback, OnUnsolicitedResponse, Start
    <3>2. calls \in 0..MaxCalls /\ inputs \in 0..MaxInputs /\ MaxCalls \in Nat
      BY <1>0, EventAssumption, TypeParts, Zenon DEF BoundsTypeOK
    <3> QED
      BY <3>1, <3>2 DEF BoundsTypeOK
  <2>3. AtTypeOK'
    BY <1>0, <1>17, TypeParts, Zenon DEF RequestTimedCallback, OnUnsolicitedResponse, Start, AtTypeOK
  <2>4. WakeTypeOK'
    BY <1>0, <1>17, TypeParts, Zenon DEF RequestTimedCallback, OnUnsolicitedResponse, WakeTypeOK, wake
  <2> QED
    BY <1>0, <1>17, <1>30, <2>1, <2>2, <2>3, <2>4, TypeKept, Zenon DEF RequestTimedCallback, OnUnsolicitedResponse
<1>18. ASSUME NEW t \in Thread, ErrorExit(t) \/ SendAndCheck(t) \/ ReadAgain(t) \/ StoreLastWake(t) PROVE TypeOK'
  <2>1. CASE ErrorExit(t)
    <3>1. TaskTypeOK'
      BY <1>32, <1>34, <2>1, Zenon DEF ErrorExit
    <3>2. WakeTypeOK'
      BY <1>0, <2>1, TypeParts, Zenon DEF ErrorExit, WakeTypeOK
    <3> QED
      BY <1>0, <1>30, <2>1, <3>1, <3>2, TypeKept, Zenon DEF ErrorExit
  <2>2. CASE SendAndCheck(t)
    <3>1. TaskTypeOK'
      <4>1. s_last_wake_timeout_info \in Info \cup {None}
        BY <1>0, TypeParts DEF WakeTypeOK
      <4>2. PICK v \in {Doing("cancel", "wake", s_last_wake_timeout_info), Doing("reload", "wake", None),
                        Doing("schedule", "wake", None)} : task' = [task EXCEPT ![t] = v]
        BY <2>2, ZenonT(30) DEF SendAndCheck
      <4>3. v \in [pc : {"idle", "grabbed", "reload", "cancel", "schedule", "store", "addListen", "addDebug"},
                   cb : {"user", "wake"}, info : Info \cup {None}]
        BY <4>1, <4>2 DEF Doing
      <4> QED
        BY <1>32, <4>2, <4>3, Zenon
    <3>2. WorldTypeOK'
      BY <1>0, <2>2, TypeParts, ZenonT(30) DEF SendAndCheck, WorldTypeOK
    <3> QED
      BY <1>0, <1>30, <2>2, <3>1, <3>2, TypeKept, Zenon DEF SendAndCheck
  <2>3. CASE StoreLastWake(t)
    <3>1. TaskTypeOK'
      BY <1>32, <1>34, <2>3, Zenon DEF StoreLastWake
    <3>2. WakeTypeOK'
      BY <1>0, <1>33, <2>3, TypeParts, Zenon DEF StoreLastWake, WakeTypeOK
    <3> QED
      BY <1>0, <1>30, <2>3, <3>1, <3>2, TypeKept, Zenon DEF StoreLastWake
  <2>4. CASE ReadAgain(t)
    <3>1. TaskTypeOK' /\ AtTypeOK'
      <4>1. CASE s_last_wake_timeout_info = None
        <5>1. task' = [u \in Thread |-> Idle] /\ at' = "crashed"
          BY <2>4, <4>1, Zenon DEF ReadAgain
        <5> QED
          BY <1>34, <5>1, Zenon DEF TaskTypeOK, AtTypeOK
      <4>2. CASE s_last_wake_timeout_info # None
        <5>1. s_last_wake_timeout_info \in Info \cup {None}
          BY <1>0, TypeParts DEF WakeTypeOK
        <5>2. task' = [task EXCEPT ![t] = Doing("cancel", "wake", s_last_wake_timeout_info)] /\ at' = at
          BY <2>4, <4>2, Zenon DEF ReadAgain
        <5>3. TaskTypeOK'
          BY <1>32, <1>35, <5>1, <5>2, ZenonT(30)
        <5> QED
          BY <1>0, <5>2, <5>3, TypeKept, Zenon
      <4> QED
        BY <4>1, <4>2
    <3> QED
      BY <1>0, <1>30, <2>4, <3>1, TypeKept, Zenon DEF ReadAgain
  <2> QED
    BY <1>18, <2>1, <2>2, <2>3, <2>4, Zenon
<1>19. ASSUME NEW t \in Thread, CancelPrevious(t) PROVE TypeOK'
  <2>1. TaskTypeOK'
    BY <1>19, <1>32, <1>35, ZenonT(30) DEF CancelPrevious
  <2>2. InfosTypeOK'
    BY <1>0, <1>19, TypeParts, ZenonT(30) DEF CancelPrevious, InfosTypeOK
  <2> QED
    BY <1>0, <1>19, <1>30, <2>1, <2>2, TypeKept, Zenon DEF CancelPrevious
<1>20. ASSUME NEW t \in Thread, NEW i \in Info, NEW d \in 0..MaxDelay, Schedule(t, i, d)
       PROVE  TypeOK'
  <2>1. TaskTypeOK'
    <3>1. task' = [task EXCEPT ![t] = Doing("store", "wake", i)] \/ task' = [task EXCEPT ![t] = Idle]
      BY <1>20, Zenon DEF Schedule
    <3> QED
      BY <1>32, <1>34, <1>35, <3>1
  <2>2. TimersTypeOK'
    <3>1. PICK k \in 1..(Len(timer_list) + 1) : timer_list' = Insert(timer_list, k, i)
      BY <1>20, Zenon DEF Schedule, Insert
    <3>2. timer_list' \in Seq(Info)
      BY <1>0, <3>1, InsertSeq, TypeParts DEF TimersTypeOK
    <3>3. left' \in [Info -> -1..MaxDelay \cup {None}]
      <4>1. d \in -1..MaxDelay \cup {None}
        BY EventAssumption
      <4> QED
        BY <1>0, <1>20, <4>1, TypeParts, Zenon DEF Schedule, TimersTypeOK
    <3> QED
      BY <3>2, <3>3 DEF TimersTypeOK
  <2>3. InfosTypeOK'
    <3>1. kind' = [kind EXCEPT ![i] = task[t].cb] /\ userParam' = [userParam EXCEPT ![i] = 0]
      BY <1>20, Zenon DEF Schedule
    <3> QED
      BY <1>0, <1>33, <3>1, TypeParts DEF InfosTypeOK
  <2>4. PipeTypeOK'
    <3>1. TriggerEvLoop(t)
      BY <1>20, Zenon DEF Schedule
    <3> QED
      BY <1>0, <3>1, TypeParts DEF TriggerEvLoop, PipeTypeOK
  <2> QED
    BY <1>0, <1>20, <1>30, <2>1, <2>2, <2>3, <2>4, TypeKept, Zenon DEF Schedule
<1>21. ASSUME NEW e \in Event, BecomeReady(e) PROVE TypeOK'
  <2>1. BoundsTypeOK'
    <3>1. inputs' = inputs + 1 /\ inputs < MaxInputs /\ calls' = calls
      BY <1>21, Zenon DEF BecomeReady
    <3>2. calls \in 0..MaxCalls /\ inputs \in 0..MaxInputs /\ MaxInputs \in Nat
      BY <1>0, EventAssumption, TypeParts, Zenon DEF BoundsTypeOK
    <3> QED
      BY <3>1, <3>2 DEF BoundsTypeOK
  <2>2. WorldTypeOK'
    BY <1>0, <1>21, TypeParts, Zenon DEF BecomeReady, WorldTypeOK
  <2> QED
    BY <1>0, <1>21, <1>30, <2>1, <2>2, TypeKept, Zenon DEF BecomeReady
<1>22. ASSUME Tick PROVE TypeOK'
  <2>1. TimersTypeOK'
    <3>1. /\ left' = [i \in Info |-> IF left[i] \in {None, -1} THEN left[i] ELSE left[i] - 1]
          /\ timer_list' = timer_list
      BY <1>22, Zenon DEF Tick
    <3>2. /\ \A i \in Info : left[i] \in -1..MaxDelay \cup {None} /\ timer_list \in Seq(Info)
          /\ MaxDelay \in Nat /\ timer_list \in Seq(Info)
      BY <1>0, TypeParts, EventAssumption DEF TimersTypeOK
    <3>3. \A i \in Info : (IF left[i] \in {None, -1} THEN left[i] ELSE left[i] - 1) \in -1..MaxDelay \cup {None}
      BY <3>2
    <3> QED
      BY <3>1, <3>2, <3>3, Zenon DEF TimersTypeOK
  <2>2. WaitTypeOK'
    <3>1. limit' = IF limit \in {None, 0} THEN limit ELSE limit - 1
      BY <1>22, Zenon DEF Tick
    <3>2. limit \in 0..MaxDelay \cup {None} /\ MaxDelay \in Nat
      BY <1>0, TypeParts, EventAssumption DEF WaitTypeOK
    <3>3. limit' \in 0..MaxDelay \cup {None}
      BY <3>1, <3>2
    <3>4. rfds' \subseteq CommandFd \cup 1..3
      BY <1>0, <1>22, TypeParts, Zenon DEF Tick, WaitTypeOK
    <3> QED
      BY <3>3, <3>4 DEF WaitTypeOK
  <2> QED
    BY <1>0, <1>22, <1>30, <2>1, <2>2, TypeKept, Zenon DEF Tick
<1>23. ASSUME Register PROVE TypeOK'
  <2>1. CASE RegisterAdd("listen", "addListen", "addDebug")
    BY <1>5, <2>1, Adding DEF Event
  <2>2. CASE RegisterAdd("debug", "addDebug", "idle")
    BY <1>5, <2>2, Adding, SMTT(30) DEF Event
  <2> QED
    BY <1>23, <2>1, <2>2 DEF Register
<1>24. CASE UNCHANGED vars
  BY <1>0, <1>24, <1>30, TypeKept, Zenon DEF vars
<1> QED
  BY <1>2, <1>3, <1>4, <1>6, <1>7, <1>8, <1>9, <1>10, <1>11, <1>12, <1>13, <1>14, <1>15, <1>16,
     <1>17, <1>18, <1>19, <1>20, <1>21, <1>22, <1>23, <1>24, ZenonT(30) DEF Next, LoopStep, TaskStep

-----------------------------------------------------------------------------
(* Every step keeps the table covered. *)

\* nfds and readFds agree with the empty table.
LEMMA CoveredInit == Init => Covered
<1> SUFFICES ASSUME Init PROVE Covered
  OBVIOUS
<1>1. Watched(watch_table) = {}
  BY Zenon DEF Init, Watched
<1>2. \A e \in Event : {s \in Slot : watch_table[s] = e} = {} /\ {index[e]} \ {0} = {}
  BY EventAssumption DEF Init
<1> QED
  BY <1>1, <1>2, Zenon DEF Init, Covered

\* Every step keeps nfds above, and readFds equal to, the descriptors of the table.
LEMMA CoveredStep == IInv /\ [Next]_vars => Covered'
<1> SUFFICES ASSUME IInv, [Next]_vars PROVE Covered'
  OBVIOUS
<1>1. CASE CreatePipe \/ ListenCallbackRefuses \/ Relisten \/ Register \/ WatchCommands
  BY <1>1, Adding DEF Register, Added
<1>2. CASE CommandsClosed \/ Collect
  BY <1>2, Removing DEF Removed
<1>3. ASSUME NEW f \in CommandFd, ListenCallbackAccepts(f) PROVE Covered'
  BY <1>3, CoveredAccept
<1>4. CASE PrepareSelect \/ Select \/ SelectFails \/ SelectInterrupted \/ FirePending \/ Tick
  BY <1>4, CoveredKept, Zenon DEF IInv, PrepareSelect, Select, SelectFails, SelectInterrupted, FirePending, Tick
<1>5. CASE \/ WakeupCallback \/ CommandsCallback \/ DebugCallback \/ TimerCallback
           \/ CallbackReturns \/ ClearLastWake \/ FreeInfo
  BY <1>5, CoveredKept, Zenon DEF IInv, WakeupCallback, CommandsCallback, DebugCallback, TimerCallback,
     CallbackReturns, ClearLastWake, FreeInfo
<1>6. ASSUME NEW t \in Thread, TaskStep(t) \/ RequestTimedCallback(t) \/ OnUnsolicitedResponse(t)
      PROVE  Covered'
  BY <1>6, CoveredKept, Zenon DEF IInv, TaskStep, RequestTimedCallback, OnUnsolicitedResponse,
     ErrorExit, SendAndCheck, ReadAgain, CancelPrevious, StoreLastWake, Schedule
<1>7. ASSUME NEW e \in Event, BecomeReady(e) PROVE Covered'
  BY <1>7, CoveredKept, Zenon DEF IInv, BecomeReady
<1>8. CASE UNCHANGED vars
  BY <1>8, CoveredKept DEF IInv, vars
<1> QED
  BY <1>1, <1>2, <1>3, <1>4, <1>5, <1>6, <1>7, <1>8, ZenonT(30) DEF Next, LoopStep

-----------------------------------------------------------------------------
(* Every step keeps the lists intact. *)

\* ListsIntact, list by list.
ListByList ==
    /\ Distinct(pending_list) /\ Distinct(timer_list) /\ Apart(pending_list, timer_list)
    /\ \A i \in Info : i = running \/ Pending(i) \/ i \in Range(timer_list) => kind[i] # None
    /\ running # None => ~Pending(running) /\ running \notin Range(timer_list)
    /\ at = "accepted" => ~Pending("commands") /\ "commands" \notin Watched(watch_table)

\* ListsIntact speaks of the two lists joined; ListByList says the same of each list, and that they share nothing.
LEMMA ListByListIs == TypeOK => (ListsIntact <=> ListByList)
<1> SUFFICES ASSUME TypeOK PROVE ListsIntact <=> ListByList
  OBVIOUS
<1>1. timer_list \in Seq(Info \cup Event) /\ pending_list \in Seq(Info \cup Event)
  BY WiderList DEF TypeOK
<1>2. Range(pending_list \o timer_list) = Range(pending_list) \cup Range(timer_list)
  BY <1>1, RangeOfJoined
<1>3. Distinct(pending_list \o timer_list)
         <=> Distinct(pending_list) /\ Distinct(timer_list) /\ Apart(pending_list, timer_list)
  BY <1>1, ConcatDistinct
<1>4. "commands" \notin Range(timer_list)
  <2>1. Range(timer_list) \subseteq Info
    BY RangeOfList DEF TypeOK
  <2> QED
    BY <2>1, EventAssumption DEF Event
<1>5. Distinct(pending_list \o timer_list) <=>
         \A j, k \in 1..Len(pending_list \o timer_list) :
            (pending_list \o timer_list)[j] = (pending_list \o timer_list)[k] => j = k
  BY DEF Distinct
<1> HIDE DEF Distinct
<1> QED
  BY <1>2, <1>3, <1>4, <1>5, Zenon DEF ListsIntact, ListByList, Pending

\* The same, of the next state.
LEMMA ListByListPrimed == TypeOK' => (ListsIntact' <=> ListByList')
  BY ListByListIs, PTL

\* Two sequences have no element in common.
LEMMA ApartIs ==
    ASSUME NEW S, NEW s \in Seq(S), NEW t \in Seq(S)
    PROVE  Apart(s, t) <=> Range(s) \cap Range(t) = {}
<1>1. Range(s) = {s[j] : j \in 1..Len(s)} /\ Range(t) = {t[j] : j \in 1..Len(t)}
  BY RangeIs
<1> QED
  BY <1>1, Zenon DEF Apart

\* Taking the first element of a sequence.
LEMMA PopSeq ==
    ASSUME NEW S, NEW s \in Seq(S), s # <<>>
    PROVE  /\ Tail(s) \in Seq(S) /\ Head(s) \in S /\ Len(s) \in Nat \ {0} /\ Len(Tail(s)) = Len(s) - 1
           /\ Head(s) = s[1] /\ \A j \in 1..(Len(s) - 1) : Tail(s)[j] = s[j + 1]
           /\ Range(s) = {Head(s)} \cup Range(Tail(s))
           /\ Distinct(s) => Distinct(Tail(s)) /\ Head(s) \notin Range(Tail(s))
<1>1. /\ Tail(s) \in Seq(S) /\ Head(s) \in S /\ Len(Tail(s)) = Len(s) - 1
      /\ \A j \in 1..Len(Tail(s)) : Tail(s)[j] = s[j + 1]
  BY RestOfList
<1>2. Len(s) \in Nat \ {0} /\ Head(s) = s[1] /\ 1 \in 1..Len(s)
  OBVIOUS
<1>3. Range(s) = {s[j] : j \in 1..Len(s)} /\ Range(Tail(s)) = {Tail(s)[j] : j \in 1..Len(Tail(s))}
  BY <1>1, RangeIs, Zenon
<1> DEFINE t == Tail(s)
<1> HIDE DEF t
<1>4. \A j \in 1..Len(t) : t[j] = s[j + 1] /\ j + 1 \in 1..Len(s)
  BY <1>1, <1>2 DEF t
<1>5. \A j \in 1..Len(s) : j # 1 => j - 1 \in 1..Len(t) /\ s[j] = t[j - 1]
  <2> SUFFICES ASSUME NEW j \in 1..Len(s), j # 1 PROVE j - 1 \in 1..Len(t) /\ s[j] = t[j - 1]
    OBVIOUS
  <2>1. j - 1 \in 1..Len(t) /\ (j - 1) + 1 = j
    BY <1>1, <1>2 DEF t
  <2> QED
    BY <1>4, <2>1
<1>6. Range(s) = {Head(s)} \cup Range(t)
  <2>1. Range(s) \subseteq {Head(s)} \cup Range(t)
    <3> SUFFICES ASSUME NEW j \in 1..Len(s) PROVE s[j] \in {Head(s)} \cup Range(t)
      BY <1>3, Zenon
    <3>1. CASE j = 1
      BY <1>2, <3>1, Zenon
    <3>2. CASE j # 1
      BY <1>3, <1>5, <3>2, Zenon DEF t
    <3> QED
      BY <3>1, <3>2, Zenon
  <2>2. {Head(s)} \cup Range(t) \subseteq Range(s)
    BY <1>2, <1>3, <1>4 DEF t
  <2> QED
    BY <2>1, <2>2
<1>7. ASSUME Distinct(s) PROVE Distinct(t) /\ Head(s) \notin Range(t)
  <2>1. Distinct(t)
    <3> SUFFICES ASSUME NEW j \in 1..Len(t), NEW k \in 1..Len(t), t[j] = t[k] PROVE j = k
      BY DEF Distinct
    <3>1. j + 1 = k + 1
      BY <1>4, <1>7 DEF Distinct
    <3> QED
      BY <1>1, <3>1
  <2>2. ASSUME NEW j \in 1..Len(t), t[j] = Head(s) PROVE FALSE
    <3>1. j + 1 = 1
      BY <1>2, <1>4, <1>7, <2>2 DEF Distinct
    <3> QED
      BY <3>1
  <2> QED
    BY <1>3, <2>1, <2>2 DEF t
<1> QED
  BY <1>1, <1>2, <1>6, <1>7 DEF t

\* An element that is new to a sequence can be inserted.
LEMMA InsertDistinct ==
    ASSUME NEW S, NEW s \in Seq(S), NEW x \in S, NEW n \in 1..(Len(s) + 1),
           Distinct(s), x \notin Range(s)
    PROVE  Distinct(Insert(s, n, x))
<1> DEFINE t == Insert(s, n, x)
<1>1. /\ Len(t) = Len(s) + 1 /\ Len(s) \in Nat
      /\ \A j \in 1..(Len(s) + 1) :
            t[j] = IF j < n THEN s[j] ELSE IF j = n THEN x ELSE s[j - 1]
  BY InsertSeq
<1>2. \A j \in 1..Len(s) : s[j] # x
  BY RangeIs
<1> HIDE DEF t
<1> SUFFICES ASSUME NEW j \in 1..(Len(s) + 1), NEW k \in 1..(Len(s) + 1), t[j] = t[k] PROVE j = k
  BY <1>1 DEF Distinct, t
<1> DEFINE p(m) == IF m < n THEN m ELSE m - 1
<1>3. \A m \in 1..(Len(s) + 1) : m # n => p(m) \in 1..Len(s) /\ t[m] = s[p(m)]
  BY <1>1
<1>4. t[n] = x
  BY <1>1
<1>5. j = n <=> k = n
  BY <1>2, <1>3, <1>4
<1>6. CASE j # n /\ k # n
  <2>1. p(j) \in 1..Len(s) /\ p(k) \in 1..Len(s) /\ s[p(j)] = s[p(k)]
    BY <1>3, <1>6
  <2>2. p(j) = p(k)
    BY <2>1 DEF Distinct
  <2> QED
    BY <1>1, <1>6, <2>2
<1> QED
  BY <1>5, <1>6

\* Every step keeps the lists intact.
LEMMA ListsStep == IInv /\ [Next]_vars => ListsIntact'
<1> SUFFICES ASSUME IInv, [Next]_vars PROVE ListsIntact'
  OBVIOUS
<1>0. TypeOK /\ TypeOK' /\ ListByList
  BY TypeStep, ListByListIs DEF IInv
<1>1. ASSUME ListByList' PROVE ListsIntact'
  BY <1>0, <1>1, ListByListPrimed, Zenon
<1>2. /\ timer_list \in Seq(Info \cup Event) /\ pending_list \in Seq(Info \cup Event)
      /\ timer_list' \in Seq(Info \cup Event) /\ pending_list' \in Seq(Info \cup Event)
  BY <1>0, WiderList, Zenon DEF TypeOK
<1>3. Range(timer_list) \subseteq Info /\ Range(timer_list') \subseteq Info
  BY <1>0, RangeOfList, Zenon DEF TypeOK
<1>4. CASE Collect
  <2>1. Readies \subseteq Event
    BY <1>4, Collecting
  <2>2. PICK n \in 0..Len(timer_list), r \in Seq(Event) : Collected(n, r)
    BY <1>4, Collecting
  <2> DEFINE a == SubSeq(timer_list, 1, n)
  <2>3. a \in Seq(Info) /\ timer_list = a \o timer_list' /\ Range(pending_list') = Range(a) \cup Readies
    BY <2>2, CollectedLists
  <2>4. pending_list' = a \o r /\ Range(r) = Readies /\ Distinct(r)
    BY <2>2 DEF Collected
  <2> HIDE DEF a
  <2>5. a \in Seq(Info \cup Event) /\ r \in Seq(Info \cup Event) /\ Range(a) \subseteq Info
    BY <2>3, WiderList, RangeOfList, Zenon
  <2>6. Distinct(a) /\ Distinct(timer_list') /\ Apart(a, timer_list')
    BY <1>0, <1>2, <2>3, <2>5, ConcatDistinct, Zenon DEF ListByList
  <2>7. Range(timer_list) = Range(a) \cup Range(timer_list')
    BY <1>2, <2>3, <2>5, RangeOfJoined
  <2>8. Info \cap Event = {}
    BY EventAssumption
  <2>9. Distinct(pending_list')
    <3>1. Apart(a, r)
      BY <2>1, <2>4, <2>5, <2>8, ApartIs
    <3> QED
      BY <2>4, <2>5, <2>6, <3>1, ConcatDistinct
  <2>10. Apart(pending_list', timer_list')
    <3>1. Range(a) \cap Range(timer_list') = {}
      BY <1>2, <2>5, <2>6, ApartIs, Zenon
    <3>2. Range(pending_list') \cap Range(timer_list') = {}
      BY <1>3, <2>1, <2>3, <2>8, <3>1, Zenon
    <3> QED
      BY <1>2, <3>2, ApartIs
  <2>11. at' = "fire" /\ running' = running /\ kind' = kind /\ running = None
    BY <1>4 DEF Collect, IInv, Position, infos
  <2>12. \A i \in Info : i \in Range(pending_list') \/ i \in Range(timer_list') => kind[i] # None
    BY <1>0, <2>1, <2>3, <2>7, <2>8, Zenon DEF ListByList
  <2>13. None \notin Info
    BY EventAssumption
  <2> QED
    BY <1>1, <2>6, <2>9, <2>10, <2>11, <2>12, <2>13, ZenonT(30) DEF ListByList, Pending
<1>5. CASE FirePending
  <2>1. CASE pending_list = <<>>
    BY <1>5, <2>1, ListsKept, Zenon DEF FirePending, IInv, timers, infos
  <2>2. CASE pending_list # <<>>
    <3>1. /\ running' = Head(pending_list) /\ pending_list' = Tail(pending_list) /\ at' = "run"
          /\ timer_list' = timer_list /\ kind' = kind
      BY <1>5, <2>2, Zenon DEF FirePending, timers, infos
    <3>2. /\ Range(pending_list) = {running'} \cup Range(pending_list')
          /\ Distinct(pending_list') /\ running' \notin Range(pending_list')
      BY <1>0, <1>2, <2>2, <3>1, PopSeq, Zenon DEF ListByList
    <3>3. Range(pending_list) \cap Range(timer_list) = {}
      BY <1>0, <1>2, ApartIs, Zenon DEF ListByList
    <3>4. Apart(pending_list', timer_list')
      <4>1. Range(pending_list') \cap Range(timer_list') = {}
        BY <3>1, <3>2, <3>3, Zenon
      <4>2. pending_list' \in Seq(Info \cup Event) /\ timer_list' \in Seq(Info \cup Event)
        BY <1>2, <2>2, <3>1, PopSeq, Zenon
      <4> QED
        BY <4>1, <4>2, ApartIs
    <3>5. running' \notin Range(timer_list')
      BY <3>1, <3>2, <3>3, ZenonT(30)
    <3> QED
      BY <1>0, <1>1, <3>1, <3>2, <3>4, <3>5, Zenon DEF ListByList, Pending
  <2> QED
    BY <2>1, <2>2
<1>6. ASSUME NEW t \in Thread, NEW i \in Info, NEW d \in 0..MaxDelay, Schedule(t, i, d)
      PROVE  ListsIntact'
  <2>1. PICK k \in 1..(Len(timer_list) + 1) : timer_list' = Insert(timer_list, k, i)
    BY <1>6, Zenon DEF Schedule, Insert
  <2>2. /\ pending_list' = pending_list /\ running' = running /\ at' = at /\ watch_table' = watch_table
        /\ kind[i] = None /\ task[t].cb \in {"user", "wake"} /\ kind' = [kind EXCEPT ![i] = task[t].cb]
    BY <1>0, <1>6, Zenon DEF Schedule, TypeOK, TaskTypeOK, table
  <2>3. i # running /\ i \notin Range(pending_list) /\ i \notin Range(timer_list)
    BY <1>0, <2>2, Zenon DEF ListByList, Pending
  <2>4. Range(timer_list') = Range(timer_list) \cup {i} /\ Distinct(timer_list')
    <3>1. timer_list \in Seq(Info) /\ Distinct(timer_list)
      BY <1>0, Zenon DEF TypeOK, ListByList
    <3>2. Range(Insert(timer_list, k, i)) = Range(timer_list) \cup {i}
      BY <3>1, InsertSeq
    <3>3. Distinct(Insert(timer_list, k, i))
      BY <2>3, <3>1, InsertDistinct, Zenon
    <3> QED
      BY <2>1, <3>2, <3>3
  <2>5. Apart(pending_list', timer_list')
    <3>1. Range(pending_list) \cap Range(timer_list) = {}
      BY <1>0, <1>2, ApartIs, Zenon DEF ListByList
    <3>2. Range(pending_list') \cap Range(timer_list') = {}
      BY <2>2, <2>3, <2>4, <3>1
    <3> QED
      BY <1>2, <3>2, ApartIs, Zenon
  <2>6. \A j \in Info : kind[j] # None \/ j = i => kind'[j] # None
    BY <1>0, <2>2, EventAssumption, Zenon DEF TypeOK
  <2> QED
    BY <1>0, <1>1, <2>2, <2>3, <2>4, <2>5, <2>6, Zenon DEF ListByList, Pending

<1>7. CASE FreeInfo
  <2>1. /\ UNCHANGED <<pending_list, timer_list>> /\ running \in Info /\ running' = None /\ at' = "fire"
        /\ kind' = [kind EXCEPT ![running] = None]
    BY <1>7 DEF FreeInfo, IInv, Position
  <2>2. running # None /\ None \notin Info
    BY <2>1, EventAssumption, Zenon
  <2>3. \A i \in Info : i # running => kind'[i] = kind[i]
    BY <1>0, <2>1, Zenon DEF TypeOK
  <2> QED
    BY <1>0, <1>1, <2>1, <2>2, <2>3, Zenon DEF ListByList, Pending
<1>8. ASSUME NEW f \in CommandFd, ListenCallbackAccepts(f) PROVE ListsIntact'
  <2>1. index["commands"] = 0
    BY <1>8 DEF IInv, OneListener, ListenCallbackAccepts
  <2>2. ~Pending("commands")
    BY <2>1 DEF IInv, StillWatched, Event, OneShot
  <2>3. "commands" \notin Watched(watch_table)
    BY <2>1, WatchedIndex DEF IInv, Event
  <2>4. UNCHANGED <<pending_list, timer_list, kind, running, watch_table>>
    BY <1>8, Zenon DEF ListenCallbackAccepts, timers, infos
  <2> QED
    BY <1>0, <1>1, <2>2, <2>3, <2>4, Zenon DEF ListByList, Pending, Watched
<1>9. CASE \/ CreatePipe \/ ListenCallbackRefuses \/ Relisten \/ WatchCommands \/ CommandsClosed
  BY <1>9, ListsKept, Zenon DEF IInv, CreatePipe, ListenCallbackRefuses, Relisten, WatchCommands,
     CommandsClosed, timers, infos
<1>10. CASE Register
  <2>1. /\ UNCHANGED <<pending_list, timer_list, kind, running>> /\ at' = at
    BY <1>10, Zenon DEF Register, RegisterAdd, timers, infos
  <2>2. \/ Watched(watch_table') = Watched(watch_table) \cup {"listen"}
        \/ Watched(watch_table') = Watched(watch_table) \cup {"debug"}
    BY <1>10, Adding DEF Register, Added
  <2>3. "commands" \notin Watched(watch_table) => "commands" \notin Watched(watch_table')
    BY <2>2
  <2> HIDE DEF Watched
  <2> QED
    BY <1>0, <1>1, <2>1, <2>3 DEF ListByList, Pending
<1>11. CASE PrepareSelect \/ Select \/ SelectFails \/ SelectInterrupted \/ Tick
  BY <1>11, ListsKept DEF IInv, PrepareSelect, Select, SelectFails, SelectInterrupted, Tick,
     table, timers, infos
<1>12. CASE \/ WakeupCallback \/ CommandsCallback \/ DebugCallback \/ TimerCallback
            \/ CallbackReturns \/ ClearLastWake
  BY <1>12, ListsKept, Zenon DEF IInv, WakeupCallback, CommandsCallback, DebugCallback, TimerCallback,
     CallbackReturns, ClearLastWake, timers, infos
<1>13. ASSUME NEW t \in Thread, RequestTimedCallback(t) \/ OnUnsolicitedResponse(t)
       PROVE  ListsIntact'
  BY <1>13, ListsKept, Zenon DEF IInv, RequestTimedCallback, OnUnsolicitedResponse, Start, table, timers, infos
<1>14. ASSUME NEW t \in Thread,
              ErrorExit(t) \/ SendAndCheck(t) \/ ReadAgain(t) \/ CancelPrevious(t) \/ StoreLastWake(t)
       PROVE  ListsIntact'
  <2>1. CASE ReadAgain(t)
    BY <2>1, ListsKept, ZenonT(30) DEF IInv, ReadAgain, table, timers, infos
  <2>2. CASE ErrorExit(t) \/ SendAndCheck(t) \/ CancelPrevious(t) \/ StoreLastWake(t)
    BY <2>2, ListsKept, Zenon DEF IInv, ErrorExit, SendAndCheck, CancelPrevious, StoreLastWake, table, timers, infos
  <2> QED
    BY <1>14, <2>1, <2>2
<1>15. ASSUME NEW e \in Event, BecomeReady(e) PROVE ListsIntact'
  BY <1>15, ListsKept DEF IInv, BecomeReady, table, timers, infos
<1>16. CASE UNCHANGED vars
  BY <1>16, ListsKept, ZenonT(30) DEF IInv, vars, table, timers, infos
<1> QED
  BY <1>4, <1>5, <1>6, <1>7, <1>8, <1>9, <1>10, <1>11, <1>12, <1>13, <1>14, <1>15, <1>16, ZenonT(30)
     DEF Next, LoopStep, TaskStep

-----------------------------------------------------------------------------
(* Every step keeps the timers ordered. *)

\* What is on the timer list has a time.
LEMMA TimersTimed ==
    ASSUME IInv
    PROVE  /\ \A j \in 1..Len(timer_list) :
                 timer_list[j] \in Info /\ left[timer_list[j]] \in -1..MaxDelay
           /\ \A i \in Range(timer_list) : kind[i] # None
<1>1. ListByList /\ TypeOK /\ TimersOrdered
  BY ListByListIs DEF IInv
<1>2. timer_list \in Seq(Info) /\ Range(timer_list) = {timer_list[j] : j \in 1..Len(timer_list)}
  <2>1. timer_list \in Seq(Info)
    BY <1>1 DEF TypeOK
  <2> QED
    BY <2>1, RangeIs, Zenon
<1>3. \A j \in 1..Len(timer_list) : timer_list[j] \in Info
  BY <1>2
<1>4. \A i \in Range(timer_list) : kind[i] # None
  BY <1>1, <1>2, <1>3, Zenon DEF ListByList
<1> QED
  BY <1>1, <1>2, <1>3, <1>4 DEF TimersOrdered, TypeOK

\* Every step keeps timer_list in the order of the times to go.
LEMMA TimersStep == IInv /\ [Next]_vars => TimersOrdered'
<1> SUFFICES ASSUME IInv, [Next]_vars PROVE TimersOrdered'
  OBVIOUS
<1>0. TypeOK /\ TypeOK' /\ ListByList /\ TimersOrdered
  BY TypeStep, ListByListIs DEF IInv
<1>1. /\ timer_list \in Seq(Info) /\ Len(timer_list) \in Nat
      /\ pending_list \in Seq(Info \cup Event) /\ Len(pending_list) \in Nat
      /\ left \in [Info -> -1..MaxDelay \cup {None}]
  <2>1. /\ timer_list \in Seq(Info) /\ pending_list \in Seq(Info \cup Event)
        /\ left \in [Info -> -1..MaxDelay \cup {None}]
    BY <1>0, Zenon DEF TypeOK
  <2> QED
    BY <2>1
<1>2. MaxDelay \in Nat /\ None \notin Int /\ None \notin Info /\ Info \cap Event = {}
  BY EventAssumption, Zenon
<1>3. CASE Collect
  <2>1. PICK n \in 0..Len(timer_list), r \in Seq(Event) : Collected(n, r)
    BY <1>3, Collecting
  <2>2. UNCHANGED <<left, kind>>
    BY <1>3, Zenon DEF Collect, infos
  <2>3. /\ Len(timer_list') = Len(timer_list) - n
        /\ \A j \in 1..Len(timer_list') : timer_list'[j] = timer_list[n + j]
        /\ Len(pending_list') = n + Len(r) /\ pending_list' \in Seq(Info \cup Event)
        /\ \A j \in 1..n : pending_list'[j] = timer_list[j]
        /\ \A j \in 1..Len(r) : pending_list'[n + j] = r[j]
    BY <2>1, CollectedLists, ZenonT(30)
  <2>4. \A j, k \in 1..Len(timer_list') : j < k => left'[timer_list'[j]] <= left'[timer_list'[k]]
    <3> SUFFICES ASSUME NEW j \in 1..Len(timer_list'), NEW k \in 1..Len(timer_list'), j < k
                 PROVE  left[timer_list[n + j]] <= left[timer_list[n + k]]
      BY <2>2, <2>3, Zenon
    <3>1. n + j \in 1..Len(timer_list) /\ n + k \in 1..Len(timer_list) /\ n + j < n + k
      <4>1. Len(timer_list) \in Nat /\ Len(timer_list') = Len(timer_list) - n
        BY <1>1, <2>3, Zenon
      <4> QED
        BY <4>1
    <3> QED
      BY <1>0, <3>1 DEF TimersOrdered
  <2>5. \A k \in 1..Len(pending_list') : k <= n => pending_list'[k] \in Info /\ left[pending_list'[k]] = -1
    <3> SUFFICES ASSUME NEW k \in 1..Len(pending_list'), k <= n
                 PROVE  pending_list'[k] \in Info /\ left[pending_list'[k]] = -1
      OBVIOUS
    <3>1. k \in 1..Len(timer_list) /\ k \in 1..n
      BY <1>1
    <3>2. left[timer_list[k]] \in -1..MaxDelay /\ left[timer_list[k]] < 0 /\ timer_list[k] \in Info
      BY <2>1, <3>1, TimersTimed, ZenonT(30) DEF Collected, Expired
    <3>3. left[timer_list[k]] = -1
      BY <1>2, <3>2
    <3> QED
      BY <2>3, <3>1, <3>2, <3>3, Zenon
  <2>6. \A k \in 1..Len(pending_list') : ~(k <= n) => pending_list'[k] \notin Info
    <3> SUFFICES ASSUME NEW k \in 1..Len(pending_list'), ~(k <= n) PROVE pending_list'[k] \notin Info
      OBVIOUS
    <3>1. k - n \in 1..Len(r) /\ n + (k - n) = k
      BY <1>1, <2>3
    <3>2. pending_list'[k] = r[k - n]
      BY <2>3, <3>1, Zenon
    <3>3. r[k - n] \in Event
      BY <3>1
    <3> QED
      BY <1>2, <3>2, <3>3, Zenon
  <2>7. \E m \in 0..Len(pending_list') : TimersFirst(pending_list', m)
    <3>1. n \in 0..Len(pending_list')
      BY <2>3
    <3>2. TimersFirst(pending_list', n)
      BY <2>5, <2>6 DEF TimersFirst
    <3> QED
      BY <3>1, <3>2, Zenon
  <2>8. \A i \in Info : i \in Range(pending_list') => left[i] = -1
    <3>1. Range(pending_list') = {pending_list'[k] : k \in 1..Len(pending_list')}
      <4>1. pending_list' \in Seq(Info \cup Event)
        BY <2>3
      <4> QED
        BY <4>1, RangeIs, Zenon
    <3> QED
      BY <2>5, <2>6, <3>1, Zenon
  <2> QED
    BY <1>0, <2>2, <2>4, <2>7, <2>8, Zenon DEF TimersOrdered, Pending
<1>4. CASE FirePending
  <2>1. CASE pending_list = <<>>
    BY <1>0, <1>4, <2>1, TimersKept, Zenon DEF FirePending, timers, infos
  <2>2. CASE pending_list # <<>>
    <3>1. pending_list' = Tail(pending_list) /\ UNCHANGED <<timer_list, left, kind>>
      BY <1>4, <2>2 DEF FirePending, timers, infos
    <3>2. /\ Range(pending_list') \subseteq Range(pending_list)
          /\ Len(pending_list') = Len(pending_list) - 1 /\ Len(pending_list) >= 1
          /\ \A j \in 1..(Len(pending_list) - 1) : pending_list'[j] = pending_list[j + 1]
      BY <1>1, <2>2, <3>1, PopSeq
    <3>3. PICK n \in 0..Len(pending_list) : TimersFirst(pending_list, n)
      BY <1>0 DEF TimersOrdered
    <3> DEFINE m == IF n = 0 THEN 0 ELSE n - 1
    <3>4. m \in 0..Len(pending_list')
      BY <1>1, <3>2
    <3>5. \A k \in 1..Len(pending_list') : pending_list'[k] \in Info <=> k <= m
      <4> SUFFICES ASSUME NEW k \in 1..Len(pending_list')
                   PROVE  pending_list'[k] \in Info <=> k <= m
        OBVIOUS
      <4>1. k + 1 \in 1..Len(pending_list) /\ pending_list'[k] = pending_list[k + 1]
        BY <1>1, <3>2
      <4>2. pending_list[k + 1] \in Info <=> k + 1 <= n
        BY <3>3, <4>1 DEF TimersFirst
      <4>3. k + 1 <= n <=> k <= m
        BY <1>1, <3>2
      <4> QED
        BY <4>1, <4>2, <4>3, Zenon
    <3> HIDE DEF m
    <3>6. \E k \in 0..Len(pending_list') : TimersFirst(pending_list', k)
      BY <3>4, <3>5, Zenon DEF TimersFirst
    <3> QED
      BY <1>0, <3>1, <3>2, <3>6, Zenon DEF TimersOrdered, Pending
  <2> QED
    BY <2>1, <2>2
<1>5. ASSUME NEW t \in Thread, NEW i \in Info, NEW d \in 0..MaxDelay, Schedule(t, i, d)
      PROVE  TimersOrdered'
  <2>1. PICK k \in 1..(Len(timer_list) + 1) :
           Place(k, d) /\ timer_list' = Insert(timer_list, k, i)
    BY <1>5, ZenonT(30) DEF Schedule, Insert
  <2>2. /\ pending_list' = pending_list /\ kind[i] = None
        /\ kind' = [kind EXCEPT ![i] = task[t].cb] /\ left' = [left EXCEPT ![i] = d]
    BY <1>5, ZenonT(30) DEF Schedule
  <2>3. ~Pending(i) /\ i \notin Range(timer_list)
    BY <1>0, <2>2, Zenon DEF ListByList
  <2>4. left'[i] = d /\ \A x \in Info : x # i => left'[x] = left[x]
    BY <1>1, <2>2
  <2>5. /\ Len(timer_list') = Len(timer_list) + 1
        /\ \A j \in 1..(Len(timer_list) + 1) :
              timer_list'[j] = IF j < k THEN timer_list[j] ELSE IF j = k THEN i ELSE timer_list[j - 1]
    <3>1. timer_list \in Seq(Info) /\ timer_list' = Insert(timer_list, k, i)
      BY <1>1, <2>1
    <3>2. Inserted(timer_list, k, i, timer_list')
      BY <3>1, InsertedSeq, Zenon
    <3> QED
      BY <3>2, Zenon DEF Inserted
  <2>6. \A j \in 1..Len(timer_list) :
           timer_list[j] \in Info /\ timer_list[j] # i /\ left[timer_list[j]] \in -1..MaxDelay
    <3>1. \A j \in 1..Len(timer_list) : timer_list[j] \in Info /\ left[timer_list[j]] \in -1..MaxDelay
      BY TimersTimed, Zenon
    <3>2. timer_list \in Seq(Info) /\ i \notin Range(timer_list)
      BY <1>1, <2>3, Zenon
    <3>3. \A j \in 1..Len(timer_list) : timer_list[j] # i
      BY <3>2, RangeIs
    <3> QED
      BY <3>1, <3>3, Zenon
  <2>7. \A j \in 1..(Len(timer_list) + 1) :
           left'[timer_list'[j]] = IF j < k THEN left[timer_list[j]]
                                   ELSE IF j = k THEN d ELSE left[timer_list[j - 1]]
    <3> SUFFICES ASSUME NEW j \in 1..(Len(timer_list) + 1)
                 PROVE  left'[timer_list'[j]] = IF j < k THEN left[timer_list[j]]
                                                ELSE IF j = k THEN d ELSE left[timer_list[j - 1]]
      BY Zenon
    <3>1. CASE j < k
      <4>1. j \in 1..Len(timer_list)
        BY <1>1, <3>1
      <4> QED
        BY <2>4, <2>5, <2>6, <3>1, <4>1, Zenon
    <3>2. CASE j = k
      BY <2>4, <2>5, <3>2
    <3>3. CASE j > k
      <4>1. j - 1 \in 1..Len(timer_list) /\ ~(j < k) /\ j # k
        BY <1>1, <3>3
      <4> QED
        BY <2>4, <2>5, <2>6, <4>1, Zenon
    <3>4. j < k \/ j = k \/ j > k
      BY <1>1
    <3> QED
      BY <3>1, <3>2, <3>3, <3>4, Zenon
  <2>8. \A j \in 1..Len(timer_list) : j < k => left[timer_list[j]] <= d
    <3> SUFFICES ASSUME NEW j \in 1..Len(timer_list), j < k PROVE left[timer_list[j]] <= d
      OBVIOUS
    <3>1. j \in 1..(k - 1)
      BY <1>1
    <3>2. left[timer_list[j]] < d
      BY <2>1, <3>1, Zenon DEF Place
    <3> QED
      BY <1>2, <2>6, <3>2
  <2>9. \A j \in 1..Len(timer_list) : j >= k => left[timer_list[j]] >= d
    <3> SUFFICES ASSUME NEW j \in 1..Len(timer_list), j >= k PROVE left[timer_list[j]] >= d
      OBVIOUS
    <3>1. k \in 1..Len(timer_list) /\ left[timer_list[k]] >= d
      BY <1>1, <2>1 DEF Place
    <3>2. left[timer_list[k]] <= left[timer_list[j]]
      <4>1. CASE j = k
        BY <1>2, <2>6, <3>1, <4>1
      <4>2. CASE j # k
        <5>1. k < j
          BY <1>1, <3>1, <4>2
        <5> QED
          BY <1>0, <3>1, <5>1 DEF TimersOrdered
      <4> QED
        BY <4>1, <4>2, Zenon
    <3>3. left[timer_list[k]] \in Int /\ left[timer_list[j]] \in Int
      BY <1>2, <2>6, <3>1
    <3> QED
      BY <3>1, <3>2, <3>3
  <2>10. ASSUME NEW a \in 1..Len(timer_list'), NEW b \in 1..Len(timer_list'), a < b
         PROVE  left'[timer_list'[a]] <= left'[timer_list'[b]]
    <3> DEFINE l(j) == left[timer_list[j]]
    <3>1. /\ \A x, y \in 1..Len(timer_list) : x < y => l(x) <= l(y)
          /\ \A x \in 1..Len(timer_list) : l(x) \in Int
      BY <1>0, <1>2, <2>6 DEF TimersOrdered
    <3>2. /\ left'[timer_list'[a]] = IF a < k THEN l(a) ELSE IF a = k THEN d ELSE l(a - 1)
          /\ left'[timer_list'[b]] = IF b < k THEN l(b) ELSE IF b = k THEN d ELSE l(b - 1)
      BY <2>5, <2>7, Zenon
    <3>3. /\ \A j \in 1..Len(timer_list) : j < k => l(j) <= d
          /\ \A j \in 1..Len(timer_list) : j >= k => l(j) >= d
      BY <2>8, <2>9, Zenon
    <3> HIDE DEF l
    <3>4. a \in 1..(Len(timer_list) + 1) /\ b \in 1..(Len(timer_list) + 1)
      BY <2>5, Zenon
    <3>5. CASE b < k
      <4>1. a < k /\ a \in 1..Len(timer_list) /\ b \in 1..Len(timer_list)
        BY <1>1, <2>10, <3>4, <3>5
      <4> QED
        BY <2>10, <3>1, <3>2, <3>5, <4>1, Zenon
    <3>6. CASE b = k
      <4>1. a < k /\ a \in 1..Len(timer_list)
        BY <1>1, <2>10, <3>4, <3>6
      <4> QED
        BY <3>2, <3>3, <3>6, <4>1
    <3>7. CASE b > k
      <4>1. b - 1 \in 1..Len(timer_list) /\ b - 1 >= k /\ ~(b < k) /\ b # k
        BY <1>1, <3>4, <3>7
      <4>2. left'[timer_list'[b]] = l(b - 1)
        BY <3>2, <4>1
      <4>3. CASE a < k
        <5>1. a \in 1..Len(timer_list) /\ a < b - 1
          BY <1>1, <3>4, <4>1, <4>3
        <5> QED
          BY <3>1, <3>2, <4>1, <4>2, <4>3, <5>1, Zenon
      <4>4. CASE a = k
        <5>1. l(b - 1) >= d /\ left'[timer_list'[a]] = d
          BY <3>2, <3>3, <4>1, <4>4
        <5> QED
          BY <4>2, <5>1, Zenon
      <4>5. CASE a > k
        <5>1. a - 1 \in 1..Len(timer_list) /\ a - 1 < b - 1 /\ ~(a < k) /\ a # k
          BY <1>1, <2>10, <3>4, <4>1, <4>5
        <5> QED
          BY <3>1, <3>2, <4>1, <4>2, <5>1, Zenon
      <4>6. a < k \/ a = k \/ a > k
        BY <1>1, <3>4
      <4> QED
        BY <4>3, <4>4, <4>5, <4>6, Zenon
    <3> QED
      BY <1>1, <3>4, <3>5, <3>6, <3>7
  <2>11. \A x \in Info : kind'[x] # None => left'[x] # None
    <3>1. \A x \in Info : x # i => kind'[x] = kind[x]
      <4>1. kind \in [Info -> {"user", "wake", None}]
        BY <1>0 DEF TypeOK
      <4> QED
        BY <2>2, <4>1, ZenonT(30)
    <3>2. d # None
      BY <1>2
    <3>3. \A x \in Info : kind[x] # None => left[x] # None
      BY <1>0 DEF TimersOrdered
    <3> QED
      BY <2>4, <3>1, <3>2, <3>3, Zenon
  <2>12. \A x \in Info : Pending(x) => left'[x] = -1
    BY <1>0, <2>3, <2>4, ZenonT(30) DEF TimersOrdered
  <2> QED
    BY <1>0, <2>2, <2>10, <2>11, <2>12, Zenon DEF TimersOrdered, Pending
<1>6. CASE FreeInfo
  <2>1. /\ UNCHANGED <<pending_list, timer_list>> /\ running \in Info
        /\ kind' = [kind EXCEPT ![running] = None] /\ left' = [left EXCEPT ![running] = None]
    BY <1>6 DEF FreeInfo, IInv, Position
  <2>2. ~Pending(running) /\ \A j \in 1..Len(timer_list) : timer_list[j] # running
    <3>1. ~Pending(running) /\ running \notin Range(timer_list)
      <4>1. running # None
        BY <1>2, <2>1, ZenonT(30)
      <4> QED
        BY <1>0, <4>1, Zenon DEF ListByList
    <3>2. \A j \in 1..Len(timer_list) : timer_list[j] # running
      BY <1>1, <3>1, RangeIs, Zenon
    <3> QED
      BY <3>1, <3>2, Zenon
  <2>3. \A x \in Info : x # running => left'[x] = left[x] /\ kind'[x] = kind[x]
    BY <1>0, <2>1, Zenon DEF TypeOK
  <2>4. kind'[running] = None
    BY <1>0, <2>1, Zenon DEF TypeOK
  <2>5. \A j \in 1..Len(timer_list) : left'[timer_list[j]] = left[timer_list[j]]
    BY <2>2, <2>3, TimersTimed, Zenon
  <2> QED
    <3>1. \A j, k \in 1..Len(timer_list') : j < k => left'[timer_list'[j]] <= left'[timer_list'[k]]
      <4>1. /\ \A j, k \in 1..Len(timer_list) : j < k => left[timer_list[j]] <= left[timer_list[k]]
            /\ timer_list' = timer_list
        BY <1>0, <2>1, Zenon DEF TimersOrdered
      <4> QED
        BY <2>5, <4>1, Zenon
    <3>2. \A x \in Info : kind'[x] # None => left'[x] # None
      BY <1>0, <2>3, <2>4, Zenon DEF TimersOrdered
    <3>3. \A x \in Info : Pending(x)' => left'[x] = -1
      BY <1>0, <2>1, <2>2, <2>3, Zenon DEF TimersOrdered, Pending
    <3>4. \E n \in 0..Len(pending_list') : TimersFirst(pending_list', n)
      BY <1>0, <2>1 DEF TimersOrdered
    <3> QED
      BY <3>1, <3>2, <3>3, <3>4, Zenon DEF TimersOrdered
<1>7. CASE Tick
  <2>1. /\ UNCHANGED <<pending_list, timer_list, kind>> /\ pending_list = <<>>
        /\ left' = [i \in Info |-> IF left[i] \in {None, -1} THEN left[i] ELSE left[i] - 1]
    BY <1>7, Zenon DEF Tick, IInv, Position, infos
  <2>2. Range(pending_list) = {}
    BY <2>1 DEF Range
  <2>3. \A j, k \in 1..Len(timer_list) : j < k => left'[timer_list[j]] <= left'[timer_list[k]]
    <3> SUFFICES ASSUME NEW j \in 1..Len(timer_list), NEW k \in 1..Len(timer_list), j < k
                 PROVE  left'[timer_list[j]] <= left'[timer_list[k]]
      BY Zenon
    <3>1. left[timer_list[j]] <= left[timer_list[k]]
      BY <1>0, Zenon DEF TimersOrdered
    <3>2. /\ left[timer_list[j]] \in -1..MaxDelay /\ left[timer_list[k]] \in -1..MaxDelay
          /\ timer_list[j] \in Info /\ timer_list[k] \in Info
      BY TimersTimed, Zenon
    <3>3. \A i \in Info : left[i] \in -1..MaxDelay =>
             left'[i] = IF left[i] = -1 THEN -1 ELSE left[i] - 1
      BY <1>2, <2>1
    <3> QED
      BY <1>2, <3>1, <3>2, <3>3, SMTT(30)
  <2>4. \A i \in Info : left[i] # None => left'[i] # None
    BY <1>1, <1>2, <2>1
  <2> QED
    BY <1>0, <2>1, <2>2, <2>3, <2>4, Zenon DEF TimersOrdered, Pending
<1> USE DEF timers, infos
<1>8. CASE \/ CreatePipe \/ ListenCallbackRefuses \/ Relisten \/ WatchCommands \/ CommandsClosed
           \/ Register
  BY <1>0, <1>8, TimersKept, Zenon DEF CreatePipe, ListenCallbackRefuses, Relisten, WatchCommands,
     CommandsClosed, Register, RegisterAdd
<1>9. ASSUME NEW f \in CommandFd, ListenCallbackAccepts(f) PROVE TimersOrdered'
  BY <1>0, <1>9, TimersKept, Zenon DEF ListenCallbackAccepts
<1>10. CASE PrepareSelect \/ Select \/ SelectFails \/ SelectInterrupted
  BY <1>0, <1>10, TimersKept, Zenon DEF PrepareSelect, Select, SelectFails, SelectInterrupted
<1>11. CASE \/ WakeupCallback \/ CommandsCallback \/ DebugCallback \/ TimerCallback
            \/ CallbackReturns \/ ClearLastWake
  BY <1>0, <1>11, TimersKept, ZenonT(30) DEF WakeupCallback, CommandsCallback, DebugCallback, TimerCallback,
     CallbackReturns, ClearLastWake
<1>12. ASSUME NEW t \in Thread,
              \/ RequestTimedCallback(t) \/ OnUnsolicitedResponse(t)
              \/ ErrorExit(t) \/ SendAndCheck(t) \/ ReadAgain(t) \/ CancelPrevious(t) \/ StoreLastWake(t)
       PROVE  TimersOrdered'
  BY <1>0, <1>12, TimersKept, Zenon DEF RequestTimedCallback, OnUnsolicitedResponse, ErrorExit,
     SendAndCheck, ReadAgain, CancelPrevious, StoreLastWake
<1>13. ASSUME NEW e \in Event, BecomeReady(e) PROVE TimersOrdered'
  BY <1>0, <1>13, TimersKept, Zenon DEF BecomeReady
<1>14. CASE UNCHANGED vars
  BY <1>0, <1>14, TimersKept DEF vars
<1> QED
  BY <1>3, <1>4, <1>5, <1>6, <1>7, <1>8, <1>9, <1>10, <1>11, <1>12, <1>13, <1>14, ZenonT(30)
     DEF Next, LoopStep, TaskStep
=============================================================================
