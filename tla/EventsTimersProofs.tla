------------------------ MODULE EventsTimersProofs ------------------------
(***************************************************************************)
(* Two lists from which a callback may remove at any place while the code  *)
(* that called it walks them: the queue of timers, walked live by forEach, *)
(* and the listeners of a target, walked in a copy.  Both arguments need   *)
(* what RemoveAt keeps.                                                    *)
(*                                                                         *)
(* Timers: the queue stays sorted, a timer in it keeps the uv timer armed, *)
(* and only live timers are started, for any timeouts, any number of       *)
(* timers and any lag.                                                     *)
(*                                                                         *)
(* Events: EachInTurn holds for any callbacks, events and bounds.          *)
(***************************************************************************)
EXTENDS Events, Timers, FiniteSetTheorems, TLAPS

-----------------------------------------------------------------------------
(* Timers: the inductive invariant.                                           *)

SortedQueue(q) == \A i, j \in DOMAIN q : i < j => ~Before(q[j], q[i])

OneOfEach(q) == \A i, j \in DOMAIN q : q[i].id = q[j].id => i = j

\* A timer in the queue was set and not cleared, and if it ran it is an interval.
Live(q) == \A i \in DOMAIN q :
    /\ q[i].id < timerId
    /\ q[i].id \notin cleared
    /\ q[i].id \in started => q[i].repeat

Known == \A id \in cleared \cup started : id < timerId

TimersInvariant ==
    /\ TypeOK
    /\ Len(queue) <= timerId
    /\ SortedQueue(queue)
    /\ OneOfEach(queue)
    /\ Live(queue)
    /\ Known
    /\ Armed

-----------------------------------------------------------------------------
(* Sequences.                                                                 *)

\* Removing a place keeps the others, in order.
LEMMA RemoveAtFacts ==
    ASSUME NEW S, NEW s \in Seq(S), NEW i \in DOMAIN s
    PROVE  /\ RemoveAt(s, i) \in Seq(S)
           /\ Len(RemoveAt(s, i)) = Len(s) - 1
           /\ \A k \in 1..(Len(s) - 1) :
                 RemoveAt(s, i)[k] = IF k < i THEN s[k] ELSE s[k + 1]
<1> DEFINE before == SubSeq(s, 1, i - 1)
           after == SubSeq(s, i + 1, Len(s))
<1>1. i \in 1..Len(s) /\ Len(s) \in Nat
      OBVIOUS
<1>2. before \in Seq(S) /\ Len(before) = i - 1 /\ \A k \in 1..(i - 1) : before[k] = s[k]
      BY <1>1
<1>3. /\ after \in Seq(S) /\ Len(after) = Len(s) - i
      /\ \A k \in 1..(Len(s) - i) : after[k] = s[i + k]
      BY <1>1
<1> HIDE DEF before, after
<1>4. before \o after \in Seq(S) /\ Len(before \o after) = Len(s) - 1
      BY <1>1, <1>2, <1>3
<1>5. \A k \in 1..(Len(s) - 1) :
         (before \o after)[k] = IF k < i THEN s[k] ELSE s[k + 1]
      BY <1>1, <1>2, <1>3
<1>6. RemoveAt(s, i) = before \o after
      BY DEF RemoveAt, before, after
<1> QED BY <1>4, <1>5, <1>6

\* Inserting moves what comes from that place on by one.
LEMMA InsertAtFacts ==
    ASSUME NEW S, NEW s \in Seq(S), NEW i \in 1..(Len(s) + 1), NEW e \in S
    PROVE  /\ InsertAt(s, i, e) \in Seq(S)
           /\ Len(InsertAt(s, i, e)) = Len(s) + 1
           /\ \A k \in 1..(Len(s) + 1) :
                 InsertAt(s, i, e)[k] = IF k < i THEN s[k]
                                        ELSE IF k = i THEN e ELSE s[k - 1]
<1> DEFINE before == SubSeq(s, 1, i - 1)
           after == SubSeq(s, i, Len(s))
<1>1. Len(s) \in Nat
      OBVIOUS
<1>2. before \in Seq(S) /\ Len(before) = i - 1 /\ \A k \in 1..(i - 1) : before[k] = s[k]
      BY <1>1
<1>3. /\ after \in Seq(S) /\ Len(after) = Len(s) - i + 1
      /\ \A k \in 1..(Len(s) - i + 1) : after[k] = s[i + k - 1]
      BY <1>1
<1> HIDE DEF before, after
<1> DEFINE front == before \o <<e>>
<1>4. /\ front \in Seq(S) /\ Len(front) = i
      /\ \A k \in 1..i : front[k] = IF k < i THEN s[k] ELSE e
      BY <1>1, <1>2
<1> HIDE DEF front
<1>5. front \o after \in Seq(S) /\ Len(front \o after) = Len(s) + 1
      BY <1>1, <1>3, <1>4
<1>6. \A k \in 1..(Len(s) + 1) :
         (front \o after)[k] = IF k < i THEN s[k] ELSE IF k = i THEN e ELSE s[k - 1]
      BY <1>1, <1>3, <1>4, SMTT(30)
<1>7. InsertAt(s, i, e) = front \o after
      BY DEF InsertAt, front, before, after
<1> QED BY <1>5, <1>6, <1>7

\* A set of places that has, with each, all that come before it, is an interval.
LEMMA InitialPlaces ==
    ASSUME NEW n \in Nat, NEW D \in SUBSET (1..n),
           \A j \in D : \A i \in 1..n : i < j => i \in D
    PROVE  Cardinality(D) \in 0..n /\ D = 1..Cardinality(D)
<1> DEFINE c == Cardinality(D)
<1>1. IsFiniteSet(1..n) /\ Cardinality(1..n) = n
      BY FS_Interval
<1>2. IsFiniteSet(D) /\ c \in Nat /\ c <= n
      BY <1>1, FS_Subset, FS_CardinalityType
<1>3. IsFiniteSet(1..c) /\ Cardinality(1..c) = c
      BY <1>2, FS_Interval
<1>4. D \subseteq 1..c
  <2>1. SUFFICES ASSUME NEW j \in D, j > c
                 PROVE  FALSE
        BY <1>2
  <2>2. 1..j \subseteq D
        OBVIOUS
  <2>3. Cardinality(1..j) = j
        BY FS_Interval
  <2>4. j <= c
        BY <2>2, <2>3, <1>2, FS_Subset
  <2> QED BY <2>1, <2>4, <1>2
<1>5. D = 1..c
      BY <1>3, <1>4, FS_Subset
<1> QED BY <1>2, <1>5

\* The comparator is a strict order.
LEMMA BeforeOrder ==
    ASSUME NEW a \in Items, NEW b \in Items, NEW c \in Items
    PROVE  /\ ~Before(a, a)
           /\ Before(a, b) => ~Before(b, a)
           /\ ~Before(b, a) /\ Before(b, c) => Before(a, c)
           /\ ~Before(b, a) => a.expiry <= b.expiry
<1>1. \A item \in Items : item.expiry \in Int /\ item.id \in Int
      BY TimersAssumption DEF Items, Ids
<1> QED BY <1>1 DEF Before

\* Where insert puts an item: behind those that come before it and no others.
LEMMA InsertFacts ==
    ASSUME NEW q \in Seq(Items), SortedQueue(q), NEW item \in Items
    PROVE  LET before == {i \in DOMAIN q : Before(q[i], item)}
               r == InsertAt(q, Cardinality(before) + 1, item)
           IN  /\ r \in Seq(Items)
               /\ Len(r) = Len(q) + 1
               /\ \E k \in 1..(Len(q) + 1) :
                     /\ \A j \in 1..(Len(q) + 1) :
                           r[j] = IF j < k THEN q[j] ELSE IF j = k THEN item ELSE q[j - 1]
                     /\ \A j \in 1..Len(q) : j < k <=> Before(q[j], item)
<1> DEFINE before == {i \in DOMAIN q : Before(q[i], item)}
           k == Cardinality(before) + 1
<1>1. Len(q) \in Nat /\ DOMAIN q = 1..Len(q) /\ \A i \in DOMAIN q : q[i] \in Items
      OBVIOUS
<1>2. ASSUME NEW j \in before, NEW i \in 1..Len(q), i < j
      PROVE  i \in before
  <2>1. ~Before(q[j], q[i]) /\ Before(q[j], item)
        BY <1>1, <1>2 DEF SortedQueue
  <2>2. Before(q[i], item)
    <3>1. q[i] \in Items /\ q[j] \in Items
          BY <1>1
    <3> QED BY <2>1, <3>1, BeforeOrder
  <2> QED BY <2>2, <1>1
<1>3. Cardinality(before) \in 0..Len(q) /\ before = 1..Cardinality(before)
  <2> HIDE DEF before
  <2>1. before \in SUBSET (1..Len(q))
        BY <1>1 DEF before
  <2> QED BY <2>1, <1>1, <1>2, InitialPlaces
<1>4. k \in 1..(Len(q) + 1)
      BY <1>1, <1>3
<1>5. \A j \in 1..Len(q) : j < k <=> Before(q[j], item)
      BY <1>1, <1>3
<1> HIDE DEF k
<1>6. /\ InsertAt(q, k, item) \in Seq(Items)
      /\ Len(InsertAt(q, k, item)) = Len(q) + 1
      /\ \A j \in 1..(Len(q) + 1) :
            InsertAt(q, k, item)[j] =
               IF j < k THEN q[j] ELSE IF j = k THEN item ELSE q[j - 1]
      BY <1>4, InsertAtFacts
<1> QED BY <1>4, <1>5, <1>6 DEF k

\* So what holds of the items of a queue and of one that is inserted holds of all,
\* and a sorted queue stays sorted.
LEMMA InsertKeeps ==
    ASSUME NEW q \in Seq(Items), SortedQueue(q), OneOfEach(q), NEW item \in Items,
           \A i \in DOMAIN q : q[i].id # item.id
    PROVE  LET before == {i \in DOMAIN q : Before(q[i], item)}
               r == InsertAt(q, Cardinality(before) + 1, item)
           IN  /\ r \in Seq(Items) /\ Len(r) = Len(q) + 1
               /\ SortedQueue(r)
               /\ OneOfEach(r)
               /\ \A j \in DOMAIN r : r[j] = item \/ \E i \in DOMAIN q : r[j] = q[i]
               /\ r[1] = item \/ (q # <<>> /\ r[1] = q[1])
<1> DEFINE before == {i \in DOMAIN q : Before(q[i], item)}
           r == InsertAt(q, Cardinality(before) + 1, item)
<1>1. r \in Seq(Items) /\ Len(r) = Len(q) + 1
      BY InsertFacts
<1>2. PICK k \in 1..(Len(q) + 1) :
         /\ \A j \in 1..(Len(q) + 1) :
               r[j] = IF j < k THEN q[j] ELSE IF j = k THEN item ELSE q[j - 1]
         /\ \A j \in 1..Len(q) : j < k <=> Before(q[j], item)
      BY InsertFacts
<1> HIDE DEF before, r
<1>3. /\ Len(q) \in Nat /\ DOMAIN q = 1..Len(q) /\ \A i \in DOMAIN q : q[i] \in Items
      /\ DOMAIN r = 1..(Len(q) + 1)
      BY <1>1
<1>4. ASSUME NEW j \in DOMAIN r
      PROVE  \/ j = k /\ r[j] = item
             \/ j < k /\ j \in DOMAIN q /\ r[j] = q[j] /\ Before(q[j], item)
             \/ j > k /\ j - 1 \in DOMAIN q /\ r[j] = q[j - 1] /\ ~Before(q[j - 1], item)
      BY <1>2, <1>3
<1>5. SortedQueue(r)
  <2>1. SUFFICES ASSUME NEW i \in DOMAIN r, NEW j \in DOMAIN r, i < j
                 PROVE  ~Before(r[j], r[i])
        BY DEF SortedQueue
  <2>2. CASE i < k /\ j < k
        BY <2>1, <2>2, <1>3, <1>4 DEF SortedQueue
  <2>3. CASE i < k /\ j = k
        BY <2>1, <2>3, <1>3, <1>4, BeforeOrder
  <2>4. CASE i < k /\ j > k
    <3>1. /\ r[i] = q[i] /\ r[j] = q[j - 1]
          /\ i \in DOMAIN q /\ j - 1 \in DOMAIN q /\ i < j - 1
          BY <2>4, <1>3, <1>4
    <3> QED BY <3>1 DEF SortedQueue
  <2>5. CASE i = k /\ j > k
        BY <2>1, <2>5, <1>3, <1>4
  <2>6. CASE i > k
    <3>1. /\ r[i] = q[i - 1] /\ r[j] = q[j - 1]
          /\ i - 1 \in DOMAIN q /\ j - 1 \in DOMAIN q /\ i - 1 < j - 1
          BY <2>1, <2>6, <1>3, <1>4
    <3> QED BY <3>1 DEF SortedQueue
  <2> QED BY <2>1, <2>2, <2>3, <2>4, <2>5, <2>6, <1>3
<1>6. OneOfEach(r)
  <2>1. SUFFICES ASSUME NEW i \in DOMAIN r, NEW j \in DOMAIN r, r[i].id = r[j].id
                 PROVE  i = j
        BY DEF OneOfEach
  <2> DEFINE at(n) == IF n < k THEN n ELSE n - 1
  <2>2. CASE i = k \/ j = k
        BY <2>1, <2>2, <1>3, <1>4
  <2>3. CASE i # k /\ j # k
    <3>1. /\ at(i) \in DOMAIN q /\ at(j) \in DOMAIN q
          /\ r[i] = q[at(i)] /\ r[j] = q[at(j)]
          BY <2>3, <1>3, <1>4
    <3>2. at(i) = at(j)
          BY <3>1, <2>1 DEF OneOfEach
    <3> QED BY <3>2, <2>3, <1>3
  <2> QED BY <2>2, <2>3
<1>7. \A j \in DOMAIN r : r[j] = item \/ \E i \in DOMAIN q : r[j] = q[i]
      BY <1>4
<1>8. r[1] = item \/ (q # <<>> /\ r[1] = q[1])
  <2>1. 1 \in DOMAIN r
        BY <1>3
  <2>2. CASE k = 1
        BY <2>1, <2>2, <1>4, <1>3
  <2>3. CASE k # 1
        BY <2>1, <2>3, <1>4, <1>3
  <2> QED BY <2>2, <2>3
<1> QED BY <1>1, <1>5, <1>6, <1>7, <1>8 DEF before, r

\* Removing an item leaves a sorted queue of the others.
LEMMA RemoveKeeps ==
    ASSUME NEW q \in Seq(Items), SortedQueue(q), OneOfEach(q), NEW i \in DOMAIN q
    PROVE  LET r == RemoveAt(q, i)
           IN  /\ r \in Seq(Items) /\ Len(r) = Len(q) - 1
               /\ SortedQueue(r)
               /\ OneOfEach(r)
               /\ \A j \in DOMAIN r : \E n \in DOMAIN q : n # i /\ r[j] = q[n]
               /\ \A j \in DOMAIN r : r[j].id # q[i].id
<1> DEFINE r == RemoveAt(q, i)
           at(n) == IF n < i THEN n ELSE n + 1
<1>1. /\ r \in Seq(Items) /\ Len(r) = Len(q) - 1
      /\ \A k \in 1..(Len(q) - 1) : r[k] = IF k < i THEN q[k] ELSE q[k + 1]
      BY RemoveAtFacts
<1>2. Len(q) \in Nat /\ DOMAIN q = 1..Len(q) /\ DOMAIN r = 1..(Len(q) - 1)
      BY <1>1
<1> HIDE DEF r
<1>3. \A j \in DOMAIN r : at(j) \in DOMAIN q /\ at(j) # i /\ r[j] = q[at(j)]
      BY <1>1, <1>2
<1>4. \A j, k \in DOMAIN r : j < k <=> at(j) < at(k)
      BY <1>2
<1>5. \A j, k \in DOMAIN r : at(j) = at(k) => j = k
      BY <1>2
<1> HIDE DEF at
<1>6. SortedQueue(r)
      BY <1>3, <1>4 DEF SortedQueue
<1>7. OneOfEach(r)
      BY <1>3, <1>5 DEF OneOfEach
<1>8. \A j \in DOMAIN r : \E n \in DOMAIN q : n # i /\ r[j] = q[n]
      BY <1>3
<1>9. \A j \in DOMAIN r : r[j].id # q[i].id
      BY <1>3 DEF OneOfEach
<1> QED BY <1>1, <1>6, <1>7, <1>8, <1>9 DEF r

-----------------------------------------------------------------------------
(* The steps.                                                                 *)

LEMMA InitInvariant == Init => TimersInvariant
<1> SUFFICES ASSUME Init PROVE TimersInvariant
    OBVIOUS
<1>1. TypeOK
  <2>1. queue \in Seq(Items)
        BY DEF Init
  <2>2. armed \in BOOLEAN
        BY Zenon DEF Init
  <2>3. timerId \in 0..MaxTimers /\ length \in 0..MaxTimers /\ index \in 0..length
        BY TimersAssumption DEF Init
  <2>4. running \in Items \cup {NoItem} /\ cleared \subseteq Ids /\ started \subseteq Ids
        BY DEF Init
  <2> QED BY <2>1, <2>2, <2>3, <2>4 DEF Init, TypeOK
<1>2. SortedQueue(queue) /\ OneOfEach(queue) /\ Live(queue) /\ Known /\ Len(queue) <= timerId
      BY DEF Init, SortedQueue, OneOfEach, Live, Known
<1>3. Armed
      BY DEF Init, Armed
<1> QED BY <1>1, <1>2, <1>3 DEF TimersInvariant

\* What the invariant says of the items of the queue.
LEMMA QueueFacts ==
    ASSUME TimersInvariant
    PROVE  /\ queue \in Seq(Items) /\ Len(queue) \in Nat /\ DOMAIN queue = 1..Len(queue)
           /\ timerId \in Nat
           /\ \A i \in DOMAIN queue :
                 /\ queue[i] \in Items
                 /\ queue[i].id \in Int /\ queue[i].id < timerId
                 /\ queue[i].id \notin cleared
                 /\ queue[i].id \in started => queue[i].repeat
           /\ \A i \in DOMAIN queue : Head(queue).expiry <= queue[i].expiry
<1>1. queue \in Seq(Items) /\ timerId \in Nat
      BY TimersAssumption DEF TimersInvariant, TypeOK
<1>2. Len(queue) \in Nat /\ DOMAIN queue = 1..Len(queue)
      BY <1>1
<1>3. \A i \in DOMAIN queue : queue[i] \in Items
      BY <1>1
<1>4. \A item \in Items : item.id \in Int /\ item.expiry \in Int
      BY TimersAssumption DEF Items, Ids
<1>5. \A i \in DOMAIN queue :
         /\ queue[i].id < timerId
         /\ queue[i].id \notin cleared
         /\ queue[i].id \in started => queue[i].repeat
      BY DEF TimersInvariant, Live
<1>6. ASSUME NEW i \in DOMAIN queue
      PROVE  Head(queue).expiry <= queue[i].expiry
  <2>1. 1 \in DOMAIN queue /\ Head(queue) = queue[1]
        BY <1>1, <1>2
  <2>2. CASE i = 1
        BY <2>1, <2>2, <1>3, <1>4
  <2>3. CASE i # 1
    <3>1. ~Before(queue[i], queue[1])
          BY <2>1, <2>3, <1>2 DEF TimersInvariant, SortedQueue
    <3> QED BY <3>1, <2>1, <1>3, BeforeOrder
  <2> QED BY <2>2, <2>3
<1> QED BY <1>1, <1>2, <1>3, <1>4, <1>5, <1>6

\* A cleared or started timer was set.
LEMMA KnownFacts ==
    ASSUME TimersInvariant
    PROVE  \A id \in cleared \cup started : id \in Int /\ id < timerId
BY TimersAssumption DEF TimersInvariant, Known, TypeOK, Ids

\* insert of a new timer.  Head(queue) is looked at only if there is one.
LEMMA SetTimerInvariant ==
    ASSUME TimersInvariant, NEW timeout \in Timeouts, NEW repeat \in BOOLEAN,
           SetTimer(timeout, repeat)
    PROVE  TimersInvariant'
<1> DEFINE item == [id |-> timerId, expiry |-> timeout, timeout |-> timeout,
                    repeat |-> repeat]
<1>1. /\ timerId \in Nat /\ timerId < MaxTimers /\ MaxTimers \in Nat
      /\ timerId' = timerId + 1
      /\ queue \in Seq(Items)
      BY TimersAssumption DEF TimersInvariant, TypeOK, SetTimer
<1>2. item \in Items /\ timeout \in Nat
      BY <1>1, TimersAssumption DEF Items, Ids
<1>3. \A i \in DOMAIN queue : queue[i].id # item.id
      BY <1>1, QueueFacts
<1>4. /\ queue' \in Seq(Items) /\ Len(queue') = Len(queue) + 1
      /\ SortedQueue(queue)' /\ OneOfEach(queue)'
      /\ \A j \in DOMAIN queue' : queue'[j] = item \/ \E i \in DOMAIN queue : queue'[j] = queue[i]
      /\ queue'[1] = item \/ (queue # <<>> /\ queue'[1] = queue[1])
  <2> DEFINE before == {i \in DOMAIN queue : Before(queue[i], item)}
             r == InsertAt(queue, Cardinality(before) + 1, item)
  <2>1. queue' = r
        BY DEF SetTimer, Insert
  <2>2. SortedQueue(queue) /\ OneOfEach(queue)
        BY DEF TimersInvariant
  <2> HIDE DEF item
  <2>3. /\ r \in Seq(Items) /\ Len(r) = Len(queue) + 1
        /\ SortedQueue(r) /\ OneOfEach(r)
        /\ \A j \in DOMAIN r : r[j] = item \/ \E i \in DOMAIN queue : r[j] = queue[i]
        /\ r[1] = item \/ (queue # <<>> /\ r[1] = queue[1])
        BY <1>1, <1>2, <1>3, <2>2, InsertKeeps
  <2> HIDE DEF r
  <2> QED BY <2>1, <2>3
<1>5. UNCHANGED <<loopTime, phase, now, index, length, running, cleared, started>>
      BY DEF SetTimer, passVars, history
<1>6. \/ /\ queue = <<>> \/ Head(queue).expiry > timeout
         /\ armed' = TRUE /\ due' = loopTime + timeout
      \/ /\ queue # <<>> /\ ~(Head(queue).expiry > timeout)
         /\ UNCHANGED <<armed, due>>
      BY DEF SetTimer, Insert, Update
<1>7. TypeOK'
  <2>1. armed \in BOOLEAN /\ due \in Int /\ loopTime \in Int
        BY DEF TimersInvariant, TypeOK
  <2>2. armed' \in BOOLEAN
        BY <2>1, <1>6, Zenon
  <2>3. due' \in Int
        BY <2>1, <1>2, <1>6
  <2> QED BY <2>2, <2>3, <1>1, <1>4, <1>5 DEF TimersInvariant, TypeOK
<1>8. Len(queue') <= timerId' /\ Known'
  <2>1. Len(queue') <= timerId'
        BY <1>1, <1>4, QueueFacts DEF TimersInvariant
  <2>2. Known'
        BY <1>1, <1>5, KnownFacts DEF Known
  <2> QED BY <2>1, <2>2
<1>9. Live(queue)'
  <2>1. item.id \notin cleared \cup started /\ item.id < timerId'
        BY <1>1, KnownFacts
  <2>2. \A i \in DOMAIN queue :
           /\ queue[i].id < timerId'
           /\ queue[i].id \notin cleared
           /\ queue[i].id \in started => queue[i].repeat
        BY <1>1, QueueFacts
  <2> HIDE DEF item
  <2> QED BY <2>1, <2>2, <1>4, <1>5 DEF Live
<1>10. Armed'
  <2>1. SUFFICES ASSUME phase = "idle"
                 PROVE  armed' /\ (due' <= queue'[1].expiry \/ due' <= loopTime' + 1)
        BY <1>4, <1>5 DEF Armed
  <2>2. loopTime \in Int /\ loopTime <= 0 /\ due \in Int /\ item.expiry = timeout
        BY DEF TimersInvariant, TypeOK
  <2>3. CASE queue = <<>>
        BY <2>2, <2>3, <1>2, <1>4, <1>6
  <2>4. CASE queue # <<>>
    <3>1. Head(queue) = queue[1] /\ queue[1].expiry \in Int
          BY <2>4, QueueFacts DEF Items
    <3>2. armed /\ (due <= queue[1].expiry \/ due <= loopTime + 1)
          BY <2>1, <2>4, <3>1 DEF TimersInvariant, Armed
    <3> HIDE DEF item
    <3>3. armed'
          BY <3>2, <1>6, Zenon
    <3>4. \/ queue[1].expiry > timeout /\ due' = loopTime + timeout
          \/ ~(queue[1].expiry > timeout) /\ due' = due
          BY <2>4, <3>1, <1>6
    <3>5. queue'[1].expiry = timeout \/ queue'[1].expiry = queue[1].expiry
          BY <1>4, <2>2
    <3>6. due' <= queue'[1].expiry \/ due' <= loopTime + 1
          BY <3>1, <3>2, <3>4, <3>5, <2>2, <1>2
    <3> QED BY <3>3, <3>6, <1>5
  <2> QED BY <2>3, <2>4
<1> QED BY <1>4, <1>7, <1>8, <1>9, <1>10 DEF TimersInvariant

LEMMA ClearTimerInvariant ==
    ASSUME TimersInvariant, NEW i \in DOMAIN queue, ClearTimer(i)
    PROVE  TimersInvariant'
<1>1. /\ queue' \in Seq(Items) /\ Len(queue') = Len(queue) - 1
      /\ SortedQueue(queue)' /\ OneOfEach(queue)'
      /\ \A j \in DOMAIN queue' : \E n \in DOMAIN queue : n # i /\ queue'[j] = queue[n]
      /\ \A j \in DOMAIN queue' : queue'[j].id # queue[i].id
  <2>1. queue \in Seq(Items) /\ SortedQueue(queue) /\ OneOfEach(queue)
        BY QueueFacts DEF TimersInvariant
  <2>2. queue' = RemoveAt(queue, i)
        BY DEF ClearTimer
  <2> QED BY <2>1, <2>2, RemoveKeeps, SMTT(30)
<1>2. /\ cleared' = cleared \cup {queue[i].id}
      /\ UNCHANGED <<timerId, armed, due, loopTime, phase, now, index, length,
                     running, started>>
      BY DEF ClearTimer, passVars
<1>3. queue[i].id \in Ids /\ queue[i].id < timerId
      BY QueueFacts DEF Items
<1>4. TypeOK'
      BY <1>1, <1>2, <1>3 DEF TimersInvariant, TypeOK
<1>5. Len(queue') <= timerId' /\ Known'
  <2>1. Len(queue') <= timerId'
        BY <1>1, <1>2, QueueFacts DEF TimersInvariant
  <2>2. Known'
        BY <1>2, <1>3, KnownFacts DEF Known
  <2> QED BY <2>1, <2>2
<1>6. Live(queue)'
      BY <1>1, <1>2, QueueFacts DEF Live
<1>7. Armed'
  <2>1. SUFFICES ASSUME phase = "idle", queue' # <<>>
                 PROVE  /\ armed'
                        /\ due' <= Head(queue').expiry \/ due' <= loopTime' + 1
        BY <1>2 DEF Armed
  <2>2. PICK n \in DOMAIN queue : Head(queue') = queue[n]
        BY <2>1, <1>1
  <2>3. /\ Head(queue).expiry <= queue[n].expiry /\ queue # <<>>
        /\ Head(queue).expiry \in Int /\ queue[n].expiry \in Int
    <3>1. Head(queue) \in Items /\ queue[n] \in Items /\ queue # <<>>
          BY QueueFacts
    <3> QED BY <3>1, QueueFacts DEF Items
  <2>4. armed /\ (due <= Head(queue).expiry \/ due <= loopTime + 1) /\ due \in Int
        BY <2>1, <2>3, <1>2 DEF TimersInvariant, Armed, TypeOK
  <2> QED BY <2>2, <2>3, <2>4, <1>2
<1> QED BY <1>1, <1>4, <1>5, <1>6, <1>7 DEF TimersInvariant

LEMMA UvTimerFiresInvariant ==
    ASSUME TimersInvariant, UvTimerFires
    PROVE  TimersInvariant'
<1>1. Len(queue) \in 0..MaxTimers
      BY QueueFacts, TimersAssumption DEF TimersInvariant, TypeOK
<1>2. TypeOK'
  <2>1. UNCHANGED <<timerId, queue, loopTime, running, cleared, started>>
        BY DEF UvTimerFires, history
  <2>2. due' = 0 /\ phase' = "pass" /\ now' = 0 /\ index' = 0 /\ length' = Len(queue)
        BY DEF UvTimerFires
  <2>3. armed' \in BOOLEAN
        BY Zenon DEF UvTimerFires
  <2> QED BY <2>1, <2>2, <2>3, <1>1 DEF TimersInvariant, TypeOK
<1>3. /\ (Len(queue) <= timerId)' /\ SortedQueue(queue)' /\ OneOfEach(queue)'
      /\ Live(queue)' /\ Known'
      BY DEF TimersInvariant, UvTimerFires, history, SortedQueue, OneOfEach, Live, Known
<1>4. Armed'
      BY DEF UvTimerFires, Armed
<1> QED BY <1>2, <1>3, <1>4 DEF TimersInvariant

LEMMA SkipInvariant ==
    ASSUME TimersInvariant, Skip
    PROVE  TimersInvariant'
<1>1. TypeOK'
      BY TimersAssumption DEF TimersInvariant, TypeOK, Skip, Visiting, history
<1>2. /\ (Len(queue) <= timerId)' /\ SortedQueue(queue)' /\ OneOfEach(queue)'
      /\ Live(queue)' /\ Known'
      BY DEF TimersInvariant, Skip, history, SortedQueue, OneOfEach, Live, Known
<1>3. Armed'
      BY DEF Skip, Visiting, Armed
<1> QED BY <1>1, <1>2, <1>3 DEF TimersInvariant

\* The item that is called, and the queue it was taken from.
LEMMA CallHandlerInvariant ==
    ASSUME TimersInvariant, CallHandler
    PROVE  TimersInvariant'
<1> DEFINE item == queue[index + 1]
           again == [item EXCEPT !.expiry = @ + item.timeout]
           rest == RemoveAt(queue, index + 1)
<1>1. index + 1 \in DOMAIN queue /\ index \in Nat /\ length \in Nat /\ index < length
      BY QueueFacts, TimersAssumption DEF CallHandler, Visiting, TimersInvariant, TypeOK
<1>2. /\ item \in Items /\ again \in Items
      /\ item.id \in Ids /\ item.id < timerId /\ item.id \notin cleared
      /\ again.id = item.id /\ again.repeat = item.repeat
  <2>1. item \in Items /\ item.id < timerId /\ item.id \notin cleared
        BY <1>1, QueueFacts
  <2> HIDE DEF item
  <2> QED BY <2>1, TimersAssumption DEF Items
<1>3. /\ rest \in Seq(Items) /\ Len(rest) = Len(queue) - 1
      /\ SortedQueue(rest) /\ OneOfEach(rest)
      /\ \A j \in DOMAIN rest : \E n \in DOMAIN queue : rest[j] = queue[n]
      /\ \A j \in DOMAIN rest : rest[j].id # item.id
  <2>1. queue \in Seq(Items) /\ SortedQueue(queue) /\ OneOfEach(queue)
        BY QueueFacts DEF TimersInvariant
  <2> QED BY <2>1, <1>1, RemoveKeeps
<1>4. /\ \/ /\ item.repeat
            /\ Insert(rest, again)
         \/ /\ ~item.repeat
            /\ queue' = rest
            /\ UNCHANGED <<armed, due>>
      /\ running' = item
      /\ started' = started \cup {item.id}
      /\ index' = index + 1
      /\ phase' = "handler"
      /\ UNCHANGED <<timerId, loopTime, now, length, cleared>>
      BY DEF CallHandler
<1>5. item.repeat \in BOOLEAN
      BY <1>2 DEF Items
<1> HIDE DEF item, again, rest
<1>6. armed' \in BOOLEAN /\ due' \in Int
  <2>1. again.timeout \in Int
    <3>1. again.timeout \in Timeouts
          BY <1>2 DEF Items
    <3>2. \A timeout \in Timeouts : timeout \in Int
          BY TimersAssumption
    <3> QED BY <3>1, <3>2, Zenon
  <2>2. loopTime \in Int /\ armed \in BOOLEAN /\ due \in Int
        BY DEF TimersInvariant, TypeOK
  <2>3. \/ armed' = TRUE /\ due' = loopTime + again.timeout
        \/ armed' = armed /\ due' = due
        BY <1>4, Zenon DEF Insert, Update
  <2>4. armed' \in BOOLEAN
        BY <2>2, <2>3, Zenon
  <2> QED BY <2>1, <2>2, <2>3, <2>4
<1>7. /\ queue' \in Seq(Items) /\ Len(queue') <= Len(queue)
      /\ SortedQueue(queue)' /\ OneOfEach(queue)'
      /\ \A j \in DOMAIN queue' :
            \/ item.repeat /\ queue'[j] = again
            \/ \E n \in DOMAIN rest : queue'[j] = rest[n]
  <2>1. CASE item.repeat
    <3>1. \A j \in DOMAIN rest : rest[j].id # again.id
          BY <1>2, <1>3
    <3> DEFINE r == InsertAt(rest,
                             Cardinality({i \in DOMAIN rest : Before(rest[i], again)}) + 1,
                             again)
    <3>2. queue' = r
          BY <2>1, <1>4 DEF Insert
    <3>3. /\ r \in Seq(Items) /\ Len(r) = Len(rest) + 1
          /\ SortedQueue(r) /\ OneOfEach(r)
          /\ \A j \in DOMAIN r : r[j] = again \/ \E n \in DOMAIN rest : r[j] = rest[n]
          BY <3>1, <1>2, <1>3, InsertKeeps
    <3> HIDE DEF r
    <3>4. SortedQueue(queue)' /\ OneOfEach(queue)'
          BY <3>2, <3>3
    <3>5. Len(queue') <= Len(queue)
          BY <3>2, <3>3, <1>3, QueueFacts
    <3> QED BY <3>2, <3>3, <3>4, <3>5, <2>1
  <2>2. CASE ~item.repeat
        BY <2>2, <1>3, <1>4, QueueFacts
  <2> QED BY <2>1, <2>2
<1>8. TypeOK'
      BY <1>1, <1>2, <1>4, <1>6, <1>7 DEF TimersInvariant, TypeOK
<1>9. Len(queue') <= timerId' /\ Known'
  <2>1. Len(queue') <= timerId'
        BY <1>4, <1>7, QueueFacts DEF TimersInvariant
  <2>2. Known'
        BY <1>2, <1>4, KnownFacts DEF Known
  <2> QED BY <2>1, <2>2
<1>10. Live(queue)'
  <2>1. ASSUME NEW j \in DOMAIN queue', NEW n \in DOMAIN rest, queue'[j] = rest[n]
        PROVE  /\ queue'[j].id < timerId /\ queue'[j].id \notin cleared
               /\ queue'[j].id # item.id
               /\ queue'[j].id \in started => queue'[j].repeat
        BY <2>1, <1>3, QueueFacts
  <2>2. \A j \in DOMAIN queue' :
           /\ queue'[j].id < timerId' /\ queue'[j].id \notin cleared'
           /\ queue'[j].id \in started' => queue'[j].repeat
        BY <2>1, <1>2, <1>4, <1>7
  <2> QED BY <2>2 DEF Live
<1>11. Armed'
       BY <1>4 DEF Armed
<1> QED BY <1>7, <1>8, <1>9, <1>10, <1>11 DEF TimersInvariant

LEMMA HandlerReturnsInvariant ==
    ASSUME TimersInvariant, HandlerReturns
    PROVE  TimersInvariant'
<1>1. TypeOK'
      BY DEF TimersInvariant, TypeOK, HandlerReturns
<1>2. /\ (Len(queue) <= timerId)' /\ SortedQueue(queue)' /\ OneOfEach(queue)'
      /\ Live(queue)' /\ Known'
      BY DEF TimersInvariant, HandlerReturns, SortedQueue, OneOfEach, Live, Known
<1>3. Armed'
      BY DEF HandlerReturns, Armed
<1> QED BY <1>1, <1>2, <1>3 DEF TimersInvariant

\* The pass arms the uv timer for the head, or a millisecond from the loop's time.
LEMMA EndPassInvariant ==
    ASSUME TimersInvariant, EndPass
    PROVE  TimersInvariant'
<1>1. UNCHANGED <<timerId, queue, loopTime, running, cleared, started>>
      BY DEF EndPass, history
<1>2. /\ (Len(queue) <= timerId)' /\ SortedQueue(queue)' /\ OneOfEach(queue)'
      /\ Live(queue)' /\ Known'
      BY <1>1 DEF TimersInvariant, SortedQueue, OneOfEach, Live, Known
<1>3. loopTime \in Int /\ loopTime <= 0 /\ armed \in BOOLEAN /\ due \in Int
      BY DEF TimersInvariant, TypeOK
<1>4. /\ armed' \in BOOLEAN /\ due' \in Int
      /\ queue # <<>> => /\ armed'
                         /\ due' <= Head(queue).expiry \/ due' <= loopTime + 1
  <2>1. CASE queue = <<>>
        BY <2>1, <1>3 DEF EndPass
  <2>2. CASE queue # <<>>
    <3>1. Head(queue) \in Items
          BY <2>2, QueueFacts
    <3>2. Head(queue).expiry \in Int
          BY <3>1 DEF Items
    <3> QED BY <2>2, <3>2, <1>3 DEF EndPass, Update
  <2> QED BY <2>1, <2>2
<1>5. TypeOK'
      BY <1>1, <1>4, TimersAssumption DEF TimersInvariant, TypeOK, EndPass
<1>6. Armed'
      BY <1>1, <1>4 DEF Armed
<1> QED BY <1>2, <1>5, <1>6 DEF TimersInvariant

\* Every time moves by the same.
LEMMA TickInvariant ==
    ASSUME TimersInvariant, Tick
    PROVE  TimersInvariant'
<1>1. /\ queue' = [i \in DOMAIN queue |-> [queue[i] EXCEPT !.expiry = @ - 1]]
      /\ loopTime' = loopTime - 1
      /\ due' = IF armed THEN due - 1 ELSE due
      /\ now' = IF phase = "idle" THEN now ELSE now - 1
      /\ UNCHANGED <<timerId, armed, phase, index, length, running, cleared, started>>
      BY DEF Tick, history
<1>2. ASSUME NEW i \in DOMAIN queue
      PROVE  /\ queue'[i] \in Items
             /\ queue'[i].id = queue[i].id /\ queue'[i].repeat = queue[i].repeat
             /\ queue'[i].expiry = queue[i].expiry - 1
  <2>1. queue[i] \in Items
        BY QueueFacts
  <2>2. queue'[i] = [queue[i] EXCEPT !.expiry = @ - 1]
        BY <1>1
  <2> QED BY <2>1, <2>2 DEF Items
<1>3. queue' \in Seq(Items) /\ Len(queue') = Len(queue) /\ DOMAIN queue' = DOMAIN queue
  <2>1. queue' \in [1..Len(queue) -> Items]
        BY <1>1, <1>2, QueueFacts
  <2> QED BY <2>1, QueueFacts
<1>4. \A i, j \in DOMAIN queue : Before(queue'[j], queue'[i]) <=> Before(queue[j], queue[i])
  <2>1. \A i \in DOMAIN queue : queue[i].expiry \in Int
        BY QueueFacts DEF Items
  <2> QED BY <2>1, <1>2 DEF Before
<1>5. SortedQueue(queue)'
      BY <1>3, <1>4 DEF SortedQueue, TimersInvariant
<1>6. OneOfEach(queue)' /\ Live(queue)' /\ Known' /\ Len(queue') <= timerId'
  <2>1. OneOfEach(queue)'
        BY <1>2, <1>3 DEF TimersInvariant, OneOfEach
  <2>2. Live(queue)'
    <3>1. UNCHANGED <<timerId, cleared, started>>
          BY <1>1
    <3>2. \A i \in DOMAIN queue :
             /\ queue[i].id < timerId /\ queue[i].id \notin cleared
             /\ queue[i].id \in started => queue[i].repeat
          BY QueueFacts
    <3>3. \A i \in DOMAIN queue :
             queue'[i].id = queue[i].id /\ queue'[i].repeat = queue[i].repeat
          BY <1>2
    <3>4. \A i \in DOMAIN queue :
             /\ queue'[i].id < timerId' /\ queue'[i].id \notin cleared'
             /\ queue'[i].id \in started' => queue'[i].repeat
          BY <3>1, <3>2, <3>3, Zenon
    <3> QED BY <3>4, <1>3 DEF Live
  <2>3. Known' /\ Len(queue') <= timerId'
        BY <1>1, <1>3 DEF TimersInvariant, Known
  <2> QED BY <2>1, <2>2, <2>3
<1>7. TypeOK'
      BY <1>1, <1>3 DEF TimersInvariant, TypeOK
<1>8. Armed'
  <2>1. SUFFICES ASSUME phase = "idle", queue # <<>>
                 PROVE  armed /\ (due' <= Head(queue').expiry \/ due' <= loopTime' + 1)
        BY <1>1, <1>3 DEF Armed
  <2>2. Head(queue') = queue'[1] /\ Head(queue) = queue[1] /\ 1 \in DOMAIN queue
        BY <2>1, <1>3, QueueFacts
  <2>3. queue'[1].expiry = queue[1].expiry - 1 /\ queue[1].expiry \in Int
        BY <2>2, <1>2, QueueFacts DEF Items
  <2>4. /\ armed /\ (due <= queue[1].expiry \/ due <= loopTime + 1)
        /\ due \in Int /\ loopTime \in Int
        BY <2>1, <2>2 DEF TimersInvariant, Armed, TypeOK
  <2> QED BY <2>2, <2>3, <2>4, <1>1
<1> QED BY <1>3, <1>5, <1>6, <1>7, <1>8 DEF TimersInvariant

LEMMA UpdateTimeInvariant ==
    ASSUME TimersInvariant, UpdateTime
    PROVE  TimersInvariant'
<1>1. /\ loopTime' = 0 /\ loopTime \in Int /\ loopTime <= 0
      /\ UNCHANGED <<timerId, queue, armed, due, phase, now, index, length,
                     running, cleared, started>>
      BY DEF UpdateTime, passVars, history, TimersInvariant, TypeOK
<1>2. TypeOK'
      BY <1>1 DEF TimersInvariant, TypeOK
<1>3. /\ (Len(queue) <= timerId)' /\ SortedQueue(queue)' /\ OneOfEach(queue)'
      /\ Live(queue)' /\ Known'
      BY <1>1 DEF TimersInvariant, SortedQueue, OneOfEach, Live, Known
<1>4. due <= loopTime + 1 => due <= 0 + 1
      BY <1>1 DEF TimersInvariant, TypeOK
<1>5. Armed'
      BY <1>1, <1>4 DEF TimersInvariant, Armed
<1> QED BY <1>2, <1>3, <1>5 DEF TimersInvariant

LEMMA StepInvariant ==
    ASSUME TimersInvariant, [Next]_vars
    PROVE  TimersInvariant'
<1>1. CASE \E timeout \in Timeouts, repeat \in BOOLEAN : SetTimer(timeout, repeat)
      BY <1>1, SetTimerInvariant
<1>2. CASE \E i \in DOMAIN queue : ClearTimer(i)
      BY <1>2, ClearTimerInvariant
<1>3. CASE Callback
      BY <1>3, UvTimerFiresInvariant, SkipInvariant, CallHandlerInvariant,
         HandlerReturnsInvariant, EndPassInvariant DEF Callback
<1>4. CASE Tick
      BY <1>4, TickInvariant
<1>5. CASE UpdateTime
      BY <1>5, UpdateTimeInvariant
<1>6. CASE UNCHANGED vars
      BY <1>6 DEF vars, passVars, history, TimersInvariant, TypeOK, SortedQueue, OneOfEach,
                  Live, Known, Armed
<1> QED BY <1>1, <1>2, <1>3, <1>4, <1>5, <1>6 DEF Next

\* Only CallHandler begins a handler, and its item was in the queue.
LEMMA StepStartsLive ==
    ASSUME TimersInvariant, [Next]_vars, phase = "pass", phase' = "handler"
    PROVE  /\ running'.id \notin cleared
           /\ running'.id \in started => running'.repeat
<1>1. CallHandler
      BY DEF Next, vars, passVars, history, SetTimer, ClearTimer, Callback, UvTimerFires, Skip,
             HandlerReturns, EndPass, Tick, UpdateTime
<1>2. index + 1 \in DOMAIN queue /\ running' = queue[index + 1]
      BY <1>1, QueueFacts, TimersAssumption DEF CallHandler, Visiting, TimersInvariant, TypeOK
<1> QED BY <1>2, QueueFacts

-----------------------------------------------------------------------------
(* The theorems.                                                              *)

\* The queue of timers stays sorted, has each timer once and only such as were set
\* and not cleared, whatever handlers do to it (insert and clear* of timers.js).
THEOREM TimersInvariantHolds == SafeSpec => []TimersInvariant
<1>1. Init => TimersInvariant
      BY InitInvariant
<1>2. TimersInvariant /\ [Next]_vars => TimersInvariant'
      BY StepInvariant
<1> QED BY <1>1, <1>2, PTL DEF SafeSpec

\* Outside the callback a timer in the queue has the uv timer armed for it in time.
THEOREM ArmedCorrect == SafeSpec => []Armed
<1>1. TimersInvariant => Armed
      BY DEF TimersInvariant
<1> QED BY <1>1, TimersInvariantHolds, PTL

\* A handler is called for no timer that was cleared, nor twice for a timeout.
THEOREM StartsOnlyLiveCorrect == SafeSpec => StartsOnlyLive
<1>1. TimersInvariant /\ [Next]_vars =>
         [phase = "pass" /\ phase' = "handler" =>
             /\ running'.id \notin cleared
             /\ running'.id \in started => running'.repeat]_vars
      BY StepStartsLive
<1> QED BY <1>1, TimersInvariantHolds, PTL DEF SafeSpec, StartsOnlyLive

-----------------------------------------------------------------------------
(* Events: the inductive invariant.  InTurn is not inductive: that a          *)
(* registration which was removed does not come back rests on new ones        *)
(* getting new places, and that a listener's turn ends with its call rests on *)
(* the frame of each dispatch naming the listener that runs.                  *)

Registered(l) == l \in 1..Len(registrations)

\* A listener is in the list once.
ListDistinct == \A i, j \in DOMAIN listeners : listeners[i] = listeners[j] => i = j

ListKnown == \A i \in DOMAIN listeners : Registered(listeners[i])

FrameKnown(d) == \A k \in DOMAIN d.handlers : Registered(d.handlers[k])

\* The frame of a dispatch: what InTurn says of it, and of the listener it runs.
FrameInTurn(d) ==
    /\ d.called \subseteq ToSet(d.handlers)
    /\ \A k \in DOMAIN d.handlers :
          k < d.next => d.handlers[k] \in d.called \cup (Places \ ToSet(listeners))
    /\ d.calling => d.next \in DOMAIN d.handlers /\ d.handlers[d.next] \in d.called

SpentGone == \A l \in spent : Registered(l) /\ l \notin ToSet(listeners)

StackInTurn == \A i \in DOMAIN stack : FrameKnown(stack[i]) /\ FrameInTurn(stack[i])

DispatchInvariant ==
    /\ EventsTypeOK
    /\ ListDistinct
    /\ ListKnown
    /\ StackInTurn
    /\ SpentGone

-----------------------------------------------------------------------------
(* Sequences.                                                                 *)

\* RemoveAt (RemoveAtFacts, above) of a sequence without repetitions leaves the others.
LEMMA RemoveAtDistinct ==
    ASSUME NEW S, NEW s \in Seq(S), NEW i \in DOMAIN s,
           \A j, k \in DOMAIN s : s[j] = s[k] => j = k
    PROVE  /\ ToSet(RemoveAt(s, i)) = ToSet(s) \ {s[i]}
           /\ LET r == RemoveAt(s, i)
              IN  \A j, k \in DOMAIN r : r[j] = r[k] => j = k
<1> DEFINE r == RemoveAt(s, i)
<1>1. /\ r \in Seq(S) /\ Len(r) = Len(s) - 1
      /\ \A k \in 1..(Len(s) - 1) : r[k] = IF k < i THEN s[k] ELSE s[k + 1]
      BY RemoveAtFacts
<1>2. Len(s) \in Nat /\ DOMAIN s = 1..Len(s) /\ DOMAIN r = 1..(Len(s) - 1)
      BY <1>1
<1> HIDE DEF r
<1>3. \A k \in DOMAIN r : r[k] \in ToSet(s) \ {s[i]}
      BY <1>1, <1>2 DEF ToSet
<1>4. ASSUME NEW k \in DOMAIN s, k # i
      PROVE  \E j \in DOMAIN r : r[j] = s[k]
  <2>1. CASE k < i
        BY <2>1, <1>1, <1>2
  <2>2. CASE k > i
    <3>1. k - 1 \in DOMAIN r /\ ~(k - 1 < i) /\ (k - 1) + 1 = k
          BY <2>2, <1>2
    <3> QED BY <3>1, <1>1, <1>2
  <2> QED BY <1>4, <2>1, <2>2, <1>2
<1>5. ToSet(r) = ToSet(s) \ {s[i]}
      BY <1>3, <1>4 DEF ToSet
<1>6. ASSUME NEW j \in DOMAIN r, NEW k \in DOMAIN r, r[j] = r[k]
      PROVE  j = k
  <2> DEFINE at(n) == IF n < i THEN n ELSE n + 1
  <2>1. at(j) \in DOMAIN s /\ at(k) \in DOMAIN s /\ r[j] = s[at(j)] /\ r[k] = s[at(k)]
        BY <1>1, <1>2
  <2>2. at(j) = at(k)
        BY <1>6, <2>1
  <2> QED BY <2>2, <1>2
<1> QED BY <1>5, <1>6 DEF r

\* A dispatch in front of those that run.
LEMMA PushFacts ==
    ASSUME NEW S, NEW s \in Seq(S), NEW e \in S
    PROVE  /\ <<e>> \o s \in Seq(S)
           /\ Len(<<e>> \o s) = Len(s) + 1
           /\ (<<e>> \o s)[1] = e
           /\ \A i \in 2..(Len(s) + 1) : (<<e>> \o s)[i] = s[i - 1]
OBVIOUS

\* The innermost dispatch goes on.
LEMMA TopFacts ==
    ASSUME NEW S, NEW s \in Seq(S), s # <<>>, NEW e \in S
    PROVE  /\ [s EXCEPT ![1] = e] \in Seq(S)
           /\ DOMAIN [s EXCEPT ![1] = e] = DOMAIN s
           /\ [s EXCEPT ![1] = e][1] = e
           /\ \A i \in DOMAIN s : i # 1 => [s EXCEPT ![1] = e][i] = s[i]
OBVIOUS

-----------------------------------------------------------------------------
(* The steps.                                                                 *)

\* A frame is not disturbed by listeners that are removed, nor by new ones.
LEMMA FrameStays ==
    ASSUME NEW d \in Dispatches, FrameKnown(d), FrameInTurn(d),
           Len(registrations) \in Nat, Len(registrations') \in Nat,
           Len(registrations) <= Len(registrations'),
           \A l \in ToSet(listeners') : Registered(l) => l \in ToSet(listeners)
    PROVE  FrameKnown(d)' /\ FrameInTurn(d)'
<1>1. FrameKnown(d)'
      BY DEF FrameKnown, Registered
<1>2. \A k \in DOMAIN d.handlers : d.handlers[k] \in Places
      BY DEF Dispatches
<1>3. \A k \in DOMAIN d.handlers :
         d.handlers[k] \notin ToSet(listeners) => d.handlers[k] \notin ToSet(listeners')
      BY DEF FrameKnown
<1>4. FrameInTurn(d)'
      BY <1>2, <1>3 DEF FrameInTurn
<1> QED BY <1>1, <1>4

\* The stack after a step, frame by frame.
LEMMA StackPrimed ==
    ASSUME \A i \in DOMAIN stack' :
              \E d \in Dispatches : d = stack'[i] /\ FrameKnown(d)' /\ FrameInTurn(d)'
    PROVE  StackInTurn'
BY DEF StackInTurn, FrameKnown, FrameInTurn, Registered

LEMMA StackStays ==
    ASSUME stack \in Seq(Dispatches), StackInTurn, UNCHANGED stack,
           Len(registrations) \in Nat, Len(registrations') \in Nat,
           Len(registrations) <= Len(registrations'),
           \A l \in ToSet(listeners') : Registered(l) => l \in ToSet(listeners)
    PROVE  StackInTurn'
<1>1. \A d \in Dispatches :
         FrameKnown(d) /\ FrameInTurn(d) => FrameKnown(d)' /\ FrameInTurn(d)'
      BY FrameStays
<1>2. \A i \in DOMAIN stack :
         stack[i] \in Dispatches /\ FrameKnown(stack[i]) /\ FrameInTurn(stack[i])
      BY DEF StackInTurn
<1>3. ASSUME NEW i \in DOMAIN stack'
      PROVE  \E d \in Dispatches : d = stack'[i] /\ FrameKnown(d)' /\ FrameInTurn(d)'
  <2>1. PICK d \in Dispatches : d = stack[i] /\ FrameKnown(d) /\ FrameInTurn(d)
        BY <1>2
  <2> QED BY <2>1, <1>1
<1> QED BY <1>3, StackPrimed

LEMMA DispatchInvariantInit == EventsInit => DispatchInvariant
BY EventsAssumption
   DEF EventsInit, DispatchInvariant, EventsTypeOK, ListDistinct, ListKnown, StackInTurn, SpentGone,
       Flags, NoFlags

\* A new listener has a place that no frame names.
LEMMA AddKeeps ==
    ASSUME DispatchInvariant, NEW listener \in Listeners, AddEventListener(listener)
    PROVE  DispatchInvariant'
<1> DEFINE new == Len(registrations) + 1
<1>1. /\ registrations \in Seq(Listeners) /\ listeners \in Seq(Places)
      /\ Len(registrations) \in Nat /\ new \in Places
      BY EventsAssumption DEF DispatchInvariant, EventsTypeOK, AddEventListener, Places
<1>2. /\ registrations' = Append(registrations, listener)
      /\ listeners' = Append(listeners, new)
      /\ UNCHANGED <<event, stack, dispatches, spent>>
      BY DEF AddEventListener
<1>3. /\ registrations' \in Seq(Listeners) /\ Len(registrations') = new
      /\ listeners' \in Seq(Places) /\ Len(listeners') = Len(listeners) + 1
      /\ \A i \in DOMAIN listeners : listeners'[i] = listeners[i]
      /\ listeners'[Len(listeners) + 1] = new
      BY <1>1, <1>2
<1>4. DOMAIN listeners = 1..Len(listeners) /\ DOMAIN listeners' = 1..(Len(listeners) + 1)
      BY <1>1, <1>3
<1>5. EventsTypeOK'
      BY <1>2, <1>3 DEF DispatchInvariant, EventsTypeOK
<1>6. \A i \in DOMAIN listeners : listeners[i] \in 1..Len(registrations)
      BY DEF DispatchInvariant, ListKnown, Registered
<1> HIDE DEF new
<1>7. ListDistinct'
  <2> SUFFICES ASSUME NEW i \in DOMAIN listeners', NEW j \in DOMAIN listeners',
                      listeners'[i] = listeners'[j]
               PROVE  i = j
      BY DEF ListDistinct
  <2>1. CASE i \in DOMAIN listeners /\ j \in DOMAIN listeners
        BY <2>1, <1>3 DEF DispatchInvariant, ListDistinct
  <2>2. CASE i \notin DOMAIN listeners /\ j \notin DOMAIN listeners
        BY <2>2, <1>1, <1>4
  <2>3. new \notin 1..Len(registrations)
        BY <1>1 DEF new
  <2>4. \A k \in DOMAIN listeners' : k \notin DOMAIN listeners => listeners'[k] = new
        BY <1>1, <1>3, <1>4
  <2>5. CASE i \in DOMAIN listeners /\ j \notin DOMAIN listeners
        BY <2>3, <2>4, <2>5, <1>3, <1>6
  <2>6. CASE i \notin DOMAIN listeners /\ j \in DOMAIN listeners
        BY <2>3, <2>4, <2>6, <1>3, <1>6
  <2> QED BY <2>1, <2>2, <2>5, <2>6
<1>8. \A i \in DOMAIN listeners' : listeners'[i] \in 1..new
  <2> SUFFICES ASSUME NEW i \in DOMAIN listeners'
               PROVE  listeners'[i] \in 1..new
      OBVIOUS
  <2>1. CASE i \in DOMAIN listeners
        BY <2>1, <1>1, <1>3, <1>6 DEF new
  <2>2. CASE i \notin DOMAIN listeners
        BY <2>2, <1>1, <1>3, <1>4 DEF new
  <2> QED BY <2>1, <2>2
<1>9. ListKnown'
      BY <1>3, <1>8 DEF ListKnown, Registered
<1>10. \A l \in ToSet(listeners') : Registered(l) => l \in ToSet(listeners)
  <2> SUFFICES ASSUME NEW i \in DOMAIN listeners', Registered(listeners'[i])
               PROVE  listeners'[i] \in ToSet(listeners)
      BY DEF ToSet
  <2>1. listeners'[i] # new
        BY <1>1 DEF Registered, new
  <2>2. i \in DOMAIN listeners
        BY <2>1, <1>1, <1>3, <1>4
  <2> QED BY <2>2, <1>3 DEF ToSet
<1>11. StackInTurn'
      BY <1>1, <1>2, <1>3, <1>10, StackStays DEF DispatchInvariant, EventsTypeOK, new
<1>12. SpentGone'
      BY <1>1, <1>2, <1>3, <1>10 DEF DispatchInvariant, SpentGone, Registered, new
<1> QED BY <1>5, <1>7, <1>9, <1>11, <1>12 DEF DispatchInvariant

\* Where only the innermost frame changes and no listener is added.
LEMMA TopStays ==
    ASSUME stack \in Seq(Dispatches), StackInTurn, stack # <<>>,
           registrations \in Seq(Listeners), UNCHANGED registrations,
           ToSet(listeners') \subseteq ToSet(listeners),
           NEW e \in Dispatches, stack' = [stack EXCEPT ![1] = e],
           FrameKnown(e)', FrameInTurn(e)'
    PROVE  stack' \in Seq(Dispatches) /\ StackInTurn'
<1>1. /\ stack' \in Seq(Dispatches) /\ DOMAIN stack' = DOMAIN stack /\ stack'[1] = e
      /\ \A i \in DOMAIN stack : i # 1 => stack'[i] = stack[i]
      BY TopFacts
<1>2. Len(registrations) \in Nat /\ Len(registrations') = Len(registrations)
      OBVIOUS
<1>3. \A d \in Dispatches :
         FrameKnown(d) /\ FrameInTurn(d) => FrameKnown(d)' /\ FrameInTurn(d)'
      BY <1>2, FrameStays
<1>4. \A i \in DOMAIN stack :
         stack[i] \in Dispatches /\ FrameKnown(stack[i]) /\ FrameInTurn(stack[i])
      BY DEF StackInTurn
<1>5. ASSUME NEW i \in DOMAIN stack'
      PROVE  \E d \in Dispatches : d = stack'[i] /\ FrameKnown(d)' /\ FrameInTurn(d)'
  <2>1. CASE i = 1
        BY <2>1, <1>1
  <2>2. CASE i # 1
    <3>1. PICK d \in Dispatches : d = stack[i] /\ FrameKnown(d) /\ FrameInTurn(d)
          BY <1>1, <1>4
    <3> QED BY <3>1, <2>2, <1>1, <1>3
  <2> QED BY <2>1, <2>2
<1> QED BY <1>1, <1>5, StackPrimed

\* A listener leaves the list.
LEMMA ListShrinks ==
    ASSUME listeners \in Seq(Places), ListDistinct, ListKnown, UNCHANGED registrations,
           NEW i \in DOMAIN listeners, listeners' = RemoveAt(listeners, i)
    PROVE  /\ listeners' \in Seq(Places) /\ ListDistinct' /\ ListKnown'
           /\ ToSet(listeners') = ToSet(listeners) \ {listeners[i]}
<1>1. listeners' \in Seq(Places)
      BY RemoveAtFacts
<1>2. \A j, k \in DOMAIN listeners : listeners[j] = listeners[k] => j = k
      BY DEF ListDistinct
<1>3. /\ ToSet(listeners') = ToSet(listeners) \ {listeners[i]}
      /\ \A j, k \in DOMAIN listeners' : listeners'[j] = listeners'[k] => j = k
      BY <1>2, RemoveAtDistinct
<1>4. \A j \in DOMAIN listeners' : listeners'[j] \in ToSet(listeners)
      BY <1>3 DEF ToSet
<1>5. ListKnown'
      BY <1>4 DEF ListKnown, Registered, ToSet
<1> QED BY <1>1, <1>3, <1>5 DEF ListDistinct

LEMMA RemoveListenerKeeps ==
    ASSUME DispatchInvariant, NEW callback, NEW capture,
           RemoveEventListener(callback, capture)
    PROVE  DispatchInvariant'
<1>1. PICK i \in DOMAIN listeners : listeners' = RemoveAt(listeners, i)
      BY DEF RemoveEventListener
<1>2. UNCHANGED <<registrations, event, stack, dispatches, spent>>
      BY DEF RemoveEventListener
<1>3. /\ listeners' \in Seq(Places) /\ ListDistinct' /\ ListKnown'
      /\ ToSet(listeners') = ToSet(listeners) \ {listeners[i]}
      BY <1>1, <1>2, ListShrinks DEF DispatchInvariant, EventsTypeOK
<1>4. EventsTypeOK'
      BY <1>2, <1>3 DEF DispatchInvariant, EventsTypeOK
<1>5. StackInTurn'
      BY <1>2, <1>3, StackStays DEF DispatchInvariant, EventsTypeOK
<1>6. SpentGone'
      BY <1>2, <1>3 DEF DispatchInvariant, SpentGone, Registered
<1> QED BY <1>3, <1>4, <1>5, <1>6 DEF DispatchInvariant

\* The flags of an event.
LEMMA FlagsKeep ==
    ASSUME DispatchInvariant, event' \in [EventObjects -> Flags],
           dispatches' \in 0..MaxDispatches,
           UNCHANGED <<registrations, listeners, stack, spent>>
    PROVE  DispatchInvariant'
<1>1. EventsTypeOK'
      BY DEF DispatchInvariant, EventsTypeOK
<1>2. StackInTurn'
      BY StackStays DEF DispatchInvariant, EventsTypeOK
<1>3. ListDistinct' /\ ListKnown' /\ SpentGone'
      BY DEF DispatchInvariant, ListDistinct, ListKnown, SpentGone, Registered
<1> QED BY <1>1, <1>2, <1>3 DEF DispatchInvariant

\* The frame of a new dispatch names the listeners there are, and none was called.
LEMMA DispatchKeeps ==
    ASSUME DispatchInvariant, NEW e \in EventObjects, DispatchEvent(e)
    PROVE  DispatchInvariant'
<1>1. /\ registrations \in Seq(Listeners) /\ listeners \in Seq(Places)
      /\ event \in [EventObjects -> Flags] /\ stack \in Seq(Dispatches)
      /\ dispatches' \in 0..MaxDispatches
      BY EventsAssumption DEF DispatchInvariant, EventsTypeOK, DispatchEvent
<1>2. UNCHANGED <<registrations, listeners, spent>>
      BY DEF DispatchEvent
<1>3. event' \in [EventObjects -> Flags]
  <2>1. NoFlags \in Flags
        BY DEF NoFlags, Flags
  <2>2. event[e] \in Flags
        BY <1>1
  <2>3. [event[e] EXCEPT !.dispatch = TRUE] \in Flags
        BY <2>2 DEF Flags
  <2>4. \/ event' = [event EXCEPT ![e] = NoFlags]
        \/ event' = [event EXCEPT ![e] = [event[e] EXCEPT !.dispatch = TRUE]]
        BY <1>1 DEF DispatchEvent
  <2> QED BY <1>1, <2>1, <2>3, <2>4
<1>4. CASE UNCHANGED stack
      BY <1>1, <1>2, <1>3, <1>4, FlagsKeep
<1>5. CASE stack' = <<[event |-> e, handlers |-> listeners, next |-> 1,
                       calling |-> FALSE, called |-> {}]>> \o stack
  <2>1. PICK frame : frame = [event |-> e, handlers |-> listeners, next |-> 1,
                              calling |-> FALSE, called |-> {}]
        OBVIOUS
  <2>2. frame \in Dispatches
        BY <2>1, <1>1 DEF Dispatches
  <2>3. /\ stack' \in Seq(Dispatches) /\ Len(stack') = Len(stack) + 1 /\ stack'[1] = frame
        /\ \A i \in 2..(Len(stack) + 1) : stack'[i] = stack[i - 1]
        BY <2>1, <2>2, <1>1, <1>5, PushFacts
  <2>4. FrameKnown(frame)' /\ FrameInTurn(frame)'
    <3>1. \A k \in DOMAIN listeners : listeners[k] \in 1..Len(registrations)
          BY DEF DispatchInvariant, ListKnown, Registered
    <3> QED BY <2>1, <3>1, <1>1, <1>2 DEF FrameKnown, FrameInTurn, Registered
  <2>5. \A d \in Dispatches :
           FrameKnown(d) /\ FrameInTurn(d) => FrameKnown(d)' /\ FrameInTurn(d)'
        BY <1>1, <1>2, FrameStays
  <2>6. ASSUME NEW i \in DOMAIN stack'
        PROVE  \E d \in Dispatches : d = stack'[i] /\ FrameKnown(d)' /\ FrameInTurn(d)'
    <3>1. CASE i = 1
          BY <3>1, <2>2, <2>3, <2>4
    <3>2. CASE i # 1
      <4>1. i - 1 \in DOMAIN stack /\ stack'[i] = stack[i - 1]
            BY <3>2, <2>3, <1>1
      <4>2. PICK d \in Dispatches : d = stack[i - 1] /\ FrameKnown(d) /\ FrameInTurn(d)
            BY <4>1, <1>1 DEF DispatchInvariant, StackInTurn
      <4> QED BY <4>1, <4>2, <2>5
    <3> QED BY <3>1, <3>2
  <2>7. StackInTurn'
        BY <2>6, StackPrimed
  <2>8. EventsTypeOK'
        BY <1>1, <1>2, <1>3, <2>3 DEF DispatchInvariant, EventsTypeOK
  <2>9. ListDistinct' /\ ListKnown' /\ SpentGone'
        BY <1>2 DEF DispatchInvariant, ListDistinct, ListKnown, SpentGone, Registered
  <2> QED BY <2>7, <2>8, <2>9 DEF DispatchInvariant
<1> QED BY <1>4, <1>5 DEF DispatchEvent

LEMMA StopsKeep ==
    ASSUME DispatchInvariant, NEW e \in EventObjects,
           StopPropagation(e) \/ StopImmediatePropagation(e)
    PROVE  DispatchInvariant'
<1>1. event \in [EventObjects -> Flags] /\ dispatches \in 0..MaxDispatches
      BY DEF DispatchInvariant, EventsTypeOK
<1>2. UNCHANGED <<registrations, listeners, stack, dispatches, spent>>
      BY DEF StopPropagation, StopImmediatePropagation
<1>3. event[e] \in Flags
      BY <1>1
<1>4. /\ [event[e] EXCEPT !.stopPropagation = TRUE] \in Flags
      /\ [event[e] EXCEPT !.stopPropagation = TRUE, !.stopImmediate = TRUE] \in Flags
      BY <1>3 DEF Flags
<1>5. \E flags \in Flags : event' = [event EXCEPT ![e] = flags]
      BY <1>4 DEF StopPropagation, StopImmediatePropagation
<1>6. event' \in [EventObjects -> Flags]
      BY <1>1, <1>5
<1> QED BY <1>1, <1>2, <1>6, FlagsKeep

\* What the innermost frame says, once for the steps of a walk.
LEMMA TopFrame ==
    ASSUME DispatchInvariant, stack # <<>>
    PROVE  /\ stack \in Seq(Dispatches) /\ stack[1] \in Dispatches
           /\ FrameKnown(stack[1]) /\ FrameInTurn(stack[1])
           /\ registrations \in Seq(Listeners) /\ listeners \in Seq(Places)
BY DEF DispatchInvariant, EventsTypeOK, StackInTurn

\* The next handler was removed: its turn is over.
LEMMA SkipKeeps ==
    ASSUME DispatchInvariant, SkipListener
    PROVE  DispatchInvariant'
<1>1. stack # <<>> /\ UNCHANGED <<registrations, listeners, event, dispatches, spent>>
      BY DEF SkipListener, InvokesNext
<1>2. PICK d \in Dispatches : d = stack[1] /\ FrameKnown(d) /\ FrameInTurn(d)
      BY <1>1, TopFrame
<1>3. PICK e \in Dispatches : e = [d EXCEPT !.next = @ + 1]
  <2>1. [d EXCEPT !.next = @ + 1] \in Dispatches
        BY DEF Dispatches
  <2> QED BY <2>1
<1>4. /\ d.next \in DOMAIN d.handlers /\ ~d.calling
      /\ d.handlers[d.next] \notin ToSet(listeners)
      /\ stack' = [stack EXCEPT ![1] = e]
  <2>1. d.handlers \in Seq(Places) /\ d.next \in Nat \ {0}
        BY DEF Dispatches
  <2> QED BY <2>1, <1>1, <1>2, <1>3, TopFrame DEF SkipListener, InvokesNext, Handlers
<1>5. FrameKnown(e)'
      BY <1>1, <1>2, <1>3 DEF FrameKnown, Registered, Dispatches
<1>6. FrameInTurn(e)'
  <2>1. /\ e.handlers = d.handlers /\ e.called = d.called /\ e.calling = d.calling
        /\ e.next = d.next + 1 /\ d.next \in Nat /\ d.handlers \in Seq(Places)
        BY <1>3 DEF Dispatches
  <2>2. d.handlers[d.next] \in Places
        BY <2>1, <1>4
  <2>3. ASSUME NEW k \in DOMAIN e.handlers, k < e.next
        PROVE  e.handlers[k] \in e.called \cup (Places \ ToSet(listeners'))
    <3>1. k < d.next \/ k = d.next
          BY <2>1, <2>3
    <3>2. CASE k < d.next
          BY <3>2, <2>1, <1>1, <1>2 DEF FrameInTurn
    <3>3. CASE k = d.next
          BY <3>3, <2>1, <2>2, <1>1, <1>4
    <3> QED BY <3>1, <3>2, <3>3
  <2>4. e.called \subseteq ToSet(e.handlers) /\ ~e.calling
        BY <2>1, <1>2, <1>4 DEF FrameInTurn
  <2> QED BY <2>3, <2>4 DEF FrameInTurn
<1>7. stack' \in Seq(Dispatches) /\ StackInTurn'
      BY <1>1, <1>4, <1>5, <1>6, TopFrame, TopStays DEF DispatchInvariant
<1>8. EventsTypeOK'
      BY <1>1, <1>7 DEF DispatchInvariant, EventsTypeOK
<1>9. ListDistinct' /\ ListKnown' /\ SpentGone'
      BY <1>1 DEF DispatchInvariant, ListDistinct, ListKnown, SpentGone, Registered
<1> QED BY <1>7, <1>8, <1>9 DEF DispatchInvariant

\* The listener that is called is named by the frame, and gone if it is spent.
LEMMA CallKeeps ==
    ASSUME DispatchInvariant, CallListener
    PROVE  DispatchInvariant'
<1>1. stack # <<>> /\ UNCHANGED <<registrations, event, dispatches>>
      BY DEF CallListener, InvokesNext
<1>2. PICK d \in Dispatches : d = stack[1] /\ FrameKnown(d) /\ FrameInTurn(d)
      BY <1>1, TopFrame
<1>3. PICK i \in DOMAIN listeners :
         /\ listeners[i] = d.handlers[d.next]
         /\ stack' = [stack EXCEPT ![1].calling = TRUE,
                                   ![1].called = @ \cup {listeners[i]}]
         /\ IF registrations[listeners[i]].once
            THEN /\ listeners' = RemoveAt(listeners, i)
                 /\ spent' = spent \cup {listeners[i]}
            ELSE UNCHANGED <<listeners, spent>>
      BY <1>2 DEF CallListener, Handlers
<1>4. PICK l \in Places : l = listeners[i]
      BY <1>1, TopFrame
<1>5. d.next \in DOMAIN d.handlers
  <2>1. d.handlers \in Seq(Places) /\ d.next \in Nat \ {0}
        BY DEF Dispatches
  <2> QED BY <2>1, <1>2 DEF CallListener, InvokesNext, Handlers
<1>6. PICK e \in Dispatches : e = [d EXCEPT !.calling = TRUE, !.called = @ \cup {l}]
  <2>1. [d EXCEPT !.calling = TRUE, !.called = @ \cup {l}] \in Dispatches
        BY DEF Dispatches
  <2> QED BY <2>1
<1>7. stack' = [stack EXCEPT ![1] = e]
      BY <1>1, <1>2, <1>3, <1>4, <1>6, TopFrame
<1>8. /\ listeners' \in Seq(Places) /\ ListDistinct' /\ ListKnown'
      /\ ToSet(listeners') \subseteq ToSet(listeners)
      /\ listeners' = RemoveAt(listeners, i) => l \notin ToSet(listeners')
  <2>1. listeners \in Seq(Places) /\ ListDistinct /\ ListKnown
        BY DEF DispatchInvariant, EventsTypeOK
  <2>2. CASE listeners' = RemoveAt(listeners, i)
        BY <2>1, <2>2, <1>1, <1>4, ListShrinks
  <2>3. CASE UNCHANGED listeners /\ ~(listeners' = RemoveAt(listeners, i))
        BY <2>1, <2>3, <1>1 DEF ListDistinct, ListKnown, Registered
  <2> QED BY <2>2, <2>3, <1>3
<1>9. FrameKnown(e)'
      BY <1>1, <1>2, <1>6 DEF FrameKnown, Registered, Dispatches
<1>10. FrameInTurn(e)'
  <2>1. /\ e.handlers = d.handlers /\ e.called = d.called \cup {l} /\ e.next = d.next
        BY <1>6 DEF Dispatches
  <2>2. d.handlers[d.next] = l /\ l \in ToSet(d.handlers)
        BY <1>3, <1>4, <1>5 DEF ToSet
  <2>3. e.called \subseteq ToSet(e.handlers)
        BY <2>1, <2>2, <1>2 DEF FrameInTurn
  <2>4. ASSUME NEW k \in DOMAIN e.handlers, k < e.next
        PROVE  e.handlers[k] \in e.called \cup (Places \ ToSet(listeners'))
        BY <2>1, <2>4, <1>2, <1>8 DEF FrameInTurn
  <2>5. e.next \in DOMAIN e.handlers /\ e.handlers[e.next] \in e.called
        BY <2>1, <2>2, <1>5
  <2> QED BY <2>3, <2>4, <2>5 DEF FrameInTurn
<1>11. stack' \in Seq(Dispatches) /\ StackInTurn'
      BY <1>1, <1>7, <1>8, <1>9, <1>10, TopFrame, TopStays DEF DispatchInvariant
<1>12. Registered(l) /\ (spent' = spent \/ (spent' = spent \cup {l} /\ l \notin ToSet(listeners')))
      BY <1>3, <1>4, <1>8 DEF DispatchInvariant, ListKnown
<1>13. EventsTypeOK'
      BY <1>1, <1>8, <1>11, <1>12 DEF DispatchInvariant, EventsTypeOK
<1>14. SpentGone'
      BY <1>1, <1>8, <1>12 DEF DispatchInvariant, SpentGone, Registered
<1> QED BY <1>8, <1>11, <1>13, <1>14 DEF DispatchInvariant

\* The listener that ran was called: its turn is over.
LEMMA ReturnKeeps ==
    ASSUME DispatchInvariant, ListenerReturns
    PROVE  DispatchInvariant'
<1>1. stack # <<>> /\ UNCHANGED <<registrations, listeners, event, dispatches, spent>>
      BY DEF ListenerReturns
<1>2. PICK d \in Dispatches : d = stack[1] /\ FrameKnown(d) /\ FrameInTurn(d)
      BY <1>1, TopFrame
<1>3. PICK e \in Dispatches : e = [d EXCEPT !.calling = FALSE, !.next = @ + 1]
  <2>1. d.next + 1 \in Nat \ {0}
        BY DEF Dispatches
  <2>2. \A n \in Nat \ {0} : [d EXCEPT !.calling = FALSE, !.next = n] \in Dispatches
        BY DEF Dispatches
  <2> QED BY <2>1, <2>2
<1>4. d.calling /\ stack' = [stack EXCEPT ![1] = e]
      BY <1>1, <1>2, <1>3, TopFrame DEF ListenerReturns
<1>5. FrameKnown(e)'
      BY <1>1, <1>2, <1>3 DEF FrameKnown, Registered, Dispatches
<1>6. FrameInTurn(e)'
  <2>1. /\ e.handlers = d.handlers /\ e.called = d.called /\ ~e.calling
        /\ e.next = d.next + 1 /\ d.next \in Nat /\ d.handlers \in Seq(Places)
        BY <1>3 DEF Dispatches
  <2>2. ASSUME NEW k \in DOMAIN e.handlers, k < e.next
        PROVE  e.handlers[k] \in e.called \cup (Places \ ToSet(listeners'))
    <3>1. k < d.next \/ k = d.next
          BY <2>1, <2>2
    <3>2. CASE k < d.next
          BY <3>2, <2>1, <1>1, <1>2 DEF FrameInTurn
    <3>3. CASE k = d.next
          BY <3>3, <2>1, <1>2, <1>4 DEF FrameInTurn
    <3> QED BY <3>1, <3>2, <3>3
  <2>3. e.called \subseteq ToSet(e.handlers)
        BY <2>1, <1>2 DEF FrameInTurn
  <2> QED BY <2>1, <2>2, <2>3 DEF FrameInTurn
<1>7. stack' \in Seq(Dispatches) /\ StackInTurn'
      BY <1>1, <1>4, <1>5, <1>6, TopFrame, TopStays DEF DispatchInvariant
<1>8. EventsTypeOK'
      BY <1>1, <1>7 DEF DispatchInvariant, EventsTypeOK
<1>9. ListDistinct' /\ ListKnown' /\ SpentGone'
      BY <1>1 DEF DispatchInvariant, ListDistinct, ListKnown, SpentGone, Registered
<1> QED BY <1>7, <1>8, <1>9 DEF DispatchInvariant

LEMMA DispatchReturnsKeeps ==
    ASSUME DispatchInvariant, DispatchReturns
    PROVE  DispatchInvariant'
<1>1. /\ stack # <<>> /\ UNCHANGED <<registrations, listeners, dispatches, spent>>
      /\ event' = [event EXCEPT ![stack[1].event] = NoFlags] /\ stack' = Tail(stack)
      BY DEF DispatchReturns
<1>2. /\ stack \in Seq(Dispatches) /\ event \in [EventObjects -> Flags]
      /\ registrations \in Seq(Listeners)
      BY DEF DispatchInvariant, EventsTypeOK
<1>3. NoFlags \in Flags
      BY DEF NoFlags, Flags
<1>4. event' \in [EventObjects -> Flags]
      BY <1>1, <1>2, <1>3
<1>5. /\ stack' \in Seq(Dispatches)
      /\ \A i \in DOMAIN stack' : i + 1 \in DOMAIN stack /\ stack'[i] = stack[i + 1]
      BY <1>1, <1>2
<1>6. \A d \in Dispatches :
         FrameKnown(d) /\ FrameInTurn(d) => FrameKnown(d)' /\ FrameInTurn(d)'
      BY <1>1, <1>2, FrameStays
<1>7. ASSUME NEW i \in DOMAIN stack'
      PROVE  \E d \in Dispatches : d = stack'[i] /\ FrameKnown(d)' /\ FrameInTurn(d)'
  <2>1. PICK d \in Dispatches : d = stack[i + 1] /\ FrameKnown(d) /\ FrameInTurn(d)
        BY <1>2, <1>5 DEF DispatchInvariant, StackInTurn
  <2> QED BY <2>1, <1>5, <1>6
<1>8. StackInTurn'
      BY <1>7, StackPrimed
<1>9. EventsTypeOK'
      BY <1>1, <1>4, <1>5 DEF DispatchInvariant, EventsTypeOK
<1>10. ListDistinct' /\ ListKnown' /\ SpentGone'
      BY <1>1 DEF DispatchInvariant, ListDistinct, ListKnown, SpentGone, Registered
<1> QED BY <1>8, <1>9, <1>10 DEF DispatchInvariant

-----------------------------------------------------------------------------
(* The theorems.                                                              *)

\* The invariant holds throughout: user code that adds, removes, stops and
\* dispatches (events.js:185-284), and the walk of a dispatch (events.js:134-176).
THEOREM DispatchInvariantHolds == EventsSpec => []DispatchInvariant
<1>1. ASSUME DispatchInvariant, [EventsNext]_eventsVars
      PROVE  DispatchInvariant'
  <2>1. ASSUME NEW listener \in Listeners, AddEventListener(listener)
        PROVE  DispatchInvariant'
        BY <1>1, <2>1, AddKeeps
  <2>2. ASSUME NEW callback \in Callbacks, NEW capture \in BOOLEAN,
               RemoveEventListener(callback, capture)
        PROVE  DispatchInvariant'
        BY <1>1, <2>2, RemoveListenerKeeps
  <2>3. ASSUME NEW e \in EventObjects, DispatchEvent(e)
        PROVE  DispatchInvariant'
        BY <1>1, <2>3, DispatchKeeps
  <2>4. ASSUME NEW e \in EventObjects, StopPropagation(e) \/ StopImmediatePropagation(e)
        PROVE  DispatchInvariant'
        BY <1>1, <2>4, StopsKeep
  <2>5. CASE SkipListener
        BY <1>1, <2>5, SkipKeeps
  <2>6. CASE CallListener
        BY <1>1, <2>6, CallKeeps
  <2>7. CASE ListenerReturns
        BY <1>1, <2>7, ReturnKeeps
  <2>8. CASE DispatchReturns
        BY <1>1, <2>8, DispatchReturnsKeeps
  <2>9. CASE UNCHANGED eventsVars
    <3>1. DispatchInvariant /\ event \in [EventObjects -> Flags]
          /\ dispatches \in 0..MaxDispatches
          BY <1>1 DEF DispatchInvariant, EventsTypeOK
    <3> QED BY <3>1, <2>9, FlagsKeep DEF eventsVars
  <2> QED BY <1>1, <2>1, <2>2, <2>3, <2>4, <2>5, <2>6, <2>7, <2>8, <2>9 DEF EventsNext
<1> QED BY <1>1, DispatchInvariantInit, PTL DEF EventsSpec

\* The listener that is called is in the list, and none that is there is spent.
LEMMA CallListed ==
    ASSUME DispatchInvariant, CallListener, NEW l \in Places, Calls(l)
    PROVE  l \in ToSet(listeners) \ spent
<1>1. PICK i \in DOMAIN listeners : listeners[i] = Handlers(stack[1])[stack[1].next]
      BY DEF CallListener
<1>2. l \in ToSet(listeners)
      BY <1>1 DEF Calls, Handlers, ToSet
<1> QED BY <1>2 DEF DispatchInvariant, SpentGone

\* No other step calls a listener: the frame of the innermost dispatch stays, or goes
\* on without calling, or is another one.
LEMMA OthersCallNothing ==
    ASSUME DispatchInvariant, [EventsNext]_eventsVars, NEW l \in Places, Calls(l)
    PROVE  CallListener
<1>1. /\ stack \in Seq(Dispatches) /\ stack # <<>> /\ Len(stack') = Len(stack)
      /\ stack[1] \in Dispatches /\ ~stack[1].calling /\ stack'[1].calling
      BY DEF Calls, DispatchInvariant, EventsTypeOK
<1>2. stack' # stack
      BY <1>1
<1>3. ~UserCode
      BY <1>1 DEF UserCode
<1>4. ASSUME SkipListener
      PROVE  FALSE
  <2>1. stack' = [stack EXCEPT ![1] = [stack[1] EXCEPT !.next = stack[1].next + 1]]
        BY <1>4 DEF SkipListener
  <2>2. stack'[1].calling = stack[1].calling
        BY <2>1, <1>1 DEF Dispatches
  <2> QED BY <2>2, <1>1
<1>5. ASSUME DispatchReturns
      PROVE  FALSE
  <2>1. stack' = Tail(stack)
        BY <1>5 DEF DispatchReturns
  <2> QED BY <2>1, <1>1
<1>6. ~ListenerReturns
      BY <1>1 DEF ListenerReturns
<1> QED BY <1>2, <1>3, <1>4, <1>5, <1>6 DEF EventsNext, eventsVars, AddEventListener,
        RemoveEventListener, DispatchEvent, StopPropagation, StopImmediatePropagation

\* A dispatch calls the listeners of its beginning in turn, each that is still in the
\* list: none that was removed, and none that asked to be called once and was,
\* whatever the listeners do meanwhile (invokeEventListeners, events.js:134-176).
THEOREM EachInTurnCorrect == EventsSpec => EachInTurn
<1>1. DispatchInvariant => InTurn
  <2> SUFFICES ASSUME DispatchInvariant
               PROVE  InTurn
      OBVIOUS
  <2>1. ASSUME NEW i \in DOMAIN stack
        PROVE  /\ stack[i].called \subseteq ToSet(stack[i].handlers)
               /\ \A k \in DOMAIN stack[i].handlers \cap 1..(stack[i].next - 1) :
                     stack[i].handlers[k] \in stack[i].called \cup (Places \ ToSet(listeners))
    <3>1. stack[i] \in Dispatches /\ FrameInTurn(stack[i])
          BY DEF DispatchInvariant, EventsTypeOK, StackInTurn
    <3>2. stack[i].next \in Nat
          BY <3>1 DEF Dispatches
    <3> QED BY <3>1, <3>2 DEF FrameInTurn
  <2>2. \A l \in spent : l \notin ToSet(listeners)
        BY DEF DispatchInvariant, SpentGone
  <2> QED BY <2>1, <2>2 DEF InTurn
<1>2. DispatchInvariant /\ [EventsNext]_eventsVars
         => [\A l \in Places : Calls(l) => l \in ToSet(listeners) \ spent]_eventsVars
      BY CallListed, OthersCallNothing
<1> QED BY <1>1, <1>2, DispatchInvariantHolds, PTL DEF EventsSpec, EachInTurn
===========================================================================
