----------------------- MODULE HandOverHandListProofs -----------------------
(***************************************************************************)
(* Proofs about the sorted list with hand-over-hand locking and about the  *)
(* queue made of it, for any threads, values and number of calls; and, at  *)
(* the end, about the lock of a node.                                      *)
(***************************************************************************)
EXTENDS QueueSll, TLAPS, FiniteSetTheorems

-----------------------------------------------------------------------------
(***************************************************************************)
(* Sorted lists.  IsList(h, S, succ, d): the nodes of S, with values d, are *)
(* a sorted list from h.  Each change the code makes to a list keeps it one.*)
(***************************************************************************)
IsList(h, S, succ, d) ==
  /\ S \subseteq Nodes /\ h \in NodeOrAddress
  /\ succ \in [Nodes -> NodeOrAddress] /\ d \in [Nodes -> ValueOrEmpty]
  /\ SortedFrom(h, S, succ, d)
  /\ \A n \in S : d[n] \in Values

LEMMA ValuesAreInts ==
  /\ Values \subseteq Int /\ Empty \notin Values
  /\ Null \notin Nodes /\ Wild \notin Nodes /\ FreshNext \subseteq {Null, Wild}
  /\ NodeOrAddress = Nodes \cup {Null, Wild} /\ ValueOrEmpty = Values \cup {Empty}
BY HandOverHandAssumption DEF NodeOrAddress, ValueOrEmpty

\* The head is the least element, and only an empty list has none.
LEMMA HeadIsLeast ==
  ASSUME NEW h, NEW S, NEW succ, NEW d, IsList(h, S, succ, d)
  PROVE  /\ h \in Nodes => h \in S /\ \A m \in S : d[h] <= d[m]
         /\ h \notin Nodes => S = {}
BY ValuesAreInts DEF IsList, SortedFrom

\* The successor of an element is the next greater one, and the last element
\* has none.
LEMMA SuccessorIsNext ==
  ASSUME NEW h, NEW S, NEW succ, NEW d, IsList(h, S, succ, d), NEW n \in S
  PROVE  /\ succ[n] \in Nodes =>
              /\ succ[n] \in S /\ d[n] < d[succ[n]]
              /\ \A m \in S : d[m] <= d[n] \/ d[succ[n]] <= d[m]
         /\ succ[n] \notin Nodes => succ[n] \in FreshNext /\ \A m \in S : d[m] <= d[n]
BY ValuesAreInts DEF IsList, SortedFrom

LEMMA LinkFirst ==
  ASSUME NEW h, NEW S, NEW succ, NEW d, IsList(h, S, succ, d),
         NEW n \in Nodes \ S, NEW v \in Values, NEW x,
         \/ h = Null /\ x \in FreshNext
         \/ h \in Nodes /\ v < d[h] /\ x = h,
         NEW sx, sx = [succ EXCEPT ![n] = x], NEW dx, dx = [d EXCEPT ![n] = v]
  PROVE  IsList(n, S \cup {n}, sx, dx)
<1> DEFINE T == S \cup {n}
<1>1. /\ T \subseteq Nodes /\ sx \in [Nodes -> NodeOrAddress] /\ dx \in [Nodes -> ValueOrEmpty]
      /\ \A m \in T : dx[m] \in Values
  BY ValuesAreInts DEF IsList
<1>2. \A m \in S : dx[m] = d[m] /\ sx[m] = succ[m] /\ m # n /\ d[m] \in Int /\ m \in Nodes
  BY ValuesAreInts DEF IsList
<1>3. dx[n] = v /\ sx[n] = x
  BY DEF IsList
<1>4. \A m \in S : v < d[m]
  BY HeadIsLeast, ValuesAreInts, <1>2
<1>5. x \in S => x = h /\ \A m \in S : d[x] <= d[m]
  BY HeadIsLeast, ValuesAreInts
<1>6. x # n
  BY HeadIsLeast, ValuesAreInts
<1>7. x \notin S => x \in FreshNext /\ S = {}
  BY HeadIsLeast, ValuesAreInts
<1>8. SortedFrom(n, T, sx, dx)
  <2>1. \A m \in T : dx[n] <= dx[m]
    BY <1>2, <1>3, <1>4, ValuesAreInts
  <2>2. ASSUME NEW m \in T
        PROVE  IF sx[m] \in T
               THEN dx[m] < dx[sx[m]] /\ \A k \in T : dx[k] <= dx[m] \/ dx[sx[m]] <= dx[k]
               ELSE sx[m] \in FreshNext /\ \A k \in T : dx[k] <= dx[m]
    <3>1. CASE m = n
      BY <1>2, <1>3, <1>4, <1>5, <1>6, <1>7, <3>1, ValuesAreInts
    <3>2. CASE m # n
      <4>1. m \in S /\ sx[m] = succ[m] /\ dx[m] = d[m]
        BY <3>2, <1>2
      <4>2. n \notin S /\ succ[m] # n
        BY <4>1, SuccessorIsNext, ValuesAreInts
      <4>3. CASE succ[m] \in Nodes
        BY <1>2, <1>3, <1>4, <4>1, <4>2, <4>3, SuccessorIsNext, ValuesAreInts
      <4>4. CASE succ[m] \notin Nodes
        BY <1>2, <1>3, <1>4, <4>1, <4>2, <4>4, SuccessorIsNext, ValuesAreInts
      <4>5. QED
        BY <4>3, <4>4
    <3>3. QED
      BY <3>1, <3>2
  <2>3. \A m, k \in T : dx[m] = dx[k] => m = k
    BY <1>2, <1>3, <1>4, ValuesAreInts DEF IsList, SortedFrom
  <2>4. QED
    BY <2>1, <2>2, <2>3 DEF SortedFrom
<1>9. QED
  BY <1>1, <1>8, ValuesAreInts DEF IsList

LEMMA UnlinkFirst ==
  ASSUME NEW h, NEW S, NEW succ, NEW d, IsList(h, S, succ, d), h \in Nodes
  PROVE  IsList(succ[h], S \ {h}, succ, d)
<1>1. h \in S /\ \A m \in S : d[h] <= d[m] /\ d[m] \in Int
  BY HeadIsLeast, ValuesAreInts DEF IsList
<1>2. \A m, k \in S : d[m] = d[k] => m = k
  BY DEF IsList, SortedFrom
<1>3. \A m \in S : succ[m] # h
  BY <1>1, SuccessorIsNext, ValuesAreInts
<1>4. CASE succ[h] \in Nodes
  <2>1. succ[h] \in S \ {h} /\ \A m \in S \ {h} : d[succ[h]] <= d[m]
    BY <1>1, <1>2, <1>4, SuccessorIsNext
  <2>2. QED
    BY <1>3, <2>1 DEF IsList, SortedFrom
<1>5. CASE succ[h] \notin Nodes
  <2>1. S \ {h} = {} /\ succ[h] \in FreshNext
    BY <1>1, <1>2, <1>5, SuccessorIsNext
  <2>2. QED
    BY <2>1, ValuesAreInts DEF IsList, SortedFrom
<1>6. QED
  BY <1>4, <1>5

LEMMA LinkAfter ==
  ASSUME NEW h, NEW S, NEW succ, NEW d, IsList(h, S, succ, d),
         NEW c \in S, NEW n \in Nodes \ S, NEW v \in Values,
         d[c] < v, succ[c] = Null \/ (succ[c] \in Nodes /\ v < d[succ[c]]),
         NEW sx, sx = [succ EXCEPT ![n] = succ[c], ![c] = n],
         NEW dx, dx = [d EXCEPT ![n] = v]
  PROVE  IsList(h, S \cup {n}, sx, dx)
<1> DEFINE T == S \cup {n}
<1>1. /\ T \subseteq Nodes /\ sx \in [Nodes -> NodeOrAddress] /\ dx \in [Nodes -> ValueOrEmpty]
      /\ \A m \in T : dx[m] \in Values
  BY ValuesAreInts DEF IsList
<1>2. \A m \in S : dx[m] = d[m] /\ (m # c => sx[m] = succ[m]) /\ m # n /\ d[m] \in Int /\ m \in Nodes
  BY ValuesAreInts DEF IsList
<1>3. dx[n] = v /\ sx[n] = succ[c] /\ sx[c] = n /\ v \in Int
  BY ValuesAreInts DEF IsList
<1>4. \A m \in S : d[m] < v \/ v < d[m]
  BY <1>2, SuccessorIsNext, ValuesAreInts
<1>5. \A m \in S : d[m] <= d[c] \/ v < d[m]
  BY <1>2, SuccessorIsNext, ValuesAreInts
<1>6. \A m \in S : succ[m] # n
  BY SuccessorIsNext, ValuesAreInts
<1>7. \A m, k \in S : d[m] = d[k] => m = k
  BY DEF IsList, SortedFrom
<1>8. SortedFrom(h, T, sx, dx)
  <2>1. h \in T /\ \A m \in T : dx[h] <= dx[m]
    <3>1. h \in S /\ \A m \in S : d[h] <= d[m]
      BY HeadIsLeast
    <3>2. QED
      BY <3>1, <1>2, <1>3
  <2>2. ASSUME NEW m \in T
        PROVE  IF sx[m] \in T
               THEN dx[m] < dx[sx[m]] /\ \A k \in T : dx[k] <= dx[m] \/ dx[sx[m]] <= dx[k]
               ELSE sx[m] \in FreshNext /\ \A k \in T : dx[k] <= dx[m]
    <3>1. CASE m = n
      <4>1. CASE succ[c] \in Nodes
        <5>1. succ[c] \in S /\ \A k \in S : d[k] <= d[c] \/ d[succ[c]] <= d[k]
          BY <4>1, SuccessorIsNext
        <5>2. v < d[succ[c]] /\ \A k \in S : d[k] < v \/ d[succ[c]] <= d[k]
          BY <1>2, <1>3, <4>1, <5>1, ValuesAreInts
        <5>3. sx[m] = succ[c] /\ dx[m] = v /\ dx[sx[m]] = d[succ[c]] /\ sx[m] \in T
          BY <1>2, <1>3, <3>1, <5>1
        <5>4. \A k \in T : dx[k] <= dx[m] \/ dx[sx[m]] <= dx[k]
          BY <1>2, <1>3, <3>1, <5>2, <5>3
        <5>5. QED
          BY <5>2, <5>3, <5>4
      <4>2. CASE succ[c] \notin Nodes
        <5>1. succ[c] \in FreshNext /\ \A k \in S : d[k] <= d[c]
          BY <4>2, SuccessorIsNext
        <5>2. QED
          BY <1>1, <1>2, <1>3, <3>1, <4>2, <5>1
      <4>3. QED
        BY <4>1, <4>2
    <3>2. CASE m = c
      <4>1. sx[m] = n /\ dx[m] = d[c] /\ dx[n] = v /\ n \in T
        BY <1>2, <1>3, <3>2
      <4>2. \A k \in T : dx[k] <= d[c] \/ v <= dx[k]
        BY <1>2, <1>3, <1>5
      <4>3. QED
        BY <4>1, <4>2
    <3>3. CASE m \in S /\ m # c
      <4>1. sx[m] = succ[m] /\ dx[m] = d[m] /\ succ[m] # n
        BY <3>3, <1>2, <1>6
      <4>2. CASE succ[m] \in Nodes
        <5>1. /\ succ[m] \in S /\ d[m] < d[succ[m]]
              /\ \A k \in S : d[k] <= d[m] \/ d[succ[m]] <= d[k]
          BY <3>3, <4>2, SuccessorIsNext
        <5>2. v <= d[m] \/ d[succ[m]] <= v
          <6>1. d[c] <= d[m] \/ d[succ[m]] <= d[c]
            BY <5>1
          <6>2. d[m] # d[c]
            BY <1>7, <3>3
          <6>3. v < d[m] \/ d[m] <= d[c]
            BY <1>5, <3>3
          <6>4. QED
            BY <1>2, <1>3, <3>3, <5>1, <6>1, <6>2, <6>3
        <5>3. QED
          BY <1>2, <1>3, <3>3, <4>1, <5>1, <5>2
      <4>3. CASE succ[m] \notin Nodes
        <5>1. succ[m] \in FreshNext /\ \A k \in S : d[k] <= d[m]
          BY <3>3, <4>3, SuccessorIsNext
        <5>2. v <= d[m]
          BY <1>2, <1>3, <1>5, <1>7, <3>3, <5>1
        <5>3. QED
          BY <1>1, <1>2, <1>3, <3>3, <4>1, <4>3, <5>1, <5>2
      <4>4. QED
        BY <4>2, <4>3
    <3>4. QED
      BY <3>1, <3>2, <3>3
  <2>3. \A m, k \in T : dx[m] = dx[k] => m = k
    BY <1>2, <1>3, <1>4, <1>7
  <2>4. QED
    BY <2>1, <2>2, <2>3 DEF SortedFrom
<1>9. QED
  BY <1>1, <1>8 DEF IsList

LEMMA UnlinkAfter ==
  ASSUME NEW h, NEW S, NEW succ, NEW d, IsList(h, S, succ, d),
         NEW c \in S, succ[c] \in Nodes,
         NEW sx, sx = [succ EXCEPT ![c] = succ[succ[c]]]
  PROVE  IsList(h, S \ {succ[c]}, sx, d)
<1> DEFINE n == succ[c]
           T == S \ {n}
<1>1. n \in S /\ n # c /\ d[c] < d[n] /\ \A k \in S : d[k] <= d[c] \/ d[n] <= d[k]
  <2>1. n \in S /\ d[c] < d[n] /\ \A k \in S : d[k] <= d[c] \/ d[n] <= d[k]
    BY SuccessorIsNext
  <2>2. d[c] \in Int
    BY ValuesAreInts DEF IsList
  <2>3. QED
    BY <2>1, <2>2
<1>2. \A m \in S : d[m] \in Int /\ m \in Nodes /\ (m # c => sx[m] = succ[m])
  BY ValuesAreInts DEF IsList
<1>3. sx[c] = succ[n] /\ sx \in [Nodes -> NodeOrAddress]
  BY <1>1 DEF IsList
<1>4. \A m, k \in S : d[m] = d[k] => m = k
  BY DEF IsList, SortedFrom
<1> HIDE DEF n
<1>5. h \in T /\ \A m \in T : d[h] <= d[m]
  <2>1. h \in S /\ \A m \in S : d[h] <= d[m]
    BY <1>1, HeadIsLeast
  <2>2. h # n
    BY <1>1, <1>2, <2>1
  <2>3. QED
    BY <2>1, <2>2
<1>6. ASSUME NEW m \in T
      PROVE  IF sx[m] \in T
             THEN d[m] < d[sx[m]] /\ \A k \in T : d[k] <= d[m] \/ d[sx[m]] <= d[k]
             ELSE sx[m] \in FreshNext /\ \A k \in T : d[k] <= d[m]
  <2>1. CASE m = c
    <3>1. CASE succ[n] \in Nodes
      <4>1. /\ succ[n] \in S /\ d[n] < d[succ[n]]
            /\ \A k \in S : d[k] <= d[n] \/ d[succ[n]] <= d[k]
        BY <1>1, <3>1, SuccessorIsNext
      <4>2. QED
        BY <1>1, <1>2, <1>3, <1>4, <2>1, <4>1
    <3>2. CASE succ[n] \notin Nodes
      <4>1. succ[n] \in FreshNext /\ \A k \in S : d[k] <= d[n]
        BY <1>1, <3>2, SuccessorIsNext
      <4>2. QED
        BY <1>1, <1>2, <1>3, <1>4, <2>1, <3>2, <4>1
    <3>3. QED
      BY <3>1, <3>2
  <2>2. CASE m # c
    <3>1. sx[m] = succ[m] /\ m \in S
      BY <1>2, <2>2
    <3>2. CASE succ[m] \in Nodes
      <4>1. /\ succ[m] \in S /\ d[m] < d[succ[m]]
            /\ \A k \in S : d[k] <= d[m] \/ d[succ[m]] <= d[k]
        BY <3>1, <3>2, SuccessorIsNext
      <4>2. succ[m] # n
        BY <1>1, <1>2, <1>4, <2>2, <3>1, <4>1
      <4>3. QED
        BY <3>1, <4>1, <4>2
    <3>3. CASE succ[m] \notin Nodes
      BY <1>2, <3>1, <3>3, SuccessorIsNext
    <3>4. QED
      BY <3>2, <3>3
  <2>3. QED
    BY <2>1, <2>2
<1>7. SortedFrom(h, T, sx, d)
  BY <1>4, <1>5, <1>6 DEF SortedFrom
<1>8. QED
  BY <1>3, <1>7 DEF IsList, n

\* What happens to nodes outside the list does not touch it.
LEMMA OutsideIsFree ==
  ASSUME NEW h, NEW S, NEW succ, NEW d, IsList(h, S, succ, d),
         NEW sx \in [Nodes -> NodeOrAddress], NEW dx \in [Nodes -> ValueOrEmpty],
         \A m \in S : sx[m] = succ[m] /\ dx[m] = d[m]
  PROVE  IsList(h, S, sx, dx)
<1>1. \A m \in S : succ[m] \in S \/ succ[m] \notin Nodes
  BY SuccessorIsNext
<1>2. SortedFrom(h, S, sx, dx)
  BY HeadIsLeast DEF IsList, SortedFrom
<1>3. QED
  BY <1>2 DEF IsList

-----------------------------------------------------------------------------
(***************************************************************************)
(* The inductive invariant of the list.                                    *)
(***************************************************************************)
Locking == {"insert", "remove", "removeFirst", "empty"}

\* What a thread's locals say at each place of its call.
CallFits(t) ==
  /\ op[t] \in {"insert", "remove", "search"} => arg[t] \in Values
  /\ pc[t] = "idle" <=> op[t] = "none"
  /\ pc[t] \in {"list", "top"} => op[t] \in Locking
  /\ pc[t] = "walk" => op[t] \in {"insert", "remove"}
  /\ pc[t] = "scan" => op[t] \in {"search", "size"}
  /\ pc[t] # "done" => ret[t] = Empty
  /\ op[t] # "size" => counter[t] = 0

\* HoldersStandInList, thread by thread.
Holder(t) ==
  /\ pc[t] = "top" => listLock = t /\ current[t] = head
  /\ pc[t] = "walk" =>
       /\ current[t] \in live /\ nodeLock[current[t]] = t /\ nxt[t] = NextOf(t)
       /\ op[t] = "insert" => data[current[t]] < arg[t]
       /\ op[t] = "remove" => data[current[t]] # arg[t]

\* There is a node for every insert under way.
RoomStays ==
  /\ IsFiniteSet(Fresh) /\ IsFiniteSet(Inserting)
  /\ Cardinality(Inserting) <= Cardinality(Fresh)

CoreInv == TypeOK /\ ListIsSorted /\ HoldersStandInList /\ \A t \in Threads : CallFits(t)
IInv == CoreInv /\ RoomStays

\* The variables of the list as a list.
Listed == IsList(head, live, nextNode, data)

LEMMA ListOfTypes ==
  /\ TypeOK /\ ListIsSorted => Listed
  /\ TypeOK' /\ Listed' => ListIsSorted'
  /\ TypeOK /\ Listed => ListIsSorted
BY ValuesAreInts DEF TypeOK, ListIsSorted, Listed, IsList

LEMMA HolderByThread ==
  /\ HoldersStandInList <=> \A t \in Threads : Holder(t)
  /\ HoldersStandInList' <=> \A t \in Threads : Holder(t)'
BY DEF HoldersStandInList, Holder

LEMMA CoreFacts ==
  ASSUME CoreInv
  PROVE  /\ TypeOK /\ Listed
         /\ \A t \in Threads : Holder(t) /\ CallFits(t)
BY ListOfTypes, HolderByThread DEF CoreInv

\* Elements of the list are nodes with a value.
LEMMA ElementFacts ==
  ASSUME Listed, NEW n \in live
  PROVE  n \in Nodes /\ data[n] \in Values /\ data[n] \in Int /\ data[n] # Empty
BY ValuesAreInts DEF Listed, IsList

LEMMA HeadFacts ==
  ASSUME Listed
  PROVE  /\ head \in Nodes => head \in live /\ \A m \in live : data[head] <= data[m]
         /\ head \notin Nodes => live = {}
BY HeadIsLeast DEF Listed

LEMMA SuccessorFacts ==
  ASSUME Listed, NEW n \in live
  PROVE  /\ nextNode[n] \in Nodes =>
              /\ nextNode[n] \in live /\ data[n] < data[nextNode[n]]
              /\ \A m \in live : data[m] <= data[n] \/ data[nextNode[n]] <= data[m]
         /\ nextNode[n] \notin Nodes =>
              nextNode[n] \in FreshNext /\ \A m \in live : data[m] <= data[n]
BY SuccessorIsNext DEF Listed

LocalsKept(u) ==
  /\ pc'[u] = pc[u] /\ op'[u] = op[u] /\ arg'[u] = arg[u] /\ calls'[u] = calls[u]
  /\ current'[u] = current[u] /\ nxt'[u] = nxt[u] /\ ret'[u] = ret[u] /\ counter'[u] = counter[u]

\* A free node is there for the thread that needs one.
LEMMA NodeForInsert ==
  ASSUME RoomStays, NEW t \in Threads, op[t] = "insert", pc[t] # "done"
  PROVE  NewNode \in Nodes /\ data[NewNode] = Empty
<1>1. t \in Inserting
  BY DEF Inserting
<1>2. Cardinality(Inserting) # 0
  BY <1>1, FS_EmptySet DEF RoomStays
<1>3. Fresh # {}
  BY <1>2, FS_EmptySet, FS_CardinalityType DEF RoomStays
<1>4. QED
  BY <1>3 DEF NewNode, Fresh

-----------------------------------------------------------------------------
(***************************************************************************)
(* One lemma per action: the list stays a list, and whoever holds a lock   *)
(* still stands where it stood.                                            *)
(***************************************************************************)
SoundAfter == Listed' /\ \A u \in Threads : Holder(u)'

\* A step that leaves the list alone and moves t out of the locks' reach.
LEMMA LeaveList ==
  ASSUME CoreInv, NEW t \in Threads, UNCHANGED <<list, live>>,
         \A u \in Threads \ {t} : LocalsKept(u),
         pc'[t] \notin {"top", "walk"},
         \A u \in Threads \ {t} : listLock = u => listLock' = u,
         \A u \in Threads \ {t}, n \in Nodes : nodeLock[n] = u => nodeLock'[n] = u
  PROVE  SoundAfter
<1>1. Listed'
  BY CoreFacts DEF Listed, list
<1>2. ASSUME NEW u \in Threads PROVE Holder(u)'
  <2>1. CASE u = t
    BY <2>1 DEF Holder
  <2>2. CASE u # t
    BY <2>2, CoreFacts DEF Holder, LocalsKept, list, Listed, IsList, NextOf
  <2>3. QED
    BY <2>1, <2>2
<1>3. QED
  BY <1>1, <1>2 DEF SoundAfter

LEMMA LockListSound ==
  ASSUME CoreInv, NEW t \in Threads, LockList(t)
  PROVE  SoundAfter
<1>1. \A u \in Threads \ {t} : LocalsKept(u)
  BY DEF LockList, Goto, Stand, call, LocalsKept, CoreInv, TypeOK
<1>2. Listed'
  BY CoreFacts DEF LockList, Listed, list
<1>3. ASSUME NEW u \in Threads PROVE Holder(u)'
  <2>1. CASE u = t
    BY <2>1 DEF Holder, LockList, Goto, Stand, list, CoreInv, TypeOK
  <2>2. CASE u # t
    BY <1>1, <2>2, CoreFacts, HandOverHandAssumption
       DEF Holder, LockList, LocalsKept, list, Listed, IsList, NextOf
  <2>3. QED
    BY <2>1, <2>2
<1>4. QED
  BY <1>2, <1>3 DEF SoundAfter

LEMMA EnterListSound ==
  ASSUME CoreInv, NEW t \in Threads, pc[t] = "top", EnterList(t)
  PROVE  SoundAfter
<1> DEFINE h == current[t]
<1>1. \A u \in Threads \ {t} : LocalsKept(u)
  BY DEF EnterList, Goto, Stand, call, LocalsKept, CoreInv, TypeOK
<1>2. Listed'
  BY CoreFacts DEF EnterList, Listed, list
<1>3. h = head /\ listLock = t /\ h \in live /\ h \in Nodes
  BY CoreFacts, HeadIsLeast DEF EnterList, Holder, Listed
<1>4. ASSUME NEW u \in Threads PROVE Holder(u)'
  <2>1. CASE u = t
    BY <1>3, <2>1, CoreFacts, ValuesAreInts
       DEF Holder, EnterList, Goto, Stand, list, call, TypeOK, NextOf
  <2>2. CASE u # t
    BY <1>1, <1>3, <2>2, CoreFacts, HandOverHandAssumption
       DEF Holder, EnterList, LocalsKept, list, Listed, IsList, NextOf, TypeOK
  <2>3. QED
    BY <2>1, <2>2
<1>5. QED
  BY <1>2, <1>4 DEF SoundAfter

\* A node enters the list before its head, or the first one does.
LEMMA LinkNewSound ==
  ASSUME CoreInv, NEW t \in Threads, pc[t] = "top", op[t] = "insert",
         NEW n \in Nodes, data[n] = Empty, NEW x,
         \/ current[t] = Null /\ x \in FreshNext
         \/ current[t] \in Nodes /\ data[current[t]] > arg[t] /\ x = current[t],
         LinkNew(t, n, x), FinishTop(t, arg[t])
  PROVE  SoundAfter
<1>1. \A u \in Threads \ {t} : LocalsKept(u)
  BY DEF FinishTop, Goto, Answer, call, place, LocalsKept, CoreInv, TypeOK
<1>2. current[t] = head /\ listLock = t /\ n \notin live /\ arg[t] \in Values
  BY CoreFacts, ValuesAreInts DEF Holder, Listed, IsList, CallFits
<1>3. Listed'
  <2>1. \/ head = Null /\ x \in FreshNext
        \/ head \in Nodes /\ arg[t] < data[head] /\ x = head
    <3>1. head \in Nodes => data[head] \in Int
      BY CoreFacts, HeadFacts, ElementFacts
    <3>2. QED
      BY <1>2, <3>1, ValuesAreInts
  <2>2. /\ data' = [data EXCEPT ![n] = arg[t]] /\ nextNode' = [nextNode EXCEPT ![n] = x]
        /\ head' = n /\ live' = live \cup {n}
    BY DEF LinkNew
  <2>3. IsList(head, live, nextNode, data) /\ n \in Nodes \ live
    BY <1>2, CoreFacts DEF Listed
  <2>4. IsList(n, live \cup {n}, nextNode', data')
    BY <1>2, <2>1, <2>2, <2>3, LinkFirst
  <2>5. QED
    BY <2>2, <2>4 DEF Listed
<1>4. ASSUME NEW u \in Threads PROVE Holder(u)'
  <2>1. CASE u = t
    BY <2>1 DEF Holder, FinishTop, Goto, CoreInv, TypeOK
  <2>2. CASE u # t
    <3>1. pc'[u] # "top"
      BY <1>1, <1>2, <2>2, CoreFacts DEF Holder, LocalsKept
    <3>2. ASSUME pc'[u] = "walk" PROVE Holder(u)'
      <4>1. Holder(u) /\ pc[u] = "walk" /\ current[u] \in live /\ current[u] # n
        BY <1>1, <1>2, <2>2, <3>2, CoreFacts DEF Holder, LocalsKept
      <4>2. /\ nextNode'[current[u]] = nextNode[current[u]] /\ data'[current[u]] = data[current[u]]
            /\ current[u] \in live' /\ nodeLock' = nodeLock
        BY <4>1, CoreFacts DEF LinkNew, FinishTop, TypeOK
      <4>3. QED
        BY <1>1, <2>2, <4>1, <4>2 DEF Holder, LocalsKept, NextOf
    <3>3. QED
      BY <3>1, <3>2 DEF Holder
  <2>3. QED
    BY <2>1, <2>2
<1>5. QED
  BY <1>3, <1>4 DEF SoundAfter

\* The head leaves the list; nobody stands on it.
LEMMA UnlinkHeadSound ==
  ASSUME CoreInv, NEW t \in Threads, pc[t] = "top", UnlinkHead(t), nodeLock' = nodeLock,
         \A u \in Threads \ {t} : LocalsKept(u), pc'[t] \notin {"top", "walk"}
  PROVE  SoundAfter
<1>1. current[t] = head /\ listLock = t /\ head \in Nodes
  BY CoreFacts DEF Holder, UnlinkHead
<1>2. Listed'
  BY <1>1, CoreFacts, UnlinkFirst DEF Listed, UnlinkHead, NextOf
<1>3. ASSUME NEW u \in Threads PROVE Holder(u)'
  <2>1. CASE u = t
    BY <2>1 DEF Holder
  <2>2. CASE u # t
    <3>1. pc'[u] # "top"
      BY <1>1, <2>2, CoreFacts DEF Holder, LocalsKept
    <3>2. pc[u] = "walk" => current[u] # current[t]
      BY CoreFacts, HandOverHandAssumption DEF Holder, UnlinkHead
    <3>3. QED
      BY <2>2, <3>1, <3>2, CoreFacts DEF Holder, LocalsKept, UnlinkHead, NextOf
  <2>3. QED
    BY <2>1, <2>2
<1>4. QED
  BY <1>2, <1>3 DEF SoundAfter

LEMMA HopSound ==
  ASSUME CoreInv, NEW t \in Threads, Hop(t)
  PROVE  SoundAfter
<1> DEFINE n == nxt[t]
<1>1. \A u \in Threads \ {t} : LocalsKept(u)
  BY DEF Hop, Stand, call, LocalsKept, CoreInv, TypeOK
<1>2. Listed'
  BY CoreFacts DEF Hop, Listed, list
<1>3. /\ current[t] \in live /\ n = nextNode[current[t]] /\ n \in live /\ n \in Nodes
      /\ nodeLock[n] = NoThread /\ nodeLock[current[t]] = t /\ data[n] < arg[t]
  BY CoreFacts, SuccessorIsNext DEF Hop, Holder, Listed, NextOf
<1>4. n # current[t] /\ arg[t] \in Int /\ data[n] \in Int
  <2>1. data[n] \in Int /\ (n = current[t] => t = NoThread)
    BY <1>3, CoreFacts, ElementFacts
  <2>2. op[t] \in {"insert", "remove"}
    BY CoreFacts DEF Hop, CallFits
  <2>3. arg[t] \in Int
    BY <2>2, CoreFacts, ValuesAreInts DEF CallFits
  <2>4. QED
    BY <2>1, <2>3, HandOverHandAssumption
<1>5. /\ nodeLock' = [nodeLock EXCEPT ![n] = t, ![current[t]] = NoThread]
      /\ current'[t] = n /\ nxt'[t] = nextNode[n] /\ UNCHANGED <<list, live, listLock, op, arg, pc>>
  BY CoreFacts DEF Hop, Stand, call, TypeOK
<1>6. current[t] \in Nodes /\ nodeLock \in [Nodes -> Owner]
  BY <1>3, CoreFacts DEF Listed, IsList, TypeOK
<1> HIDE DEF n
<1>7. ASSUME NEW u \in Threads PROVE Holder(u)'
  <2>1. CASE u = t
    <3>1. pc[t] = "walk"
      BY DEF Hop
    <3>2. nodeLock'[n] = t
      BY <1>3, <1>4, <1>5, <1>6
    <3>3. QED
      BY <1>3, <1>4, <1>5, <2>1, <3>1, <3>2 DEF Holder, list, NextOf
  <2>2. CASE u # t
    <3>1. pc[u] = "walk" => /\ current[u] # n /\ current[u] # current[t]
                            /\ nodeLock'[current[u]] = nodeLock[current[u]]
      <4>1. pc[u] = "walk" => current[u] \in Nodes /\ nodeLock[current[u]] = u
        BY CoreFacts, ElementFacts DEF Holder
      <4>2. QED
        BY <1>3, <1>5, <1>6, <2>2, <4>1, HandOverHandAssumption
    <3>2. QED
      BY <1>1, <1>5, <2>2, <3>1, CoreFacts DEF Holder, LocalsKept, list, NextOf
  <2>3. QED
    BY <2>1, <2>2
<1>8. QED
  BY <1>2, <1>7 DEF SoundAfter

\* A node enters the list behind the one its thread stands on.
LEMMA InsertHereSound ==
  ASSUME IInv, NEW t \in Threads, InsertHere(t)
  PROVE  SoundAfter
<1> DEFINE n == NewNode
           c == current[t]
<1>1. CoreInv /\ n \in Nodes /\ data[n] = Empty
  BY NodeForInsert DEF IInv, InsertHere
<1>2. \A u \in Threads \ {t} : LocalsKept(u)
  BY <1>1 DEF InsertHere, FinishWalk, Goto, Answer, call, place, LocalsKept, CoreInv, TypeOK
<1>3. /\ c \in live /\ c \in Nodes /\ nodeLock[c] = t /\ nxt[t] = nextNode[c] /\ data[c] < arg[t]
      /\ arg[t] \in Values /\ n \notin live
  BY <1>1, CoreFacts, ElementFacts DEF InsertHere, Holder, NextOf, CallFits
<1>4. nextNode[c] = Null \/ (nextNode[c] \in Nodes /\ arg[t] < data[nextNode[c]])
  <2>1. nextNode[c] \in Nodes => nextNode[c] \in live
    BY <1>1, <1>3, CoreFacts, SuccessorFacts
  <2>2. nextNode[c] \in Nodes => data[nextNode[c]] \in Int
    BY <2>1, <1>1, CoreFacts, ElementFacts
  <2>3. arg[t] \in Int
    BY <1>3, ValuesAreInts
  <2>4. nxt[t] = Null \/ (nxt[t] \in Nodes /\ data[nxt[t]] > arg[t])
    BY DEF InsertHere
  <2>5. QED
    BY <1>3, <2>2, <2>3, <2>4
<1>5. /\ data' = [data EXCEPT ![n] = arg[t]]
      /\ nextNode' = [nextNode EXCEPT ![n] = nextNode[c], ![c] = n]
      /\ live' = live \cup {n} /\ head' = head
      /\ nodeLock' = [nodeLock EXCEPT ![c] = NoThread] /\ listLock' = listLock
      /\ pc'[t] = "done"
  BY <1>1, <1>3, CoreFacts DEF InsertHere, InsertAfter, FinishWalk, Goto, TypeOK
<1>6. nextNode \in [Nodes -> NodeOrAddress] /\ data \in [Nodes -> ValueOrEmpty]
      /\ nodeLock \in [Nodes -> Owner]
  BY <1>1, CoreFacts DEF TypeOK
<1> HIDE DEF n, c
<1>7. Listed'
  <2>1. IsList(head, live, nextNode, data) /\ n \in Nodes \ live
    BY <1>1, <1>3, CoreFacts DEF Listed
  <2>2. IsList(head, live \cup {n}, nextNode', data')
    <3>1. nextNode' = [nextNode EXCEPT ![n] = nextNode[c], ![c] = n]
      BY <1>5
    <3>2. data' = [data EXCEPT ![n] = arg[t]]
      BY <1>5
    <3>3. c \in live /\ arg[t] \in Values /\ data[c] < arg[t]
      BY <1>3
    <3>4. QED
      BY <1>4, <2>1, <3>1, <3>2, <3>3, LinkAfter
  <2>3. QED
    BY <1>5, <2>2 DEF Listed
<1>8. ASSUME NEW u \in Threads PROVE Holder(u)'
  <2>1. CASE u = t
    BY <1>5, <2>1 DEF Holder
  <2>2. CASE u # t
    <3>1. pc[u] = "walk" => current[u] \in live /\ current[u] \in Nodes /\ nodeLock[current[u]] = u
      BY <1>1, CoreFacts, ElementFacts DEF Holder
    <3>2. pc[u] = "walk" => current[u] # c /\ current[u] # n
      BY <1>3, <2>2, <3>1
    <3>3. pc[u] = "walk" =>
            /\ nextNode'[current[u]] = nextNode[current[u]]
            /\ data'[current[u]] = data[current[u]]
            /\ nodeLock'[current[u]] = u
      BY <1>5, <1>6, <3>1, <3>2
    <3>4. QED
      BY <1>1, <1>2, <1>5, <2>2, <3>3, CoreFacts DEF Holder, LocalsKept, NextOf
  <2>3. QED
    BY <2>1, <2>2
<1>9. QED
  BY <1>7, <1>8 DEF SoundAfter

\* The node behind the one its thread stands on leaves; nobody stands on it.
LEMMA RemoveNextSound ==
  ASSUME CoreInv, NEW t \in Threads, RemoveNext(t)
  PROVE  SoundAfter
<1> DEFINE n == nxt[t]
           c == current[t]
<1>1. \A u \in Threads \ {t} : LocalsKept(u)
  BY DEF RemoveNext, FinishWalk, Goto, Answer, call, place, LocalsKept, CoreInv, TypeOK
<1>2. /\ c \in live /\ c \in Nodes /\ nodeLock[c] = t /\ n = nextNode[c] /\ n \in Nodes
      /\ nodeLock[n] = NoThread
  BY CoreFacts, ElementFacts DEF RemoveNext, Holder, NextOf
<1>3. n \in live /\ data[c] < data[n] /\ data[c] \in Int /\ n # head
  <2>1. n \in live /\ data[c] < data[n] /\ data[c] \in Int /\ data[n] \in Int
    BY <1>2, CoreFacts, SuccessorFacts, ElementFacts
  <2>2. head \in live /\ data[head] <= data[c]
    BY <1>2, CoreFacts, HeadFacts
  <2>3. QED
    BY <2>1, <2>2
<1>4. /\ nextNode' = [nextNode EXCEPT ![c] = nextNode[n]] /\ live' = live \ {n}
      /\ nodeLock' = [nodeLock EXCEPT ![c] = NoThread]
      /\ UNCHANGED <<head, data, listLock>> /\ pc'[t] = "done"
  BY CoreFacts DEF RemoveNext, FinishWalk, Goto, TypeOK
<1>5. nextNode \in [Nodes -> NodeOrAddress] /\ nodeLock \in [Nodes -> Owner]
  BY CoreFacts DEF TypeOK
<1> HIDE DEF n, c
<1>6. Listed'
  <2>1. IsList(head, live \ {nextNode[c]}, nextNode', data)
    BY <1>2, <1>4, CoreFacts, UnlinkAfter DEF Listed
  <2>2. QED
    BY <1>2, <1>4, <2>1 DEF Listed
<1>7. ASSUME NEW u \in Threads PROVE Holder(u)'
  <2>1. CASE u = t
    BY <1>4, <2>1 DEF Holder
  <2>2. CASE u # t
    <3>1. pc[u] = "walk" => current[u] \in live /\ current[u] \in Nodes /\ nodeLock[current[u]] = u
      BY CoreFacts, ElementFacts DEF Holder
    <3>2. pc[u] = "walk" => current[u] # c /\ current[u] # n
      BY <1>2, <2>2, <3>1, HandOverHandAssumption
    <3>3. pc[u] = "walk" =>
            nextNode'[current[u]] = nextNode[current[u]] /\ nodeLock'[current[u]] = u
      BY <1>4, <1>5, <3>1, <3>2
    <3>4. QED
      BY <1>1, <1>4, <2>2, <3>2, <3>3, CoreFacts DEF Holder, LocalsKept, NextOf
  <2>3. QED
    BY <2>1, <2>2
<1>8. QED
  BY <1>6, <1>7 DEF SoundAfter

\* A walk that ends without a write.
LEMMA FinishWalkSound ==
  ASSUME CoreInv, NEW t \in Threads, NEW v, FinishWalk(t, v), UNCHANGED <<list, live>>
  PROVE  SoundAfter
<1>1. \A u \in Threads \ {t} : LocalsKept(u)
  BY DEF FinishWalk, Goto, Answer, call, place, LocalsKept, CoreInv, TypeOK
<1>2. pc'[t] = "done" /\ listLock' = listLock /\ nodeLock[current[t]] = t
  BY CoreFacts DEF FinishWalk, Goto, TypeOK, Holder
<1>3. \A u \in Threads \ {t}, n \in Nodes : nodeLock[n] = u => nodeLock'[n] = u
  BY <1>2, CoreFacts DEF FinishWalk, TypeOK
<1>4. QED
  BY <1>1, <1>2, <1>3, LeaveList

\* An operation on the head that ends without a write.
LEMMA FinishTopSound ==
  ASSUME CoreInv, NEW t \in Threads, NEW v, FinishTop(t, v), UNCHANGED <<list, live>>
  PROVE  SoundAfter
<1>1. \A u \in Threads \ {t} : LocalsKept(u)
  BY DEF FinishTop, Goto, Answer, call, place, LocalsKept, CoreInv, TypeOK
<1>2. pc'[t] = "done" /\ nodeLock' = nodeLock /\ listLock = t
  BY CoreFacts DEF FinishTop, Goto, TypeOK, Holder
<1>3. QED
  BY <1>1, <1>2, LeaveList

\* Calls, crashes, returns and the readers keep away from the locks.
LEMMA AwaySound ==
  ASSUME CoreInv, NEW t \in Threads,
         Invoke(t) \/ Return(t) \/ InScan(t) \/ TopWild(t) \/ WalkWild(t)
  PROVE  SoundAfter
<1>1. /\ \A u \in Threads \ {t} : LocalsKept(u)
      /\ pc'[t] \notin {"top", "walk"} /\ UNCHANGED <<list, live, locks>>
  <2> USE DEF LocalsKept, CoreInv, TypeOK, Goto, call, place
  <2>1. CASE Invoke(t)
    BY <2>1 DEF Invoke, Enter, StartScan, Count, Stand
  <2>2. CASE Return(t)
    BY <2>2 DEF Return, Answer, Stand
  <2>3. CASE InScan(t)
    BY <2>3 DEF InScan, SearchStep, SizeStep, ScanWild, ScanDone, ScanOn, Segv, Answer, Stand
  <2>4. CASE TopWild(t) \/ WalkWild(t)
    BY <2>4 DEF TopWild, WalkWild, Segv
  <2>5. QED
    BY <2>1, <2>2, <2>3, <2>4
<1>2. QED
  BY <1>1, LeaveList DEF locks

LEMMA AtTopSound ==
  ASSUME IInv, NEW t \in Threads, AtTop(t)
  PROVE  SoundAfter
<1>1. CoreInv /\ pc[t] = "top"
  BY DEF IInv, AtTop
<1>2. CASE InsertAtHead(t)
  <2>1. op[t] = "insert" /\ NewNode \in Nodes /\ data[NewNode] = Empty
    BY <1>1, <1>2, NodeForInsert DEF InsertAtHead, IInv
  <2>2. CASE \E x \in FreshNext : current[t] = Null /\ LinkNew(t, NewNode, x) /\ FinishTop(t, arg[t])
    BY <1>1, <2>1, <2>2, LinkNewSound
  <2>3. CASE /\ current[t] \in Nodes /\ data[current[t]] > arg[t]
             /\ LinkNew(t, NewNode, current[t]) /\ FinishTop(t, arg[t])
    BY <1>1, <2>1, <2>3, LinkNewSound
  <2>4. CASE FinishTop(t, Empty) /\ UNCHANGED <<list, live>>
    BY <1>1, <2>4, FinishTopSound
  <2>5. QED
    BY <1>2, <2>2, <2>3, <2>4 DEF InsertAtHead
<1>3. CASE FindEmpty(t)
  BY <1>1, <1>3, FinishTopSound DEF FindEmpty
<1>4. CASE RemoveHead(t) \/ RemoveFirst(t) \/ EmptyStep(t)
  <2>1. UnlinkHead(t) /\ nodeLock' = nodeLock /\ pc'[t] \notin {"top", "walk"}
    BY <1>1, <1>4 DEF RemoveHead, RemoveFirst, EmptyStep, FinishTop, Goto, CoreInv, TypeOK
  <2>2. \A u \in Threads \ {t} : LocalsKept(u)
    BY <1>1, <1>4 DEF RemoveHead, RemoveFirst, EmptyStep, FinishTop, Goto, Answer, call, place,
                      LocalsKept, CoreInv, TypeOK
  <2>3. QED
    BY <1>1, <2>1, <2>2, UnlinkHeadSound
<1>5. CASE EnterList(t)
  BY <1>1, <1>5, EnterListSound
<1>6. CASE TopWild(t)
  BY <1>1, <1>6, AwaySound
<1>7. QED
  BY <1>2, <1>3, <1>4, <1>5, <1>6 DEF AtTop

LEMMA InWalkSound ==
  ASSUME IInv, NEW t \in Threads, InWalk(t)
  PROVE  SoundAfter
<1>1. CoreInv
  BY DEF IInv
<1>2. CASE Hop(t)
  BY <1>1, <1>2, HopSound
<1>3. CASE InsertHere(t)
  BY <1>3, InsertHereSound
<1>4. CASE InsertFinds(t) \/ RemoveMisses(t)
  BY <1>1, <1>4, FinishWalkSound DEF InsertFinds, RemoveMisses
<1>5. CASE RemoveNext(t)
  BY <1>1, <1>5, RemoveNextSound
<1>6. CASE WalkWild(t)
  BY <1>1, <1>6, AwaySound
<1>7. QED
  BY <1>2, <1>3, <1>4, <1>5, <1>6 DEF InWalk

LEMMA StepSound ==
  ASSUME IInv, NEW t \in Threads, Invoke(t) \/ Step(t)
  PROVE  SoundAfter
BY AtTopSound, InWalkSound, AwaySound, LockListSound DEF IInv, Step

-----------------------------------------------------------------------------
(***************************************************************************)
(* The types, the fit of the locals and the room to insert.                *)
(***************************************************************************)
ScanTypes == ever \in [Threads -> SUBSET Values] /\ always \in [Threads -> SUBSET Values]

StateTypes ==
  /\ head \in NodeOrAddress
  /\ nextNode \in [Nodes -> NodeOrAddress] /\ data \in [Nodes -> ValueOrEmpty]
  /\ listLock \in Owner /\ nodeLock \in [Nodes -> Owner]
  /\ pc \in [Threads -> PCs]
  /\ op \in [Threads -> Ops] /\ arg \in [Threads -> ValueOrEmpty]
  /\ current \in [Threads -> NodeOrAddress] /\ nxt \in [Threads -> NodeOrAddress]
  /\ ret \in [Threads -> ValueOrEmpty] /\ counter \in [Threads -> Nat]
  /\ calls \in [Threads -> 0..MaxCalls]
  /\ live \subseteq Nodes

LEMMA TypesInTwo == (TypeOK <=> StateTypes /\ ScanTypes) /\ (TypeOK' <=> StateTypes' /\ ScanTypes')
BY DEF TypeOK, StateTypes, ScanTypes

\* How a step changes the threads' locals.
LocalsFit(t) == /\ StateTypes' /\ CallFits(t)'
                /\ \A u \in Threads \ {t} : LocalsKept(u)

LEMMA InvokeFits ==
  ASSUME StateTypes, NEW t \in Threads, CallFits(t), Invoke(t)
  PROVE  LocalsFit(t)
<1>1. calls' \in [Threads -> 0..MaxCalls]
  BY HandOverHandAssumption DEF Invoke, Enter, StartScan, Count, StateTypes
<1>2. \A u \in Threads \ {t} : LocalsKept(u)
  BY DEF Invoke, Enter, StartScan, Count, Stand, Goto, place, LocalsKept, StateTypes
<1>3. ASSUME NEW o \in Locking, NEW v \in ValueOrEmpty, Enter(t, o, v),
             o \in {"insert", "remove"} => v \in Values
      PROVE  StateTypes' /\ CallFits(t)'
  <2>1. /\ pc[t] = "idle" /\ pc' = [pc EXCEPT ![t] = "list"]
        /\ op' = [op EXCEPT ![t] = o] /\ arg' = [arg EXCEPT ![t] = v]
        /\ UNCHANGED <<list, locks, place, ret, counter, live>>
    BY <1>3 DEF Enter, Goto
  <2>2. QED
    BY <1>1, <1>3, <2>1 DEF StateTypes, CallFits, list, locks, place, Locking, PCs, Ops
<1>4. ASSUME NEW o \in {"search", "size"}, NEW v \in ValueOrEmpty, StartScan(t, o, v),
             o = "search" => v \in Values
      PROVE  StateTypes' /\ CallFits(t)'
  <2>1. /\ pc[t] = "idle" /\ pc' = [pc EXCEPT ![t] = "scan"]
        /\ op' = [op EXCEPT ![t] = o] /\ arg' = [arg EXCEPT ![t] = v]
        /\ current' = [current EXCEPT ![t] = head] /\ nxt' = [nxt EXCEPT ![t] = Null]
        /\ UNCHANGED <<list, locks, ret, counter, live>>
    BY <1>4 DEF StartScan, Goto, Stand
  <2>2. QED
    BY <1>1, <1>4, <2>1
       DEF StateTypes, CallFits, list, locks, Locking, PCs, Ops, NodeOrAddress
<1>5. QED
  BY <1>2, <1>3, <1>4 DEF Invoke, ValueOrEmpty, LocalsFit, Locking

LEMMA LocksFit ==
  ASSUME StateTypes, NEW t \in Threads, CallFits(t), LockList(t) \/ Return(t)
  PROVE  LocalsFit(t)
BY DEF LockList, Return, Stand, Answer, StateTypes, CallFits, LocalsKept, LocalsFit, Goto, call,
       list, locks, place, Locking, PCs, Ops, Owner, NodeOrAddress, ValueOrEmpty

LEMMA FinishTopFits ==
  ASSUME StateTypes, NEW t \in Threads, CallFits(t), NEW v \in ValueOrEmpty, FinishTop(t, v)
  PROVE  /\ pc' = [pc EXCEPT ![t] = "done"] /\ ret' = [ret EXCEPT ![t] = v]
         /\ CallFits(t)' /\ \A u \in Threads \ {t} : LocalsKept(u)
         /\ listLock' \in Owner /\ UNCHANGED <<nodeLock, op, arg, calls, current, nxt, counter>>
BY DEF FinishTop, Goto, Answer, call, place, StateTypes, CallFits, LocalsKept, Owner, Locking

LEMMA FinishWalkFits ==
  ASSUME StateTypes, NEW t \in Threads, CallFits(t), NEW v \in ValueOrEmpty, FinishWalk(t, v)
  PROVE  /\ pc' = [pc EXCEPT ![t] = "done"] /\ ret' = [ret EXCEPT ![t] = v]
         /\ CallFits(t)' /\ \A u \in Threads \ {t} : LocalsKept(u)
         /\ nodeLock' \in [Nodes -> Owner]
         /\ UNCHANGED <<listLock, op, arg, calls, current, nxt, counter>>
BY DEF FinishWalk, Goto, Answer, call, place, StateTypes, CallFits, LocalsKept, Owner

LEMMA AtTopFits ==
  ASSUME StateTypes, NEW t \in Threads, CallFits(t), AtTop(t),
         op[t] = "insert" => NewNode \in Nodes
  PROVE  LocalsFit(t)
<1>1. pc[t] = "top"
  BY DEF AtTop
<1>2. CASE InsertAtHead(t)
  <2>1. \E v \in ValueOrEmpty : FinishTop(t, v)
    BY <1>2 DEF InsertAtHead, StateTypes, ValueOrEmpty
  <2>2. /\ head' \in NodeOrAddress /\ live' \subseteq Nodes
        /\ nextNode' \in [Nodes -> NodeOrAddress] /\ data' \in [Nodes -> ValueOrEmpty]
    BY <1>2, ValuesAreInts DEF InsertAtHead, LinkNew, StateTypes, list
  <2>3. QED
    BY <2>1, <2>2, FinishTopFits DEF LocalsFit, StateTypes, PCs
<1>3. CASE FindEmpty(t)
  BY <1>3, FinishTopFits DEF FindEmpty, LocalsFit, StateTypes, PCs, list, ValueOrEmpty
<1>4. CASE RemoveHead(t) \/ RemoveFirst(t)
  <2>1. \E v \in ValueOrEmpty : FinishTop(t, v)
    BY <1>4 DEF RemoveHead, RemoveFirst, StateTypes
  <2>2. /\ head' \in NodeOrAddress /\ live' \subseteq Nodes /\ UNCHANGED <<nextNode, data>>
    BY <1>4 DEF RemoveHead, RemoveFirst, UnlinkHead, StateTypes, NextOf
  <2>3. QED
    BY <2>1, <2>2, FinishTopFits DEF LocalsFit, StateTypes, PCs
<1>5. CASE EmptyStep(t)
  <2>1. /\ op[t] = "empty" /\ pc' = [pc EXCEPT ![t] = "list"]
        /\ UNCHANGED <<nodeLock, op, arg, calls, current, nxt, ret, counter>>
        /\ listLock' \in Owner
    BY <1>5 DEF EmptyStep, Goto, call, place, Owner
  <2>2. /\ head' \in NodeOrAddress /\ live' \subseteq Nodes /\ UNCHANGED <<nextNode, data>>
    BY <1>5 DEF EmptyStep, UnlinkHead, StateTypes, NextOf
  <2>3. CallFits(t)' /\ \A u \in Threads \ {t} : LocalsKept(u)
    BY <1>1, <2>1 DEF StateTypes, CallFits, LocalsKept, Locking
  <2>4. QED
    BY <2>1, <2>2, <2>3 DEF LocalsFit, StateTypes, PCs
<1>6. CASE EnterList(t)
  <2>1. /\ op[t] \in {"insert", "remove"} /\ pc' = [pc EXCEPT ![t] = "walk"]
        /\ UNCHANGED <<list, live, op, arg, calls, ret, counter>>
        /\ current[t] \in Nodes
    BY <1>6 DEF EnterList, Goto, call
  <2>2. /\ listLock' \in Owner /\ nodeLock' \in [Nodes -> Owner]
        /\ current' = [current EXCEPT ![t] = current[t]]
        /\ nxt' = [nxt EXCEPT ![t] = nextNode[current[t]]]
    BY <1>6 DEF EnterList, Stand, StateTypes, Owner
  <2>3. CallFits(t)' /\ \A u \in Threads \ {t} : LocalsKept(u)
    BY <1>1, <2>1, <2>2 DEF StateTypes, CallFits, LocalsKept
  <2>4. QED
    BY <2>1, <2>2, <2>3 DEF LocalsFit, StateTypes, PCs, list
<1>7. CASE TopWild(t)
  BY <1>1, <1>7 DEF TopWild, Segv, Goto, call, list, locks, place, StateTypes, CallFits, LocalsKept,
              LocalsFit, PCs, Locking
<1>8. QED
  BY <1>2, <1>3, <1>4, <1>5, <1>6, <1>7 DEF AtTop

LEMMA InWalkFits ==
  ASSUME StateTypes, NEW t \in Threads, CallFits(t), InWalk(t),
         op[t] = "insert" => NewNode \in Nodes
  PROVE  LocalsFit(t)
<1>1. CASE Hop(t)
  BY <1>1 DEF Hop, Stand, call, list, StateTypes, CallFits, LocalsKept, LocalsFit, Owner
<1>2. CASE InsertHere(t)
  <2>1. FinishWalk(t, arg[t]) /\ arg[t] \in ValueOrEmpty
    BY <1>2 DEF InsertHere, StateTypes
  <2>2. /\ head' = head /\ live' \subseteq Nodes
        /\ nextNode' \in [Nodes -> NodeOrAddress] /\ data' \in [Nodes -> ValueOrEmpty]
    BY <1>2 DEF InsertHere, InsertAfter, StateTypes, NodeOrAddress
  <2>3. QED
    BY <2>1, <2>2, FinishWalkFits DEF LocalsFit, StateTypes, PCs
<1>3. CASE InsertFinds(t) \/ RemoveMisses(t)
  BY <1>3, FinishWalkFits
     DEF InsertFinds, RemoveMisses, LocalsFit, StateTypes, PCs, list, ValueOrEmpty
<1>4. CASE RemoveNext(t)
  <2>1. FinishWalk(t, arg[t]) /\ arg[t] \in ValueOrEmpty
    BY <1>4 DEF RemoveNext, StateTypes
  <2>2. /\ UNCHANGED <<head, data>> /\ live' \subseteq Nodes
        /\ nextNode' \in [Nodes -> NodeOrAddress]
    BY <1>4 DEF RemoveNext, StateTypes
  <2>3. QED
    BY <2>1, <2>2, FinishWalkFits DEF LocalsFit, StateTypes, PCs
<1>5. CASE WalkWild(t)
  BY <1>5 DEF WalkWild, Segv, Goto, call, list, locks, place, StateTypes, CallFits, LocalsKept,
              LocalsFit, PCs
<1>6. QED
  BY <1>1, <1>2, <1>3, <1>4, <1>5 DEF InWalk

LEMMA InScanFits ==
  ASSUME StateTypes, NEW t \in Threads, CallFits(t), InScan(t)
  PROVE  LocalsFit(t)
<1> USE DEF Goto, Answer, Stand, call, list, locks, place, StateTypes, CallFits, LocalsKept,
            LocalsFit, PCs, ValueOrEmpty
<1>1. CASE SearchStep(t)
  BY <1>1 DEF SearchStep, ScanDone, ScanOn, NextOf, NodeOrAddress
<1>2. CASE SizeStep(t)
  BY <1>2 DEF SizeStep, ScanDone, ScanOn, NextOf, NodeOrAddress
<1>3. CASE ScanWild(t)
  BY <1>3 DEF ScanWild, Segv
<1>4. QED
  BY <1>1, <1>2, <1>3 DEF InScan

\* What the types, the locals and the room rest on, in the list and in the queue.
Fitting == StateTypes /\ RoomStays /\ \A t \in Threads : CallFits(t)

LEMMA InvariantFits == IInv => Fitting
BY CoreFacts, TypesInTwo DEF IInv, Fitting

LEMMA FittingStep ==
  ASSUME Fitting, NEW t \in Threads, Invoke(t) \/ Step(t)
  PROVE  LocalsFit(t)
<1>1. StateTypes /\ CallFits(t)
  BY DEF Fitting
<1>2. op[t] = "insert" /\ pc[t] # "done" => NewNode \in Nodes
  BY NodeForInsert DEF Fitting
<1>3. AtTop(t) => pc[t] # "done"
  BY DEF AtTop
<1>4. InWalk(t) => pc[t] # "done"
  BY DEF InWalk, Hop, InsertHere, InsertFinds, RemoveNext, RemoveMisses, WalkWild
<1>5. QED
  BY <1>1, <1>2, <1>3, <1>4, InvokeFits, LocksFit, AtTopFits, InWalkFits, InScanFits DEF Step

LEMMA StepFits ==
  ASSUME IInv, NEW t \in Threads, Invoke(t) \/ Step(t)
  PROVE  LocalsFit(t)
BY InvariantFits, FittingStep

-----------------------------------------------------------------------------
LEMMA RoomKept ==
  ASSUME RoomStays, Fresh' = Fresh, Inserting' \subseteq Inserting
  PROVE  RoomStays'
BY FS_Subset, FS_CardinalityType DEF RoomStays

LEMMA RoomTaken ==
  ASSUME RoomStays, RoomToInsert, Fresh' = Fresh, NEW t, Inserting' = Inserting \cup {t}
  PROVE  RoomStays'
<1>1. IsFiniteSet(Inserting') /\ Cardinality(Inserting') <= Cardinality(Inserting) + 1
  BY FS_AddElement, FS_CardinalityType DEF RoomStays
<1>2. Cardinality(Inserting) \in Nat /\ Cardinality(Fresh) \in Nat /\ Cardinality(Inserting') \in Nat
  BY <1>1, FS_CardinalityType DEF RoomStays
<1>3. Cardinality(Fresh) > Cardinality(Inserting)
  BY DEF RoomToInsert
<1>4. QED
  BY <1>1, <1>2, <1>3 DEF RoomStays

LEMMA RoomUsed ==
  ASSUME RoomStays, NEW n \in Fresh, Fresh' = Fresh \ {n},
         NEW t \in Inserting, Inserting' = Inserting \ {t}
  PROVE  RoomStays'
<1>1. IsFiniteSet(Inserting') /\ Cardinality(Inserting') = Cardinality(Inserting) - 1
  BY FS_RemoveElement DEF RoomStays
<1>2. IsFiniteSet(Fresh') /\ Cardinality(Fresh') = Cardinality(Fresh) - 1
  BY FS_RemoveElement DEF RoomStays
<1>3. Cardinality(Inserting) \in Nat /\ Cardinality(Fresh) \in Nat
  BY FS_CardinalityType DEF RoomStays
<1>4. QED
  BY <1>1, <1>2, <1>3 DEF RoomStays

\* A step allocates the node of its insert, or none.
LEMMA StepKeepsRoom ==
  ASSUME Fitting, NEW t \in Threads, Invoke(t) \/ Step(t)
  PROVE  RoomStays'
<1> DEFINE n == NewNode
<1>1. RoomStays /\ StateTypes /\ CallFits(t) /\ StateTypes' /\ (\A u \in Threads \ {t} : LocalsKept(u))
  BY FittingStep DEF Fitting, LocalsFit
<1>2. CASE data' = data /\ (t \notin Inserting => t \notin Inserting')
  <2>1. Fresh' = Fresh /\ Inserting' \subseteq Inserting
    BY <1>1, <1>2 DEF Fresh, Inserting, LocalsKept
  <2>2. QED
    BY <1>1, <2>1, RoomKept
<1>3. CASE \E v \in Values : RoomToInsert /\ Enter(t, "insert", v)
  <2>1. /\ Fresh' = Fresh /\ RoomToInsert /\ op'[t] = "insert" /\ pc'[t] = "list"
    BY <1>1, <1>3 DEF Fresh, Enter, Goto, StateTypes, list
  <2>2. Inserting' = Inserting \cup {t}
    BY <1>1, <2>1 DEF Inserting, LocalsKept
  <2>3. QED
    BY <1>1, <2>1, <2>2, RoomTaken
<1>4. CASE op[t] = "insert" /\ pc[t] # "done" /\ pc'[t] = "done" /\ data' = [data EXCEPT ![n] = arg[t]]
  <2>1. n \in Nodes /\ data[n] = Empty /\ t \in Inserting /\ arg[t] # Empty
    BY <1>1, <1>4, NodeForInsert, ValuesAreInts DEF Inserting, CallFits
  <2>2. n \in Fresh /\ Fresh' = Fresh \ {n}
    BY <1>1, <1>4, <2>1 DEF Fresh, StateTypes
  <2>3. Inserting' = Inserting \ {t}
    BY <1>1, <1>4 DEF Inserting, LocalsKept
  <2>4. QED
    BY <1>1, <2>1, <2>2, <2>3, RoomUsed
<1>5. \/ data' = data /\ (t \notin Inserting => t \notin Inserting')
      \/ \E v \in Values : RoomToInsert /\ Enter(t, "insert", v)
      \/ op[t] = "insert" /\ pc[t] # "done" /\ pc'[t] = "done" /\ data' = [data EXCEPT ![n] = arg[t]]
  <2> USE <1>1 DEF list, call, Inserting, Goto, StateTypes
  <2>1. CASE Invoke(t)
    BY <2>1 DEF Invoke, Enter, StartScan
  <2>2. CASE LockList(t) \/ Return(t) \/ InScan(t)
    BY <2>2 DEF LockList, Return, InScan, SearchStep, SizeStep, ScanWild, Segv, CallFits
  <2>3. CASE AtTop(t)
    BY <2>3 DEF AtTop, InsertAtHead, LinkNew, FinishTop, FindEmpty, RemoveHead, RemoveFirst,
                EmptyStep, UnlinkHead, EnterList, TopWild, Segv, CallFits
  <2>4. CASE InWalk(t)
    BY <2>4 DEF InWalk, Hop, InsertHere, InsertAfter, FinishWalk, InsertFinds, RemoveNext,
                RemoveMisses, WalkWild, Segv, CallFits
  <2>5. QED
    BY <2>1, <2>2, <2>3, <2>4 DEF Step
<1>6. QED
  BY <1>2, <1>3, <1>4, <1>5

-----------------------------------------------------------------------------
(***************************************************************************)
(* The inductive invariant holds in every reachable state.                 *)
(***************************************************************************)
LEMMA InitInvariant == Init => IInv
<1> SUFFICES ASSUME Init PROVE IInv
  OBVIOUS
<1>1. StateTypes /\ ScanTypes
  <2>1. head \in NodeOrAddress /\ nextNode \in [Nodes -> NodeOrAddress] /\ live \subseteq Nodes
    <3>1. Nodes \cup {Null} \cup FreshNext \subseteq NodeOrAddress
      BY ValuesAreInts
    <3>2. nextNode \in [Nodes -> Nodes \cup {Null} \cup FreshNext]
      BY DEF Init
    <3>3. head \in NodeOrAddress /\ live \subseteq Nodes
      BY DEF Init, NodeOrAddress
    <3>4. QED
      BY <3>1, <3>2, <3>3
  <2>2. data \in [Nodes -> ValueOrEmpty]
    <3>1. Prefill \cup {Empty} \subseteq ValueOrEmpty
      BY HandOverHandAssumption DEF ValueOrEmpty
    <3>2. data \in [Nodes -> Prefill \cup {Empty}]
      BY DEF Init
    <3>3. QED
      BY <3>1, <3>2
  <2>3. listLock \in Owner /\ nodeLock \in [Nodes -> Owner]
    BY DEF Init, Owner
  <2>4. /\ pc \in [Threads -> PCs] /\ op \in [Threads -> Ops] /\ arg \in [Threads -> ValueOrEmpty]
        /\ ret \in [Threads -> ValueOrEmpty] /\ counter \in [Threads -> Nat]
    BY DEF Init, PCs, Ops, ValueOrEmpty
  <2>5. /\ current \in [Threads -> NodeOrAddress] /\ nxt \in [Threads -> NodeOrAddress]
        /\ calls \in [Threads -> 0..MaxCalls]
    BY HandOverHandAssumption DEF Init, NodeOrAddress
  <2>6. ScanTypes
    BY DEF Init, ScanTypes
  <2>7. QED
    BY <2>1, <2>2, <2>3, <2>4, <2>5, <2>6 DEF StateTypes
<1>2. ListIsSorted
  BY DEF Init, ListIsSorted
<1>3. HoldersStandInList /\ \A t \in Threads : CallFits(t)
  BY DEF Init, HoldersStandInList, CallFits
<1>4. RoomStays
  <2>1. Inserting = {}
    BY DEF Init, Inserting
  <2>2. Fresh \in SUBSET Nodes
    BY DEF Fresh
  <2>3. IsFiniteSet(Fresh) /\ Cardinality(Fresh) \in Nat
    BY <2>2, HandOverHandAssumption, FS_Subset, FS_CardinalityType
  <2>4. QED
    BY <2>1, <2>3, FS_EmptySet DEF RoomStays
<1>5. QED
  BY <1>1, <1>2, <1>3, <1>4, TypesInTwo DEF IInv, CoreInv

\* The history of the readers consists of values.
LEMMA ObserveTypes ==
  ASSUME ScanTypes, Listed', Observe
  PROVE  ScanTypes'
<1>1. Elements' \subseteq Values
  BY DEF Elements, Contents, Listed, IsList
<1>2. QED
  BY <1>1 DEF ScanTypes, Observe

LEMMA StepKeepsInvariant ==
  ASSUME IInv, NEW t \in Threads, Invoke(t) \/ Step(t), ScanTypes'
  PROVE  IInv'
<1>1. SoundAfter /\ LocalsFit(t) /\ RoomStays'
  BY StepSound, StepFits, StepKeepsRoom, InvariantFits
<1>2. TypeOK'
  BY <1>1, TypesInTwo DEF LocalsFit
<1>3. ListIsSorted' /\ HoldersStandInList'
  BY <1>1, <1>2, ListOfTypes, HolderByThread DEF SoundAfter
<1>4. \A u \in Threads : CallFits(u)'
  BY <1>1, CoreFacts DEF IInv, LocalsFit, LocalsKept, CallFits
<1>5. QED
  BY <1>1, <1>2, <1>3, <1>4 DEF IInv, CoreInv

LEMMA StutterKeepsInvariant == IInv /\ UNCHANGED vars => IInv'
<1> SUFFICES ASSUME IInv, UNCHANGED vars PROVE IInv'
  OBVIOUS
<1> USE DEF vars, list, locks, call, place, scan
<1>1. TypeOK' /\ ListIsSorted'
  BY DEF IInv, CoreInv, TypeOK, ListIsSorted
<1>2. HoldersStandInList' /\ \A t \in Threads : CallFits(t)'
  BY DEF IInv, CoreInv, HoldersStandInList, NextOf, CallFits
<1>3. RoomStays'
  BY RoomKept DEF IInv, Fresh, Inserting
<1>4. QED
  BY <1>1, <1>2, <1>3 DEF IInv, CoreInv

LEMMA NextKeepsInvariant == IInv /\ [Next]_vars => IInv'
<1> SUFFICES ASSUME IInv, [Next]_vars PROVE IInv'
  OBVIOUS
<1>1. ASSUME NEW t \in Threads, Invoke(t) \/ Step(t), Observe PROVE IInv'
  <2>1. ScanTypes'
    BY <1>1, StepSound, ObserveTypes, CoreFacts, TypesInTwo DEF IInv, SoundAfter
  <2>2. QED
    BY <1>1, <2>1, StepKeepsInvariant
<1>2. QED
  BY <1>1, StutterKeepsInvariant DEF Next, Terminating

\* The invariant of the list holds in every reachable state.
THEOREM InductiveInvariant == Spec => []IInv
BY InitInvariant, NextKeepsInvariant, PTL DEF Spec

\* The variables of the list keep their types.
THEOREM TypeCorrect == Spec => []TypeOK
<1>1. IInv => TypeOK
  BY DEF IInv, CoreInv
<1>2. QED
  BY <1>1, InductiveInvariant, PTL

\* However many threads insert and remove at once, the list stays sorted and
\* whole, and a thread that waits inside it stands on a node of it.
THEOREM ListStaysSound == Spec => []ListIsSound
<1>1. IInv => ListIsSound
  BY DEF IInv, CoreInv, ListIsSound
<1>2. QED
  BY <1>1, InductiveInvariant, PTL

-----------------------------------------------------------------------------
(***************************************************************************)
(* The readers without locks.  Nodes is the set of nodes that were in the  *)
(* list at some instant of a reader's call: the reader stays among them,   *)
(* and they lead it to every value that stayed.                            *)
(***************************************************************************)
PathOf(t, S) ==
  /\ live \subseteq S
  /\ ever[t] = Contents(S, data)
  /\ \A n \in S : nextNode[n] \in Nodes => nextNode[n] \in S /\ data[n] < data[nextNode[n]]
  /\ \A n \in S, v \in always[t] :
       data[n] < v => nextNode[n] \in S /\ data[nextNode[n]] <= v
  /\ current[t] \in Nodes => current[t] \in S

\* A search has not gone past its value, if that stayed in the list.
SearchAhead(t) == arg[t] \in always[t] => current[t] \in Nodes /\ data[current[t]] <= arg[t]

\* A size has counted the values V, and has all others that stayed ahead of it.
Counted(t, V) ==
  /\ V \subseteq ever[t] /\ IsFiniteSet(V) /\ counter[t] = Cardinality(V)
  /\ current[t] \in Nodes => \A v \in V : v < data[current[t]]
  /\ \A v \in always[t] : v \in V \/ (current[t] \in Nodes /\ data[current[t]] <= v)

ReaderView(t) == pc[t] = "scan" =>
  \E S \in SUBSET Nodes :
    /\ PathOf(t, S)
    /\ op[t] = "search" => SearchAhead(t)
    /\ op[t] = "size" => \E V \in SUBSET Values : Counted(t, V)

ReadWasTrue(t) == pc[t] = "done" =>
  /\ op[t] = "search" => IF ret[t] = Empty THEN arg[t] \notin always[t] ELSE ret[t] \in ever[t]
  /\ op[t] = "size" =>
       Cardinality(always[t]) <= counter[t] /\ counter[t] <= Cardinality(ever[t])

ReaderInv == IInv /\ \A t \in Threads : ReaderView(t) /\ ReadWasTrue(t)

\* What a step may do to the nodes that were in the list once: their values
\* stay, and the links of those that are out of it stay too.
OldNodesStay ==
  /\ \A n \in Nodes : data[n] # Empty => data'[n] = data[n]
  /\ \A n \in Nodes : data[n] # Empty /\ n \notin live' => nextNode'[n] = nextNode[n]

LEMMA StepLeavesOldNodes ==
  ASSUME IInv, NEW t \in Threads, Invoke(t) \/ Step(t)
  PROVE  OldNodesStay
<1>1. CoreInv /\ StateTypes /\ Listed /\ Holder(t)
  BY CoreFacts, TypesInTwo DEF IInv
<1>2. CASE UNCHANGED <<nextNode, data>>
  BY <1>2 DEF OldNodesStay
<1>3. CASE InsertAtHead(t) /\ ~UNCHANGED <<nextNode, data>>
  <2>1. data[NewNode] = Empty
    BY <1>3, NodeForInsert DEF IInv, InsertAtHead, list
  <2>2. QED
    BY <1>1, <1>3, <2>1 DEF InsertAtHead, LinkNew, OldNodesStay, StateTypes, list
<1>4. CASE InsertHere(t)
  <2>1. data[NewNode] = Empty /\ current[t] \in live /\ pc[t] = "walk"
    BY <1>1, <1>4, NodeForInsert DEF IInv, InsertHere, Holder
  <2>2. QED
    BY <1>1, <1>4, <2>1 DEF InsertHere, InsertAfter, OldNodesStay, StateTypes
<1>5. CASE RemoveNext(t)
  <2>1. nxt[t] = nextNode[current[t]] /\ current[t] \in live /\ nxt[t] \in Nodes
    BY <1>1, <1>5 DEF RemoveNext, Holder, NextOf
  <2>2. data[current[t]] < data[nxt[t]] /\ data[current[t]] \in Int
    BY <1>1, <2>1, SuccessorFacts, ElementFacts
  <2>3. current[t] \in live'
    BY <1>5, <2>1, <2>2 DEF RemoveNext
  <2>4. QED
    BY <1>1, <1>5, <2>3 DEF RemoveNext, OldNodesStay, StateTypes
<1>6. \/ UNCHANGED <<nextNode, data>> \/ InsertAtHead(t) \/ InsertHere(t) \/ RemoveNext(t)
  BY DEF Invoke, Enter, StartScan, Step, LockList, Return, InScan, SearchStep, SizeStep, ScanWild,
         Segv, AtTop, FindEmpty, RemoveHead, RemoveFirst, EmptyStep, UnlinkHead, EnterList, TopWild,
         InWalk, Hop, InsertFinds, RemoveMisses, WalkWild, list
<1>7. QED
  BY <1>2, <1>3, <1>4, <1>5, <1>6

\* The path of a reader that does not move grows by the nodes inserted.
LEMMA PathGrows ==
  ASSUME IInv, Listed', OldNodesStay, ScanTypes, NEW u \in Threads, NEW S \in SUBSET Nodes,
         PathOf(u, S), ever'[u] = ever[u] \cup Elements', always'[u] = always[u] \cap Elements',
         current'[u] \in Nodes => current'[u] \in S,
         NEW T \in SUBSET Nodes, T = S \cup live'
  PROVE  PathOf(u, T)'
<1>1. \A n \in S : n \in Nodes /\ data[n] \in Values /\ data'[n] = data[n] /\ data[n] \in Int
  <2>1. \A n \in S : n \in Nodes /\ data[n] \in ever[u]
    BY DEF PathOf, Contents
  <2>2. ever[u] \subseteq Values
    BY DEF ScanTypes
  <2>3. QED
    BY <2>1, <2>2, ValuesAreInts DEF OldNodesStay
<1>2. \A n \in live' : n \in Nodes /\ data'[n] \in Values /\ data'[n] \in Int
  BY ValuesAreInts DEF Listed, IsList
<1>3. \A n \in live' :
        /\ nextNode'[n] \in Nodes =>
             /\ nextNode'[n] \in live' /\ data'[n] < data'[nextNode'[n]]
             /\ \A m \in live' : data'[m] <= data'[n] \/ data'[nextNode'[n]] <= data'[m]
        /\ nextNode'[n] \notin Nodes => \A m \in live' : data'[m] <= data'[n]
  BY SuccessorIsNext DEF Listed
<1>4. \A n \in S \ live' : nextNode'[n] = nextNode[n]
  BY <1>1, ValuesAreInts DEF OldNodesStay
<1>5. ever'[u] = Contents(T, data')
  BY <1>1 DEF PathOf, Contents, Elements
<1>6. \A n \in T : nextNode'[n] \in Nodes => nextNode'[n] \in T /\ data'[n] < data'[nextNode'[n]]
  BY <1>1, <1>3, <1>4 DEF PathOf
<1>7. ASSUME NEW n \in T, NEW v \in always'[u], data'[n] < v
      PROVE  nextNode'[n] \in T /\ data'[nextNode'[n]] <= v
  <2>1. v \in always[u] /\ v \in Elements'
    OBVIOUS
  <2>2. PICK m \in live' : data'[m] = v
    BY <2>1 DEF Elements, Contents
  <2>3. CASE n \in live'
    BY <1>2, <1>3, <1>7, <2>2, <2>3
  <2>4. CASE n \in S \ live'
    <3>1. data[n] < v /\ nextNode'[n] = nextNode[n]
      BY <1>1, <1>4, <1>7, <2>4
    <3>2. nextNode[n] \in S /\ data[nextNode[n]] <= v
      BY <2>1, <2>4, <3>1 DEF PathOf
    <3>3. QED
      BY <1>1, <3>1, <3>2
  <2>5. QED
    BY <2>3, <2>4
<1>8. QED
  BY <1>5, <1>6, <1>7 DEF PathOf

\* What the history of a thread becomes.
LEMMA Observed ==
  ASSUME Observe, NEW u \in Threads
  PROVE  /\ pc'[u] = "done" => ever'[u] = ever[u] /\ always'[u] = always[u]
         /\ pc'[u] = "scan" /\ pc[u] = "scan" =>
              ever'[u] = ever[u] \cup Elements' /\ always'[u] = always[u] \cap Elements'
         /\ pc'[u] = "scan" /\ pc[u] # "scan" =>
              ever'[u] = Elements' /\ always'[u] = Elements'
BY DEF Observe

\* A reader that does not move keeps what it knows, whatever the others do.
LEMMA ReaderWaits ==
  ASSUME IInv, Listed', OldNodesStay, Observe, NEW u \in Threads, LocalsKept(u),
         ReaderView(u), ReadWasTrue(u)
  PROVE  ReaderView(u)' /\ ReadWasTrue(u)'
<1>1. ReadWasTrue(u)'
  BY Observed DEF ReadWasTrue, LocalsKept
<1>2. ASSUME pc[u] = "scan"
      PROVE  \E T \in SUBSET Nodes :
               /\ PathOf(u, T)'
               /\ (op[u] = "search" => SearchAhead(u))'
               /\ (op[u] = "size" => \E V \in SUBSET Values : Counted(u, V))'
  <2>1. PICK S \in SUBSET Nodes :
           /\ PathOf(u, S)
           /\ op[u] = "search" => SearchAhead(u)
           /\ op[u] = "size" => \E V \in SUBSET Values : Counted(u, V)
    BY <1>2 DEF ReaderView
  <2>2. ever'[u] = ever[u] \cup Elements' /\ always'[u] = always[u] \cap Elements'
    BY <1>2, Observed DEF LocalsKept
  <2>3. ScanTypes
    BY CoreFacts, TypesInTwo DEF IInv
  <2>4. current'[u] = current[u] /\ counter'[u] = counter[u] /\ arg'[u] = arg[u] /\ op'[u] = op[u]
    BY DEF LocalsKept
  <2>5. PICK T \in SUBSET Nodes : T = S \cup live'
    BY DEF Listed, IsList
  <2>9. PathOf(u, T)'
    <3>1. current[u] \in Nodes => current[u] \in S
      BY <2>1 DEF PathOf
    <3>2. QED
      BY <2>1, <2>2, <2>3, <2>4, <2>5, <3>1, PathGrows
  <2>6. current[u] \in Nodes => data'[current[u]] = data[current[u]]
    <3>1. current[u] \in Nodes => data[current[u]] \in ever[u]
      BY <2>1 DEF PathOf, Contents
    <3>2. QED
      BY <2>3, <3>1, ValuesAreInts DEF OldNodesStay, ScanTypes
  <2>7. (op[u] = "search" => SearchAhead(u))'
    BY <2>1, <2>2, <2>4, <2>6 DEF SearchAhead
  <2>8. (op[u] = "size" => \E V \in SUBSET Values : Counted(u, V))'
    <3>1. SUFFICES ASSUME op[u] = "size" PROVE \E V \in SUBSET Values : Counted(u, V)'
      BY <2>4
    <3>2. PICK V \in SUBSET Values : Counted(u, V)
      BY <2>1, <3>1
    <3>3. Counted(u, V)'
      BY <2>2, <2>4, <2>6, <3>2 DEF Counted
    <3>4. QED
      BY <3>3
  <2>10. QED
    BY <2>9, <2>7, <2>8
<1>3. ReaderView(u)'
  BY <1>2 DEF ReaderView, LocalsKept
<1>4. QED
  BY <1>1, <1>3

\* A reader begins with the list as it is.
LEMMA ReaderStarts ==
  ASSUME IInv, Listed', Observe, UNCHANGED <<list, live>>, NEW t \in Threads,
         pc[t] = "idle", pc'[t] = "scan", current'[t] = head, counter'[t] = counter[t],
         op'[t] = "search" => arg'[t] \in Values
  PROVE  ReaderView(t)' /\ ReadWasTrue(t)'
<1>1. ReadWasTrue(t)'
  BY DEF ReadWasTrue
<1>2. ever'[t] = Contents(live, data) /\ always'[t] = Contents(live, data)
  BY Observed DEF Elements, list
<1>3. Listed /\ (\A n \in live : n \in Nodes /\ data[n] \in Int) /\ counter[t] = 0
  BY CoreFacts, ElementFacts DEF IInv, CallFits
<1>4. PathOf(t, live)'
  <2>1. \A n \in live : nextNode[n] \in Nodes => nextNode[n] \in live /\ data[n] < data[nextNode[n]]
    BY <1>3, SuccessorFacts
  <2>2. ASSUME NEW n \in live, NEW v \in Contents(live, data), data[n] < v
        PROVE  nextNode[n] \in live /\ data[nextNode[n]] <= v
    <3>1. PICK m \in live : data[m] = v
      BY DEF Contents
    <3>2. QED
      BY <1>3, <2>2, <3>1, SuccessorFacts
  <2>3. head \in Nodes => head \in live
    BY <1>3, HeadFacts
  <2>4. QED
    BY <1>2, <2>1, <2>2, <2>3 DEF PathOf, list
<1>5. \A v \in Contents(live, data) : head \in Nodes /\ data[head] <= v
  BY <1>3, HeadFacts DEF Contents
<1>6. SearchAhead(t)'
  BY <1>2, <1>5 DEF SearchAhead, list
<1>7. Counted(t, {})'
  BY <1>2, <1>3, <1>5, FS_EmptySet DEF Counted, list
<1>8. live' \in SUBSET Nodes /\ {} \in SUBSET Values
  BY DEF Listed, IsList
<1>9. QED
  BY <1>1, <1>4, <1>6, <1>7, <1>8 DEF ReaderView

\* A reader moves to the next node, and counts the one it leaves.
LEMMA ReaderMoves ==
  ASSUME IInv, Listed', Observe, UNCHANGED <<list, live>>, NEW t \in Threads,
         pc[t] = "scan", pc'[t] = "scan", op'[t] = op[t], arg'[t] = arg[t],
         current[t] \in Nodes, ScanOn(t), op[t] = "search" => data[current[t]] # arg[t],
         ReaderView(t)
  PROVE  ReaderView(t)' /\ ReadWasTrue(t)'
<1> DEFINE c == current[t]
           x == nextNode[c]
<1>1. ReadWasTrue(t)'
  BY DEF ReadWasTrue
<1>2. PICK S \in SUBSET Nodes :
         /\ PathOf(t, S)
         /\ op[t] = "search" => SearchAhead(t)
         /\ op[t] = "size" => \E V \in SUBSET Values : Counted(t, V)
  BY DEF ReaderView
<1>3. /\ ever'[t] = ever[t] \cup Elements' /\ always'[t] = always[t] \cap Elements'
      /\ StateTypes /\ ScanTypes /\ CallFits(t)
  BY Observed, CoreFacts, TypesInTwo DEF IInv
<1>4. /\ current'[t] = x
      /\ counter'[t] = IF op[t] = "size" THEN counter[t] + 1 ELSE counter[t]
  BY <1>3 DEF ScanOn, Stand, NextOf, StateTypes
<1>5. c \in S /\ data[c] \in ever[t] /\ data[c] \in Int
  <2>1. c \in S /\ data[c] \in ever[t]
    BY <1>2 DEF PathOf, Contents
  <2>2. QED
    BY <1>3, <2>1, ValuesAreInts DEF ScanTypes
<1>6. /\ x \in Nodes => x \in S /\ data[c] < data[x]
      /\ \A v \in always[t] : data[c] < v => x \in S /\ data[x] <= v
  BY <1>2, <1>5 DEF PathOf
<1>7. PathOf(t, S)'
  <2>1. OldNodesStay
    BY DEF OldNodesStay, list
  <2>2. live' \subseteq S
    BY <1>2 DEF PathOf
  <2>3. QED
    BY <1>2, <1>3, <1>4, <1>6, <2>1, <2>2, PathGrows
<1>8. (op[t] = "search" => SearchAhead(t))'
  <2>1. ASSUME arg[t] \in always[t], op[t] = "search" PROVE data[c] < arg[t]
    <3>1. arg[t] \in Int
      BY <1>3, <2>1, ValuesAreInts DEF ScanTypes
    <3>2. data[c] <= arg[t] /\ data[c] # arg[t]
      BY <1>2, <2>1 DEF SearchAhead
    <3>3. QED
      BY <1>5, <3>1, <3>2
  <2>2. QED
    BY <1>3, <1>4, <1>6, <2>1 DEF SearchAhead, list
<1>9. (op[t] = "size" => \E V \in SUBSET Values : Counted(t, V))'
  <2>1. SUFFICES ASSUME op[t] = "size" PROVE \E V \in SUBSET Values : Counted(t, V)'
    OBVIOUS
  <2>2. PICK V \in SUBSET Values : Counted(t, V)
    BY <1>2, <2>1
  <2>3. PICK W \in SUBSET Values : W = V \cup {data[c]}
    BY <1>3, <1>5 DEF ScanTypes
  <2>4. IsFiniteSet(W) /\ counter'[t] = Cardinality(W)
    <3>1. data[c] \notin V
      BY <1>5, <2>2 DEF Counted
    <3>2. QED
      <4>1. IsFiniteSet(V) /\ counter[t] = Cardinality(V)
        BY <2>2 DEF Counted
      <4>2. IsFiniteSet(V \cup {data[c]}) /\ Cardinality(V \cup {data[c]}) = Cardinality(V) + 1
        BY <3>1, <4>1, FS_AddElement
      <4>3. QED
        BY <1>4, <2>1, <2>3, <4>1, <4>2
  <2>5. x \in Nodes => \A w \in W : w < data[x]
    <3>1. ASSUME x \in Nodes, NEW w \in W PROVE w < data[x]
      <4>1. data[c] < data[x] /\ data[x] \in Int
        <5>1. data[x] \in ever[t]
          BY <1>2, <1>6, <3>1 DEF PathOf, Contents
        <5>2. QED
          BY <1>3, <1>6, <3>1, <5>1, ValuesAreInts DEF ScanTypes
      <4>2. w \in Int /\ (w < data[c] \/ w = data[c])
        BY <2>2, <2>3, ValuesAreInts DEF Counted
      <4>3. QED
        BY <1>5, <4>1, <4>2
    <3>2. QED
      BY <3>1
  <2>6. ASSUME NEW v \in always[t] PROVE v \in W \/ (x \in Nodes /\ data[x] <= v)
    <3>1. v \in V \/ data[c] <= v
      BY <2>2 DEF Counted
    <3>2. v \in Int
      BY <1>3, ValuesAreInts DEF ScanTypes
    <3>3. QED
      BY <1>5, <1>6, <2>3, <3>1, <3>2
  <2>7. W \subseteq ever'[t]
    BY <1>3, <1>5, <2>2, <2>3 DEF Counted
  <2>8. Counted(t, W)'
    BY <1>3, <1>4, <2>4, <2>5, <2>6, <2>7 DEF Counted, list
  <2>9. QED
    BY <2>8
<1>10. QED
  BY <1>1, <1>7, <1>8, <1>9 DEF ReaderView

\* The answer of a reader follows from what it knows.
LEMMA ReaderEnds ==
  ASSUME IInv, Observe, NEW t \in Threads, NEW r,
         pc[t] = "scan", ScanDone(t, r), op'[t] = op[t], arg'[t] = arg[t], ReaderView(t),
         \/ current[t] = Null /\ r = Empty
         \/ op[t] = "search" /\ current[t] \in Nodes /\ data[current[t]] = arg[t] /\ r = arg[t]
  PROVE  ReaderView(t)' /\ ReadWasTrue(t)'
<1>1. PICK S \in SUBSET Nodes :
         /\ PathOf(t, S)
         /\ op[t] = "search" => SearchAhead(t)
         /\ op[t] = "size" => \E V \in SUBSET Values : Counted(t, V)
  BY DEF ReaderView
<1>2. StateTypes /\ ScanTypes /\ CallFits(t)
  BY CoreFacts, TypesInTwo DEF IInv
<1>3. pc'[t] = "done" /\ ret'[t] = r /\ counter'[t] = counter[t]
  BY <1>2 DEF ScanDone, Goto, Answer, StateTypes
<1>4. ever'[t] = ever[t] /\ always'[t] = always[t]
  BY <1>3, Observed
<1>5. ReaderView(t)'
  BY <1>3 DEF ReaderView
<1>6. CASE op[t] = "search"
  <2>1. current[t] \in Nodes => data[current[t]] \in ever[t]
    BY <1>1 DEF PathOf, Contents
  <2>2. arg[t] \in Values /\ (current[t] = Null => arg[t] \notin always[t])
    BY <1>1, <1>2, <1>6, ValuesAreInts DEF SearchAhead, CallFits
  <2>3. QED
    BY <1>3, <1>4, <1>5, <1>6, <2>1, <2>2, ValuesAreInts DEF ReadWasTrue
<1>7. CASE op[t] = "size"
  <2>1. current[t] \notin Nodes
    BY <1>7, ValuesAreInts
  <2>2. PICK V \in SUBSET Values : Counted(t, V)
    BY <1>1, <1>7
  <2>3. always[t] \subseteq V /\ V \subseteq ever[t] /\ counter[t] = Cardinality(V) /\ IsFiniteSet(V)
    BY <2>1, <2>2 DEF Counted
  <2>4. IsFiniteSet(ever[t])
    <3>1. IsFiniteSet(S)
      BY HandOverHandAssumption, FS_Subset
    <3>2. ever[t] = {data[n] : n \in S}
      BY <1>1 DEF PathOf, Contents
    <3>3. PICK f \in [S -> ever[t]] : \A n \in S : f[n] = data[n]
      <4>1. [n \in S |-> data[n]] \in [S -> ever[t]]
        BY <3>2
      <4>2. QED
        BY <4>1
    <3>4. f \in Surjection(S, ever[t])
      BY <3>2, <3>3 DEF Surjection
    <3>5. QED
      BY <3>1, <3>4, FS_Surjection
  <2>5. Cardinality(always[t]) <= counter[t] /\ counter[t] <= Cardinality(ever[t])
    BY <2>3, <2>4, FS_Subset
  <2>6. QED
    BY <1>3, <1>4, <1>5, <1>7, <2>5 DEF ReadWasTrue
<1>8. QED
  BY <1>2, <1>3, <1>5, <1>6, <1>7 DEF ReadWasTrue

\* What a reader's own step is; any other step of t is not a reader's.
LEMMA ReaderSteps ==
  ASSUME IInv, Listed', Observe, NEW t \in Threads, Invoke(t) \/ Step(t),
         ReaderView(t), ReadWasTrue(t)
  PROVE  ReaderView(t)' /\ ReadWasTrue(t)'
<1> USE DEF Goto, call, list, locks
<1>1. StateTypes /\ CallFits(t)
  BY CoreFacts, TypesInTwo DEF IInv
<1>2. CASE \E v \in Values : StartScan(t, "search", v)
  <2>1. PICK v \in Values : StartScan(t, "search", v)
    BY <1>2
  <2>2. QED
    BY <1>1, <2>1, ReaderStarts DEF StartScan, Stand, StateTypes
<1>3. CASE StartScan(t, "size", Empty)
  BY <1>1, <1>3, ReaderStarts DEF StartScan, Stand, StateTypes
<1>4. CASE SearchStep(t)
  <2>1. UNCHANGED <<list, live, op, arg>> /\ op[t] = "search" /\ pc[t] = "scan"
    BY <1>4 DEF SearchStep
  <2>2. CASE current[t] = Null /\ ScanDone(t, Empty)
    BY <2>1, <2>2, ReaderEnds
  <2>3. CASE current[t] \in Nodes /\ data[current[t]] = arg[t] /\ ScanDone(t, arg[t])
    BY <2>1, <2>3, ReaderEnds
  <2>4. CASE current[t] \in Nodes /\ data[current[t]] # arg[t] /\ ScanOn(t)
    <3>1. pc'[t] = "scan"
      BY <2>1, <2>4 DEF ScanOn
    <3>2. QED
      BY <2>1, <2>4, <3>1, ReaderMoves
  <2>5. QED
    BY <1>4, <2>2, <2>3, <2>4 DEF SearchStep
<1>5. CASE SizeStep(t)
  <2>1. UNCHANGED <<list, live, op, arg>> /\ op[t] = "size" /\ pc[t] = "scan"
    BY <1>5 DEF SizeStep
  <2>2. CASE current[t] = Null /\ ScanDone(t, Empty)
    BY <2>1, <2>2, ReaderEnds
  <2>3. CASE current[t] \in Nodes /\ ScanOn(t)
    <3>1. pc'[t] = "scan"
      BY <2>1, <2>3 DEF ScanOn
    <3>2. QED
      BY <2>1, <2>3, <3>1, ReaderMoves
  <2>4. QED
    BY <1>5, <2>2, <2>3 DEF SizeStep
<1>6. CASE pc'[t] # "scan" /\ (pc'[t] = "done" => op'[t] \in Locking)
  BY <1>6 DEF ReaderView, ReadWasTrue, Locking
<1>7. \/ (\E v \in Values : StartScan(t, "search", v)) \/ StartScan(t, "size", Empty)
      \/ SearchStep(t) \/ SizeStep(t)
      \/ pc'[t] # "scan" /\ (pc'[t] = "done" => op'[t] \in Locking)
  <2>1. CASE Invoke(t)
    BY <1>1, <2>1 DEF Invoke, Enter, StateTypes
  <2>2. CASE LockList(t) \/ Return(t) \/ InScan(t)
    BY <1>1, <2>2 DEF LockList, Return, InScan, ScanWild, Segv, StateTypes
  <2>3. CASE AtTop(t)
    <3>1. pc'[t] \in {"done", "list", "walk", "segv"} /\ op' = op /\ op[t] \in Locking
      BY <1>1, <2>3 DEF AtTop, InsertAtHead, FinishTop, FindEmpty, RemoveHead, RemoveFirst,
                        EmptyStep, EnterList, TopWild, Segv, StateTypes, CallFits, Locking
    <3>2. QED
      BY <3>1
  <2>4. CASE InWalk(t)
    <3>1. pc'[t] \in {"done", "walk", "segv"} /\ op' = op /\ op[t] \in Locking
      BY <1>1, <2>4 DEF InWalk, Hop, InsertHere, FinishWalk, InsertFinds, RemoveNext,
                        RemoveMisses, WalkWild, Segv, StateTypes, CallFits, Locking
    <3>2. QED
      BY <3>1
  <2>5. QED
    BY <2>1, <2>2, <2>3, <2>4 DEF Step
<1>8. QED
  BY <1>2, <1>3, <1>4, <1>5, <1>6, <1>7

LEMMA InitReaders == Init => ReaderInv
<1> SUFFICES ASSUME Init PROVE ReaderInv
  OBVIOUS
<1>1. IInv
  BY InitInvariant
<1>2. \A t \in Threads : ReaderView(t) /\ ReadWasTrue(t)
  BY DEF Init, ReaderView, ReadWasTrue
<1>3. QED
  BY <1>1, <1>2 DEF ReaderInv

LEMMA NextKeepsReaders == ReaderInv /\ [Next]_vars => ReaderInv'
<1> SUFFICES ASSUME ReaderInv, [Next]_vars PROVE ReaderInv'
  OBVIOUS
<1>1. IInv /\ IInv' /\ Listed'
  <2>1. IInv /\ IInv'
    BY NextKeepsInvariant DEF ReaderInv
  <2>2. TypeOK' /\ ListIsSorted'
    BY <2>1 DEF IInv, CoreInv
  <2>3. Listed'
    BY <2>2, ValuesAreInts DEF TypeOK, ListIsSorted, Listed, IsList
  <2>4. QED
    BY <2>1, <2>3
<1>2. ASSUME NEW t \in Threads, Invoke(t) \/ Step(t), Observe, NEW u \in Threads
      PROVE  ReaderView(u)' /\ ReadWasTrue(u)'
  <2>1. ReaderView(u) /\ ReadWasTrue(u)
    BY DEF ReaderInv
  <2>2. CASE u = t
    BY <1>1, <1>2, <2>1, <2>2, ReaderSteps
  <2>3. CASE u # t
    <3>1. LocalsKept(u) /\ OldNodesStay
      BY <1>1, <1>2, <2>3, StepFits, StepLeavesOldNodes DEF LocalsFit
    <3>2. QED
      BY <1>1, <1>2, <2>1, <3>1, ReaderWaits
  <2>4. QED
    BY <2>2, <2>3
<1>3. ASSUME UNCHANGED vars, NEW u \in Threads
      PROVE  ReaderView(u)' /\ ReadWasTrue(u)'
  BY <1>3 DEF ReaderInv, ReaderView, ReadWasTrue, PathOf, SearchAhead, Counted, vars, list, locks,
              call, place, scan
<1>4. QED
  BY <1>1, <1>2, <1>3 DEF ReaderInv, Next, Terminating

\* A search or size that takes no lock, and may stray onto nodes removed under
\* it, answers what was true of the list at some instant of its call: a search
\* does not miss a value that stayed, a size counts each of those once.
THEOREM ReadersStayTrue == Spec => []ReadersWereTrue
<1>1. ReaderInv => ReadersWereTrue
  BY DEF ReaderInv, ReadersWereTrue, SearchWasTrue, SizeIsBetween, ReadWasTrue
<1>2. QED
  BY <1>1, InitReaders, NextKeepsReaders, PTL DEF Spec

-----------------------------------------------------------------------------
(***************************************************************************)
(* The list implements a sorted set whose operations are atomic.           *)
(***************************************************************************)
LEMMA ElementsGrow ==
  ASSUME Listed, StateTypes, NEW n \in Nodes \ live, NEW v, live' = live \cup {n},
         data' = [data EXCEPT ![n] = v]
  PROVE  Elements' = Elements \cup {v}
<1>1. \A m \in live : data'[m] = data[m]
  BY DEF StateTypes, Listed, IsList
<1>2. data'[n] = v
  BY DEF StateTypes
<1>3. QED
  BY <1>1, <1>2 DEF Elements, Contents

LEMMA ElementsShrink ==
  ASSUME Listed, NEW n \in live, live' = live \ {n}, data' = data
  PROVE  Elements' = Elements \ {data[n]}
<1>1. \A m \in live : data[m] = data[n] => m = n
  BY DEF Listed, IsList, SortedFrom
<1>2. QED
  BY <1>1 DEF Elements, Contents

\* A value is missing when the nodes before and after its place do not hold it.
LEMMA NotThere ==
  ASSUME Listed, NEW c \in live, NEW v \in Values, data[c] < v,
         nextNode[c] = Null \/ (nextNode[c] \in Nodes /\ data[nextNode[c]] > v)
  PROVE  v \notin Elements
<1>1. ASSUME NEW m \in live, data[m] = v PROVE FALSE
  <2>1. data[m] <= data[c] \/ (nextNode[c] \in live /\ data[nextNode[c]] <= data[m])
    BY SuccessorFacts, ValuesAreInts
  <2>2. data[c] \in Int /\ v \in Int /\ (nextNode[c] \in live => nextNode[c] \in Nodes /\ data[nextNode[c]] \in Int)
    BY ElementFacts, ValuesAreInts
  <2>3. QED
    BY <1>1, <2>1, <2>2, ValuesAreInts
<1>2. QED
  BY <1>1 DEF Elements, Contents

LEMMA NotBeforeHead ==
  ASSUME Listed, NEW v \in Values, head \notin Nodes \/ data[head] > v
  PROVE  v \notin Elements
<1>1. ASSUME NEW m \in live, data[m] = v PROVE FALSE
  BY <1>1, HeadFacts, ElementFacts, ValuesAreInts
<1>2. QED
  BY <1>1 DEF Elements, Contents

OpenCall(t) == [op |-> op[t], arg |-> arg[t], ret |-> Empty]
DoneCall(r) == [op |-> "done", arg |-> Empty, ret |-> r]
NoCall == [op |-> "none", arg |-> Empty, ret |-> Empty]

LEMMA CallBefore ==
  ASSUME IInv, NEW t \in Threads
  PROVE  /\ pc[t] \in {"list", "top"} => CallOf(t) = OpenCall(t)
         /\ pc[t] = "walk" => CallOf(t) = IF HasMissed(t) THEN DoneCall(Empty) ELSE OpenCall(t)
         /\ pc[t] = "done" /\ op[t] \in Locking => CallOf(t) = DoneCall(ret[t])
         /\ op[t] \in {"none", "search", "size"} => CallOf(t) = NoCall
         /\ op[t] \in Ops
<1>1. CallFits(t) /\ StateTypes
  BY CoreFacts, TypesInTwo DEF IInv
<1>2. QED
  BY <1>1 DEF CallFits, StateTypes, CallOf, OpenCall, DoneCall, NoCall, HasMissed, Locking

LEMMA CallAfter ==
  ASSUME IInv', NEW t \in Threads
  PROVE  /\ pc'[t] \in {"list", "top"} => CallOf(t)' = OpenCall(t)'
         /\ pc'[t] = "walk" =>
              CallOf(t)' = IF HasMissed(t)' THEN DoneCall(Empty) ELSE OpenCall(t)'
         /\ pc'[t] = "done" /\ op'[t] \in Locking => CallOf(t)' = DoneCall(ret'[t])
         /\ op'[t] \in {"none", "search", "size"} => CallOf(t)' = NoCall
<1>1. CallFits(t)'
  BY DEF IInv, CoreInv
<1>2. op'[t] \in Ops
  BY DEF IInv, CoreInv, TypeOK
<1>3. QED
  BY <1>1, <1>2 DEF CallFits, CallOf, OpenCall, DoneCall, NoCall, HasMissed, Locking

\* The calls of the others look the same after a step of t.
OthersKept(t) == \A u \in Threads \ {t} : CallOf(u)' = CallOf(u)

LEMMA OthersCalls ==
  ASSUME IInv, ~Crashed, NEW t \in Threads, Invoke(t) \/ Step(t)
  PROVE  OthersKept(t)
<1>1. ASSUME NEW u \in Threads \ {t} PROVE CallOf(u)' = CallOf(u)
  <2>1. LocalsKept(u) /\ OldNodesStay /\ Listed /\ Holder(u) /\ pc[u] # "segv"
    BY StepFits, StepLeavesOldNodes, CoreFacts DEF IInv, LocalsFit, Crashed
  <2>2. pc[u] = "walk" => data'[current[u]] = data[current[u]]
    BY <2>1, ElementFacts DEF Holder, OldNodesStay
  <2>3. HasMissed(u)' <=> HasMissed(u)
    BY <2>1, <2>2 DEF HasMissed, LocalsKept
  <2>4. QED
    BY <2>1, <2>3 DEF CallOf, LocalsKept
<1>2. QED
  BY <1>1 DEF OthersKept

LEMMA SetCallChanges ==
  ASSUME NEW t \in Threads, OthersKept(t)
  PROVE  /\ [u \in Threads |-> CallOf(u)]' = [[u \in Threads |-> CallOf(u)] EXCEPT ![t] = CallOf(t)']
         /\ CallOf(t)' = CallOf(t) => [u \in Threads |-> CallOf(u)]' = [u \in Threads |-> CallOf(u)]
BY DEF OthersKept

LEMMA SetAnswers ==
  ASSUME NEW t \in Threads, NEW r, OthersKept(t), CallOf(t)' = DoneCall(r)
  PROVE  Set!Answer(t, r)
BY SetCallChanges DEF Set!Answer, Set!Returning, Set!Call, DoneCall

LEMMA SetStutters ==
  ASSUME NEW t \in Threads, OthersKept(t), CallOf(t)' = CallOf(t), Elements' = Elements
  PROVE  UNCHANGED Set!vars
BY SetCallChanges DEF Set!vars

\* The three effects of a call that ends.
LEMMA SetInserts ==
  ASSUME NEW t \in Threads, OthersKept(t), CallOf(t) = OpenCall(t), op[t] = "insert",
         CallOf(t)' = DoneCall(IF arg[t] \in Elements THEN Empty ELSE arg[t]),
         Elements' = Elements \cup {arg[t]}
  PROVE  Set!Insert(t)
BY SetAnswers DEF Set!Insert, OpenCall

LEMMA SetRemoves ==
  ASSUME NEW t \in Threads, OthersKept(t), CallOf(t) = OpenCall(t), op[t] = "remove",
         CallOf(t)' = DoneCall(IF arg[t] \in Elements THEN arg[t] ELSE Empty),
         Elements' = Elements \ {arg[t]}
  PROVE  Set!Remove(t)
BY SetAnswers DEF Set!Remove, OpenCall

LEMMA SetSeesEmpty ==
  ASSUME NEW t \in Threads, OthersKept(t), CallOf(t) = OpenCall(t),
         op[t] \in {"removeFirst", "empty"}, CallOf(t)' = DoneCall(Empty),
         Elements = {}, Elements' = {}
  PROVE  Set!SeeEmpty(t)
BY SetAnswers DEF Set!SeeEmpty, OpenCall

-----------------------------------------------------------------------------
(* Each action of the list is one of the set's, or changes nothing there. *)
LEMMA InvokeIsSets ==
  ASSUME IInv, IInv', ~Crashed, NEW t \in Threads, Invoke(t)
  PROVE  Set!Invoke(t) \/ UNCHANGED Set!vars
<1> USE DEF Goto, call, list, locks, Locking
<1>1. StateTypes /\ CallFits(t) /\ OthersKept(t)
  BY CoreFacts, TypesInTwo, OthersCalls DEF IInv
<1>2. Elements' = Elements
  BY DEF Invoke, Enter, StartScan, Elements
<1>3. ASSUME NEW o \in Locking, NEW v, Enter(t, o, v), Set!Call(o, v, Empty) \in Set!Operations
      PROVE  Set!Invoke(t)
  <2>1. CallOf(t) = Set!Idle
    BY <1>1, <1>3, CallBefore DEF Enter, CallFits, NoCall, Set!Idle, Set!Call
  <2>2. CallOf(t)' = Set!Call(o, v, Empty)
    BY <1>1, <1>3, CallAfter DEF Enter, StateTypes, OpenCall, Set!Call
  <2>3. QED
    BY <1>1, <1>2, <1>3, <2>1, <2>2, SetCallChanges DEF Set!Invoke
<1>4. ASSUME NEW o \in {"search", "size"}, NEW v, StartScan(t, o, v)
      PROVE  UNCHANGED Set!vars
  <2>1. CallOf(t) = NoCall
    BY <1>1, <1>4, CallBefore DEF StartScan, CallFits
  <2>2. CallOf(t)' = NoCall
    BY <1>1, <1>4, CallAfter DEF StartScan, StateTypes
  <2>3. QED
    BY <1>1, <1>2, <2>1, <2>2, SetStutters
<1>5. /\ \A v \in Values : /\ Set!Call("insert", v, Empty) \in Set!Operations
                           /\ Set!Call("remove", v, Empty) \in Set!Operations
      /\ Set!Call("removeFirst", Empty, Empty) \in Set!Operations
      /\ Set!Call("empty", Empty, Empty) \in Set!Operations
  BY DEF Set!Operations
<1>6. QED
  BY <1>3, <1>4, <1>5 DEF Invoke

LEMMA PlainStepsAreSets ==
  ASSUME IInv, IInv', ~Crashed, NEW t \in Threads, LockList(t) \/ Return(t) \/ InScan(t)
  PROVE  Set!Return(t) \/ UNCHANGED Set!vars
<1> USE DEF Goto, call, list, locks, Locking
<1>1. StateTypes /\ CallFits(t) /\ OthersKept(t)
  BY CoreFacts, TypesInTwo, OthersCalls DEF IInv, Step
<1>2. Elements' = Elements
  BY DEF LockList, Return, InScan, SearchStep, SizeStep, ScanWild, Segv, Elements
<1>3. CASE LockList(t)
  <2>1. CallOf(t) = OpenCall(t) /\ CallOf(t)' = OpenCall(t)'
    BY <1>1, <1>3, CallBefore, CallAfter DEF LockList, StateTypes
  <2>2. OpenCall(t)' = OpenCall(t)
    BY <1>3 DEF LockList, OpenCall
  <2>3. QED
    BY <1>1, <1>2, <2>1, <2>2, SetStutters
<1>4. CASE Return(t)
  <2>1. CallOf(t)' = NoCall
    BY <1>1, <1>4, CallAfter DEF Return, StateTypes
  <2>2. CASE op[t] \in Locking
    <3>1. CallOf(t) = DoneCall(ret[t])
      BY <1>4, <2>2, CallBefore DEF Return
    <3>2. QED
      BY <1>1, <1>2, <2>1, <3>1, SetCallChanges DEF Set!Return, Set!Idle, Set!Call, NoCall, DoneCall
  <2>3. CASE op[t] \notin Locking
    <3>1. CallOf(t) = NoCall
      BY <2>3, CallBefore DEF Ops
    <3>2. QED
      BY <1>1, <1>2, <2>1, <3>1, SetStutters
  <2>4. QED
    BY <2>2, <2>3
<1>5. CASE InScan(t)
  <2>1. op' = op /\ op[t] \in {"search", "size"}
    BY <1>1, <1>5 DEF InScan, SearchStep, SizeStep, ScanWild, Segv, CallFits
  <2>2. CallOf(t) = NoCall /\ CallOf(t)' = NoCall
    BY <2>1, CallBefore, CallAfter
  <2>3. QED
    BY <1>1, <1>2, <2>2, SetStutters
<1>6. QED
  BY <1>3, <1>4, <1>5

\* At the head.
LEMMA FinishedTop ==
  ASSUME IInv, IInv', NEW t \in Threads, NEW v, FinishTop(t, v), op[t] \in Locking
  PROVE  CallOf(t) = OpenCall(t) /\ CallOf(t)' = DoneCall(v)
<1>1. StateTypes
  BY CoreFacts, TypesInTwo DEF IInv
<1>2. pc[t] = "top" /\ pc'[t] = "done" /\ op'[t] = op[t] /\ ret'[t] = v
  BY <1>1 DEF FinishTop, Goto, Answer, call, StateTypes
<1>3. QED
  BY <1>2, CallBefore, CallAfter

LEMMA InsertAtHeadIsSets ==
  ASSUME IInv, IInv', ~Crashed, NEW t \in Threads, InsertAtHead(t)
  PROVE  Set!Insert(t)
<1> DEFINE h == current[t]
<1>1. StateTypes /\ CallFits(t) /\ OthersKept(t) /\ Listed /\ Holder(t)
  BY CoreFacts, TypesInTwo, OthersCalls DEF IInv, Step, AtTop, InsertAtHead
<1>2. op[t] = "insert" /\ pc[t] = "top" /\ h = head /\ arg[t] \in Values /\ arg[t] # Empty
  BY <1>1, ValuesAreInts DEF InsertAtHead, Holder, CallFits
<1>3. NewNode \in Nodes \ live
  BY <1>1, <1>2, NodeForInsert, ElementFacts DEF IInv
<1>4. CASE h \in Nodes /\ data[h] = arg[t] /\ FinishTop(t, Empty) /\ UNCHANGED <<list, live>>
  <2>1. h \in live /\ arg[t] \in Elements
    BY <1>1, <1>2, <1>4, HeadFacts DEF Elements, Contents
  <2>2. Elements' = Elements
    BY <1>4 DEF Elements, list
  <2>3. CallOf(t) = OpenCall(t) /\ CallOf(t)' = DoneCall(Empty)
    BY <1>2, <1>4, FinishedTop DEF Locking
  <2>4. QED
    BY <1>1, <1>2, <2>1, <2>2, <2>3, SetInserts
<1>5. CASE /\ h \notin Nodes \/ data[h] > arg[t]
           /\ \E x : LinkNew(t, NewNode, x)
           /\ FinishTop(t, arg[t])
  <2>1. arg[t] \notin Elements
    BY <1>1, <1>2, <1>5, NotBeforeHead
  <2>2. Elements' = Elements \cup {arg[t]}
    BY <1>1, <1>3, <1>5, ElementsGrow DEF LinkNew
  <2>3. CallOf(t) = OpenCall(t) /\ CallOf(t)' = DoneCall(arg[t])
    BY <1>2, <1>5, FinishedTop DEF Locking
  <2>4. QED
    BY <1>1, <1>2, <2>1, <2>2, <2>3, SetInserts
<1>6. QED
  BY <1>4, <1>5, ValuesAreInts DEF InsertAtHead

LEMMA UnlinkHeadShrinks ==
  ASSUME IInv, NEW t \in Threads, pc[t] = "top", UnlinkHead(t)
  PROVE  /\ Elements' = Elements \ {data[current[t]]}
         /\ data[current[t]] \in Elements
         /\ \A w \in Elements : data[current[t]] <= w
<1>1. Listed /\ current[t] = head /\ head \in Nodes
  BY CoreFacts DEF IInv, Holder, UnlinkHead
<1>2. head \in live /\ \A m \in live : data[head] <= data[m]
  BY <1>1, HeadFacts
<1>3. Elements' = Elements \ {data[head]}
  BY <1>1, <1>2, ElementsShrink DEF UnlinkHead
<1>4. QED
  BY <1>1, <1>2, <1>3 DEF Elements, Contents

\* remove goes on behind a head that is past its value: it has missed.
LEMMA EnterListIsSets ==
  ASSUME IInv, IInv', ~Crashed, NEW t \in Threads, pc[t] = "top", EnterList(t)
  PROVE  Set!Remove(t) \/ UNCHANGED Set!vars
<1> DEFINE h == current[t]
<1>1. StateTypes /\ CallFits(t) /\ OthersKept(t) /\ Listed /\ Holder(t)
  BY CoreFacts, TypesInTwo, OthersCalls DEF IInv, Step, AtTop
<1>2. /\ h \in Nodes /\ h = head /\ pc'[t] = "walk" /\ current'[t] = h /\ op[t] \in {"insert", "remove"}
      /\ arg[t] \in Values /\ UNCHANGED <<op, arg, data, live>>
  BY <1>1 DEF EnterList, Goto, Stand, call, list, StateTypes, CallFits, Holder
<1>3. Elements' = Elements
  BY <1>2 DEF Elements
<1>4. CallOf(t) = OpenCall(t) /\ OpenCall(t)' = OpenCall(t)
  BY <1>2, CallBefore DEF OpenCall
<1>5. CallOf(t)' = IF HasMissed(t)' THEN DoneCall(Empty) ELSE OpenCall(t)'
  BY <1>2, CallAfter
<1>6. CASE ~HasMissed(t)'
  BY <1>1, <1>3, <1>4, <1>5, <1>6, SetStutters
<1>7. CASE HasMissed(t)'
  <2>1. op[t] = "remove" /\ data[head] > arg[t]
    BY <1>2, <1>7 DEF HasMissed
  <2>2. arg[t] \notin Elements
    BY <1>1, <1>2, <2>1, NotBeforeHead
  <2>3. QED
    BY <1>1, <1>3, <1>4, <1>5, <1>7, <2>1, <2>2, SetRemoves
<1>8. QED
  BY <1>6, <1>7

LEMMA AtTopIsSets ==
  ASSUME IInv, IInv', ~Crashed, NEW t \in Threads, AtTop(t)
  PROVE  \/ Set!Insert(t) \/ Set!Remove(t) \/ Set!RemoveFirst(t) \/ Set!Drain(t) \/ Set!SeeEmpty(t)
         \/ UNCHANGED Set!vars
<1> DEFINE h == current[t]
<1>1. StateTypes /\ CallFits(t) /\ OthersKept(t) /\ Listed /\ Holder(t) /\ pc[t] = "top"
  BY CoreFacts, TypesInTwo, OthersCalls DEF IInv, Step, AtTop
<1>2. CASE InsertAtHead(t)
  BY <1>2, InsertAtHeadIsSets
<1>3. CASE FindEmpty(t)
  <2>1. Elements = {} /\ Elements' = {}
    <3>1. live = {} /\ live' = live
      BY <1>1, <1>3, HeadFacts, ValuesAreInts DEF FindEmpty, Holder
    <3>2. QED
      BY <3>1 DEF Elements, Contents
  <2>2. CallOf(t) = OpenCall(t) /\ CallOf(t)' = DoneCall(Empty)
    BY <1>3, FinishedTop DEF FindEmpty, Locking
  <2>3. CASE op[t] = "remove"
    BY <1>1, <2>1, <2>2, <2>3, SetRemoves
  <2>4. CASE op[t] # "remove"
    BY <1>1, <1>3, <2>1, <2>2, <2>4, SetSeesEmpty DEF FindEmpty
  <2>5. QED
    BY <2>3, <2>4
<1>4. CASE RemoveHead(t)
  <2>1. Elements' = Elements \ {arg[t]} /\ arg[t] \in Elements
    BY <1>1, <1>4, UnlinkHeadShrinks DEF RemoveHead
  <2>2. CallOf(t) = OpenCall(t) /\ CallOf(t)' = DoneCall(arg[t]) /\ op[t] = "remove"
    BY <1>4, FinishedTop DEF RemoveHead, Locking
  <2>3. QED
    BY <1>1, <2>1, <2>2, SetRemoves
<1>5. CASE RemoveFirst(t)
  <2>1. Elements' = Elements \ {data[h]} /\ Set!IsLeast(data[h]) /\ data[h] \in Elements
    BY <1>1, <1>5, UnlinkHeadShrinks DEF RemoveFirst, Set!IsLeast
  <2>2. CallOf(t) = OpenCall(t) /\ CallOf(t)' = DoneCall(data[h]) /\ op[t] = "removeFirst"
    BY <1>5, FinishedTop DEF RemoveFirst, Locking
  <2>3. Set!RemoveFirst(t)
    BY <1>1, <2>1, <2>2, SetAnswers DEF Set!RemoveFirst, OpenCall
  <2>4. QED
    BY <2>3
<1>6. CASE EmptyStep(t)
  <2>1. Elements' = Elements \ {data[h]} /\ Set!IsLeast(data[h]) /\ data[h] \in Elements
    BY <1>1, <1>6, UnlinkHeadShrinks DEF EmptyStep, Set!IsLeast
  <2>2. pc'[t] = "list" /\ UNCHANGED <<op, arg>> /\ op[t] = "empty"
    BY <1>1, <1>6 DEF EmptyStep, Goto, call, StateTypes
  <2>3. CallOf(t) = OpenCall(t) /\ CallOf(t)' = CallOf(t)
    BY <1>1, <2>2, CallBefore, CallAfter DEF OpenCall
  <2>4. Set!Drain(t)
    <3>1. [u \in Threads |-> CallOf(u)]' = [u \in Threads |-> CallOf(u)]
      BY <1>1, <2>3, SetCallChanges
    <3>2. [u \in Threads |-> CallOf(u)][t].op = "empty"
      BY <2>2, <2>3 DEF OpenCall
    <3>3. QED
      BY <2>1, <3>1, <3>2 DEF Set!Drain
  <2>5. QED
    BY <2>4
<1>7. CASE EnterList(t)
  BY <1>1, <1>7, EnterListIsSets
<1>8. CASE TopWild(t)
  <2>1. /\ Elements' = Elements /\ pc'[t] = "segv" /\ current'[t] \notin Nodes
        /\ UNCHANGED <<op, arg>>
    BY <1>1, <1>8, ValuesAreInts DEF TopWild, Segv, Goto, Elements, call, list, place, StateTypes
  <2>2. CallOf(t) = OpenCall(t) /\ CallOf(t)' = OpenCall(t)
    <3>1. op[t] \in Locking
      BY <1>1 DEF CallFits
    <3>2. QED
      BY <1>1, <2>1, <3>1, CallBefore DEF CallOf, HasMissed, OpenCall, Locking
  <2>3. QED
    BY <1>1, <2>1, <2>2, SetStutters
<1>9. QED
  BY <1>2, <1>3, <1>4, <1>5, <1>6, <1>7, <1>8 DEF AtTop

\* Inside the list.
LEMMA FinishedWalk ==
  ASSUME IInv, IInv', NEW t \in Threads, NEW v, FinishWalk(t, v), op[t] \in Locking
  PROVE  /\ CallOf(t) = IF HasMissed(t) THEN DoneCall(Empty) ELSE OpenCall(t)
         /\ CallOf(t)' = DoneCall(v)
<1>1. StateTypes
  BY CoreFacts, TypesInTwo DEF IInv
<1>2. pc[t] = "walk" /\ pc'[t] = "done" /\ op'[t] = op[t] /\ ret'[t] = v
  BY <1>1 DEF FinishWalk, Goto, Answer, call, StateTypes
<1>3. QED
  BY <1>2, CallBefore, CallAfter

\* What a thread inside the list knows of its node and of the next.
LEMMA WalkFacts ==
  ASSUME IInv, NEW t \in Threads, pc[t] = "walk"
  PROVE  /\ current[t] \in live /\ current[t] \in Nodes /\ nxt[t] = nextNode[current[t]]
         /\ arg[t] \in Values /\ arg[t] \in Int /\ data[current[t]] \in Int
         /\ op[t] = "insert" => data[current[t]] < arg[t] /\ ~HasMissed(t)
         /\ op[t] = "remove" /\ ~HasMissed(t) => data[current[t]] < arg[t]
         /\ nxt[t] \in Nodes =>
              /\ nxt[t] \in live /\ data[nxt[t]] \in Int /\ data[current[t]] < data[nxt[t]]
              /\ data[nxt[t]] <= arg[t] => ~HasMissed(t)
<1>1. Listed /\ Holder(t) /\ CallFits(t)
  BY CoreFacts DEF IInv
<1>2. current[t] \in live /\ nxt[t] = nextNode[current[t]] /\ arg[t] \in Values /\ arg[t] \in Int
  BY <1>1, ValuesAreInts DEF Holder, NextOf, CallFits
<1>3. data[current[t]] \in Int /\ current[t] \in Nodes
  BY <1>1, <1>2, ElementFacts
<1>4. op[t] = "insert" => data[current[t]] < arg[t] /\ ~HasMissed(t)
  BY <1>1 DEF Holder, HasMissed
<1>5. op[t] = "remove" /\ ~HasMissed(t) => data[current[t]] < arg[t]
  BY <1>1, <1>2, <1>3 DEF Holder, HasMissed
<1>6. nxt[t] \in Nodes => nxt[t] \in live /\ data[nxt[t]] \in Int /\ data[current[t]] < data[nxt[t]]
  BY <1>1, <1>2, ElementFacts, SuccessorFacts
<1>7. nxt[t] \in Nodes /\ data[nxt[t]] <= arg[t] => ~HasMissed(t)
  BY <1>2, <1>3, <1>6 DEF HasMissed
<1>8. QED
  BY <1>2, <1>3, <1>4, <1>5, <1>6, <1>7

LEMMA InWalkIsSets ==
  ASSUME IInv, IInv', ~Crashed, NEW t \in Threads, InWalk(t)
  PROVE  Set!Insert(t) \/ Set!Remove(t) \/ UNCHANGED Set!vars
<1> DEFINE c == current[t]
           n == nxt[t]
<1>1. StateTypes /\ CallFits(t) /\ OthersKept(t) /\ Listed
  BY CoreFacts, TypesInTwo, OthersCalls DEF IInv, Step
<1>2. pc[t] = "walk"
  BY DEF InWalk, Hop, InsertHere, InsertFinds, FinishWalk, RemoveNext, RemoveMisses, WalkWild,
         Goto
<1>3. CASE Hop(t)
  <2>1. /\ n \in Nodes /\ data[n] < arg[t] /\ pc'[t] = "walk" /\ current'[t] = n
        /\ UNCHANGED <<op, arg, data, live>>
    BY <1>1, <1>2, <1>3 DEF Hop, Stand, call, list, StateTypes
  <2>2. ~HasMissed(t) /\ ~HasMissed(t)' /\ Elements' = Elements
    BY <1>2, <2>1, WalkFacts DEF HasMissed, Elements
  <2>3. CallOf(t) = OpenCall(t) /\ CallOf(t)' = OpenCall(t)' /\ OpenCall(t)' = OpenCall(t)
    BY <1>2, <2>1, <2>2, CallBefore, CallAfter DEF OpenCall
  <2>4. QED
    BY <1>1, <2>2, <2>3, SetStutters
<1>4. CASE InsertHere(t)
  <2>1. /\ op[t] = "insert" /\ (n = Null \/ (n \in Nodes /\ data[n] > arg[t]))
        /\ FinishWalk(t, arg[t]) /\ InsertAfter(t, NewNode)
    BY <1>4 DEF InsertHere
  <2>2. arg[t] \notin Elements
    BY <1>1, <1>2, <2>1, WalkFacts, NotThere
  <2>3. NewNode \in Nodes \ live
    BY <1>1, <1>2, <2>1, NodeForInsert, ElementFacts DEF IInv
  <2>4. Elements' = Elements \cup {arg[t]}
    BY <1>1, <1>2, <2>1, <2>3, WalkFacts, ElementsGrow DEF InsertAfter
  <2>5. CallOf(t) = OpenCall(t) /\ CallOf(t)' = DoneCall(arg[t])
    BY <1>2, <2>1, WalkFacts, FinishedWalk DEF Locking
  <2>6. QED
    BY <1>1, <2>1, <2>2, <2>4, <2>5, SetInserts
<1>5. CASE InsertFinds(t)
  <2>1. op[t] = "insert" /\ n \in Nodes /\ data[n] = arg[t] /\ FinishWalk(t, Empty)
    BY <1>5 DEF InsertFinds
  <2>2. arg[t] \in Elements /\ Elements' = Elements
    BY <1>2, <1>5, <2>1, WalkFacts DEF InsertFinds, Elements, Contents, list
  <2>3. CallOf(t) = OpenCall(t) /\ CallOf(t)' = DoneCall(Empty)
    BY <1>2, <2>1, WalkFacts, FinishedWalk DEF Locking
  <2>4. QED
    BY <1>1, <2>1, <2>2, <2>3, SetInserts
<1>6. CASE RemoveNext(t)
  <2>1. /\ op[t] = "remove" /\ n \in Nodes /\ data[n] = arg[t] /\ FinishWalk(t, arg[t])
        /\ live' = live \ {n} /\ data' = data
    BY <1>6 DEF RemoveNext
  <2>2. arg[t] \in Elements /\ Elements' = Elements \ {arg[t]} /\ ~HasMissed(t)
    BY <1>1, <1>2, <2>1, WalkFacts, ElementsShrink DEF Elements, Contents
  <2>3. CallOf(t) = OpenCall(t) /\ CallOf(t)' = DoneCall(arg[t])
    BY <2>1, <2>2, FinishedWalk DEF Locking
  <2>4. QED
    BY <1>1, <2>1, <2>2, <2>3, SetRemoves
<1>7. CASE RemoveMisses(t)
  <2>1. /\ op[t] = "remove" /\ (n = Null \/ (n \in Nodes /\ data[n] > arg[t]))
        /\ FinishWalk(t, Empty) /\ UNCHANGED <<list, live>>
    BY <1>7 DEF RemoveMisses
  <2>2. Elements' = Elements
    BY <2>1 DEF Elements, list
  <2>3. CallOf(t)' = DoneCall(Empty)
        /\ CallOf(t) = IF HasMissed(t) THEN DoneCall(Empty) ELSE OpenCall(t)
    BY <2>1, FinishedWalk DEF Locking
  <2>4. CASE HasMissed(t)
    BY <1>1, <2>2, <2>3, <2>4, SetStutters
  <2>5. CASE ~HasMissed(t)
    <3>1. arg[t] \notin Elements
      BY <1>1, <1>2, <2>1, <2>5, WalkFacts, NotThere
    <3>2. QED
      BY <1>1, <2>1, <2>2, <2>3, <2>5, <3>1, SetRemoves
  <2>6. QED
    BY <2>4, <2>5
<1>8. CASE WalkWild(t)
  <2>1. /\ Elements' = Elements /\ pc'[t] = "segv"
        /\ UNCHANGED <<op, arg, current, data, ret>>
    BY <1>1, <1>8 DEF WalkWild, Segv, Goto, Elements, call, list, place, StateTypes
  <2>2. HasMissed(t)' <=> HasMissed(t)
    BY <1>2, <2>1 DEF HasMissed
  <2>3. CallOf(t)' = CallOf(t)
    BY <1>2, <2>1, <2>2 DEF CallOf
  <2>4. QED
    BY <1>1, <2>1, <2>3, SetStutters
<1>9. QED
  BY <1>3, <1>4, <1>5, <1>6, <1>7, <1>8 DEF InWalk

LEMMA SetInit == Init => Set!Init
<1> SUFFICES ASSUME Init PROVE Set!Init
  OBVIOUS
<1>1. Elements \subseteq Values
  BY HandOverHandAssumption DEF Init
<1>2. \A t \in Threads : CallOf(t) = NoCall
  BY DEF Init, CallOf, NoCall
<1>3. QED
  BY <1>1, <1>2 DEF Set!Init, Set!Idle, Set!Call, NoCall

LEMMA NextIsSets == IInv /\ IInv' /\ [Next]_vars => [Set!Next]_(Set!vars)
<1> SUFFICES ASSUME IInv, IInv', [Next]_vars PROVE [Set!Next]_(Set!vars)
  OBVIOUS
<1>1. ASSUME NEW t \in Threads, Invoke(t) \/ Step(t), ~Crashed PROVE [Set!Next]_(Set!vars)
  <2>1. CASE Invoke(t)
    BY <1>1, <2>1, InvokeIsSets DEF Set!Next
  <2>2. CASE LockList(t) \/ Return(t) \/ InScan(t)
    BY <1>1, <2>2, PlainStepsAreSets DEF Set!Next
  <2>3. CASE AtTop(t)
    BY <1>1, <2>3, AtTopIsSets DEF Set!Next
  <2>4. CASE InWalk(t)
    BY <1>1, <2>4, InWalkIsSets DEF Set!Next
  <2>5. QED
    BY <1>1, <2>1, <2>2, <2>3, <2>4 DEF Step
<1>2. ASSUME UNCHANGED vars PROVE UNCHANGED Set!vars
  BY <1>2 DEF vars, list, call, place, Set!vars, Elements, CallOf, HasMissed
<1>3. QED
  BY <1>1, <1>2 DEF Next, Terminating

\* insert, remove, removeFirst and empty, each of several locks and writes,
\* act on a sorted set at one instant of the call, for any number of threads.
THEOREM Linearizable == Spec => RefinesSortedSet
BY SetInit, NextIsSets, InductiveInvariant, PTL DEF Spec, RefinesSortedSet, Set!Spec

-----------------------------------------------------------------------------
(***************************************************************************)
(* The queue.  dequeue does not wait for the node it unlinks, so a thread  *)
(* inside the list may stand on a node that is out of it: what it links    *)
(* there is lost, but nothing is handed out twice.                         *)
(***************************************************************************)
QPlace(t) ==
  /\ op[t] \in {"none", "insert", "removeFirst"}
  /\ pc[t] = "top" => listLock = t /\ current[t] = head
  /\ pc[t] = "walk" =>
       /\ op[t] = "insert" /\ nodeLock[current[t]] = t /\ nxt[t] = NextOf(t)
       /\ current[t] \in Nodes /\ data[current[t]] \in Values /\ data[current[t]] < arg[t]

\* Nodes that were linked once lead to nodes that were linked once.
LinksLead == \A n \in Nodes : data[n] # Empty /\ nextNode[n] \in Nodes => data[nextNode[n]] # Empty

QCore == Fitting /\ Listed /\ LinksLead /\ \A t \in Threads : QPlace(t)
LedgerTypes == accepted \in [Values -> Nat] /\ taken \in [Values -> Nat]
QInv == QCore /\ LedgerTypes /\ NothingTwice

LEMMA QCoreFacts ==
  ASSUME QCore
  PROVE  /\ StateTypes /\ RoomStays /\ Fitting /\ Listed /\ LinksLead
         /\ \A t \in Threads : QPlace(t) /\ CallFits(t)
BY DEF QCore, Fitting

QSoundAfter == Listed' /\ LinksLead' /\ \A u \in Threads : QPlace(u)'

\* A step that leaves the list alone and moves t out of the locks' reach.
LEMMA QLeaveList ==
  ASSUME QCore, NEW t \in Threads, UNCHANGED <<list, live>>,
         \A u \in Threads \ {t} : LocalsKept(u),
         pc'[t] \notin {"top", "walk"}, op'[t] \in {"none", "insert", "removeFirst"},
         \A u \in Threads \ {t} : listLock = u => listLock' = u,
         \A u \in Threads \ {t}, n \in Nodes : nodeLock[n] = u => nodeLock'[n] = u
  PROVE  QSoundAfter
<1>1. Listed' /\ LinksLead'
  BY QCoreFacts DEF Listed, LinksLead, list
<1>2. ASSUME NEW u \in Threads PROVE QPlace(u)'
  <2>1. CASE u = t
    BY <2>1 DEF QPlace
  <2>2. CASE u # t
    BY <2>2, QCoreFacts DEF QPlace, LocalsKept, list, NextOf
  <2>3. QED
    BY <2>1, <2>2
<1>3. QED
  BY <1>1, <1>2 DEF QSoundAfter

\* t enters the list or goes on in it, where the values are still below its own.
LEMMA QMoves ==
  ASSUME QCore, NEW t \in Threads, NEW n \in Nodes, UNCHANGED <<list, live, op, arg>>,
         \A u \in Threads \ {t} : LocalsKept(u), op[t] = "insert",
         pc'[t] = "walk", current'[t] = n, nxt'[t] = nextNode[n],
         data[n] \in Values, data[n] < arg[t], nodeLock[n] = NoThread, nodeLock'[n] = t,
         \A u \in Threads \ {t} : listLock = u => listLock' = u,
         \A u \in Threads \ {t}, m \in Nodes : nodeLock[m] = u => nodeLock'[m] = u
  PROVE  QSoundAfter
<1>1. Listed' /\ LinksLead'
  BY QCoreFacts DEF Listed, LinksLead, list
<1>2. ASSUME NEW u \in Threads PROVE QPlace(u)'
  <2>1. CASE u = t
    BY <2>1 DEF QPlace, list, NextOf
  <2>2. CASE u # t
    BY <2>2, QCoreFacts DEF QPlace, LocalsKept, list, NextOf
  <2>3. QED
    BY <2>1, <2>2
<1>3. QED
  BY <1>1, <1>2 DEF QSoundAfter

LEMMA QLockListSound ==
  ASSUME QCore, NEW t \in Threads, LockList(t)
  PROVE  QSoundAfter
<1>1. LocalsFit(t)
  BY QCoreFacts, FittingStep DEF Step
<1>2. Listed' /\ LinksLead'
  BY QCoreFacts DEF LockList, Listed, LinksLead, list
<1>3. ASSUME NEW u \in Threads PROVE QPlace(u)'
  <2>1. CASE u = t
    BY <2>1, QCoreFacts DEF QPlace, LockList, Goto, Stand, list, call, StateTypes
  <2>2. CASE u # t
    <3>1. LocalsKept(u) /\ QPlace(u) /\ listLock # u
      BY <1>1, <2>2, QCoreFacts, HandOverHandAssumption DEF LocalsFit, LockList
    <3>2. UNCHANGED <<list, nodeLock>>
      BY DEF LockList
    <3>3. QED
      BY <3>1, <3>2 DEF QPlace, LocalsKept, list, NextOf
  <2>3. QED
    BY <2>1, <2>2
<1>4. QED
  BY <1>2, <1>3 DEF QSoundAfter

LEMMA QEnterListSound ==
  ASSUME QCore, NEW t \in Threads, pc[t] = "top", EnterList(t)
  PROVE  QSoundAfter
<1>1. LocalsFit(t)
  BY QCoreFacts, FittingStep DEF Step, AtTop
<1>2. StateTypes /\ Listed /\ QPlace(t)
  BY QCoreFacts
<1>3. current[t] \in Nodes /\ op[t] = "insert" /\ data[current[t]] < arg[t] /\ data[current[t]] \in Values
  <2>1. current[t] \in Nodes /\ op[t] = "insert" /\ data[current[t]] < arg[t]
    BY <1>2 DEF EnterList, QPlace
  <2>2. QED
    BY <1>2, <2>1, HeadFacts, ElementFacts DEF QPlace
<1>4. /\ pc'[t] = "walk" /\ current'[t] = current[t] /\ nxt'[t] = nextNode[current[t]]
      /\ nodeLock[current[t]] = NoThread /\ nodeLock' = [nodeLock EXCEPT ![current[t]] = t]
      /\ UNCHANGED <<list, live, op, arg>>
  BY <1>2 DEF EnterList, Goto, Stand, call, StateTypes
<1>5. /\ \A u \in Threads \ {t} : listLock = u => listLock' = u
      /\ \A u \in Threads \ {t}, m \in Nodes : nodeLock[m] = u => nodeLock'[m] = u
      /\ nodeLock'[current[t]] = t
  BY <1>2, <1>3, <1>4, HandOverHandAssumption DEF QPlace, StateTypes
<1>6. QED
  BY <1>1, <1>3, <1>4, <1>5, QMoves DEF LocalsFit

LEMMA QHopSound ==
  ASSUME QCore, NEW t \in Threads, Hop(t)
  PROVE  QSoundAfter
<1> DEFINE n == nxt[t]
<1>1. LocalsFit(t)
  BY QCoreFacts, FittingStep DEF Step, InWalk
<1>2. StateTypes /\ LinksLead /\ QPlace(t) /\ pc[t] = "walk"
  BY QCoreFacts DEF Hop
<1>3. /\ n \in Nodes /\ data[n] < arg[t] /\ nodeLock[n] = NoThread
      /\ nodeLock' = [nodeLock EXCEPT ![n] = t, ![current[t]] = NoThread]
      /\ pc'[t] = "walk" /\ current'[t] = n /\ nxt'[t] = nextNode[n]
      /\ UNCHANGED <<list, live, op, arg, listLock>>
  BY <1>2 DEF Hop, Stand, call, StateTypes
<1>4. /\ op[t] = "insert" /\ nodeLock[current[t]] = t /\ n = nextNode[current[t]]
      /\ current[t] \in Nodes /\ data[current[t]] \in Values
  BY <1>2 DEF QPlace, NextOf
<1>5. data[n] \in Values
  BY <1>2, <1>3, <1>4, ValuesAreInts DEF LinksLead, StateTypes
<1>6. nodeLock'[n] = t /\ \A u \in Threads \ {t}, m \in Nodes : nodeLock[m] = u => nodeLock'[m] = u
  BY <1>2, <1>3, <1>4, HandOverHandAssumption DEF StateTypes
<1>7. \A u \in Threads \ {t} : listLock = u => listLock' = u
  BY <1>3
<1>8. QED
  BY <1>1, <1>3, <1>4, <1>5, <1>6, <1>7, QMoves DEF LocalsFit

\* A new node before or after the nodes there were: nobody stands on it, and
\* whoever stands inside the list, on c or not, keeps its node.
LEMMA QOthersStay ==
  ASSUME QCore, NEW t \in Threads, NEW n \in Nodes, data[n] = Empty,
         data' = [data EXCEPT ![n] = arg[t]],
         \A u \in Threads \ {t} : LocalsKept(u), pc'[t] = "done", op'[t] = op[t],
         \A m \in Nodes : nextNode'[m] # nextNode[m] => m = n \/ nodeLock[m] = t,
         \A u \in Threads \ {t}, m \in Nodes : nodeLock[m] = u => nodeLock'[m] = u,
         \A u \in Threads \ {t} : pc[u] = "top" => listLock' = u /\ head' = head
  PROVE  \A u \in Threads : QPlace(u)'
<1>1. ASSUME NEW u \in Threads PROVE QPlace(u)'
  <2>1. CASE u = t
    BY <2>1, QCoreFacts DEF QPlace
  <2>2. CASE u # t
    <3>1. LocalsKept(u) /\ QPlace(u) /\ StateTypes
      BY <2>2, QCoreFacts
    <3>2. pc[u] = "walk" =>
            /\ current[u] # n /\ data'[current[u]] = data[current[u]]
            /\ nextNode'[current[u]] = nextNode[current[u]] /\ nodeLock'[current[u]] = u
      BY <2>2, <3>1, ValuesAreInts DEF QPlace, StateTypes
    <3>3. QED
      BY <2>2, <3>1, <3>2 DEF QPlace, LocalsKept, NextOf
  <2>3. QED
    BY <2>1, <2>2
<1>2. QED
  BY <1>1

LEMMA QLinkNewSound ==
  ASSUME QCore, NEW t \in Threads, pc[t] = "top", op[t] = "insert",
         NEW n \in Nodes, data[n] = Empty, NEW x,
         \/ current[t] = Null /\ x \in FreshNext
         \/ current[t] \in Nodes /\ data[current[t]] > arg[t] /\ x = current[t],
         LinkNew(t, n, x), FinishTop(t, arg[t])
  PROVE  QSoundAfter /\ Elements' = Elements \cup {arg[t]} /\ arg[t] \notin Elements
<1>1. StateTypes /\ Listed /\ LinksLead /\ QPlace(t) /\ CallFits(t)
  BY QCoreFacts
<1>2. current[t] = head /\ listLock = t /\ n \notin live /\ arg[t] \in Values /\ arg[t] # Empty
  BY <1>1, ElementFacts, ValuesAreInts DEF QPlace, CallFits
<1>3. /\ data' = [data EXCEPT ![n] = arg[t]] /\ nextNode' = [nextNode EXCEPT ![n] = x]
      /\ head' = n /\ live' = live \cup {n} /\ pc' = [pc EXCEPT ![t] = "done"]
      /\ listLock' = NoThread /\ ret' = [ret EXCEPT ![t] = arg[t]]
      /\ UNCHANGED <<nodeLock, op, arg, calls, current, nxt, counter>>
  BY DEF LinkNew, FinishTop, Goto, Answer, call, place
<1>4. Listed'
  <2>1. \/ head = Null /\ x \in FreshNext
        \/ head \in Nodes /\ arg[t] < data[head] /\ x = head
    <3>1. head \in Nodes => data[head] \in Int
      BY <1>1, HeadFacts, ElementFacts
    <3>2. QED
      BY <1>2, <3>1, ValuesAreInts
  <2>2. IsList(head, live, nextNode, data) /\ n \in Nodes \ live
    BY <1>1, <1>2 DEF Listed
  <2>3. IsList(n, live \cup {n}, nextNode', data')
    BY <1>2, <1>3, <2>1, <2>2, LinkFirst
  <2>4. QED
    BY <1>3, <2>3 DEF Listed
<1>5. LinksLead'
  <2>1. x \in Nodes => x # n /\ data[x] # Empty
    BY <1>1, <1>2, HeadFacts, ElementFacts, ValuesAreInts
  <2>2. QED
    BY <1>1, <1>2, <1>3, <2>1 DEF LinksLead, StateTypes
<1>6. \A u \in Threads \ {t} : LocalsKept(u) /\ pc[u] # "top"
  BY <1>1, <1>2, <1>3, QCoreFacts DEF LocalsKept, QPlace, StateTypes
<1>7. pc'[t] = "done" /\ \A m \in Nodes : nextNode'[m] # nextNode[m] => m = n
  BY <1>1, <1>3 DEF StateTypes
<1>8. \A u \in Threads : QPlace(u)'
  <2>1. /\ data' = [data EXCEPT ![n] = arg[t]] /\ op'[t] = op[t]
        /\ \A u \in Threads \ {t}, m \in Nodes : nodeLock[m] = u => nodeLock'[m] = u
        /\ \A u \in Threads \ {t} : LocalsKept(u)
        /\ \A u \in Threads \ {t} : pc[u] = "top" => listLock' = u /\ head' = head
    BY <1>3, <1>6
  <2>2. pc'[t] = "done" /\ \A m \in Nodes : nextNode'[m] # nextNode[m] => m = n \/ nodeLock[m] = t
    BY <1>7
  <2>3. QED
    BY <2>1, <2>2, QOthersStay
<1>9. Elements' = Elements \cup {arg[t]}
  BY <1>1, <1>2, <1>3, ElementsGrow
<1>10. arg[t] \notin Elements
  BY <1>1, <1>2, NotBeforeHead, ValuesAreInts
<1>11. QED
  BY <1>4, <1>5, <1>8, <1>9, <1>10 DEF QSoundAfter

\* What a thread inside the list links there is in the queue only if its own
\* node still is.
LEMMA QInsertHereSound ==
  ASSUME QCore, NEW t \in Threads, InsertHere(t)
  PROVE  /\ QSoundAfter
         /\ \/ Elements' = Elements
            \/ Elements' = Elements \cup {arg[t]} /\ arg[t] \notin Elements
<1> DEFINE n == NewNode
           c == current[t]
<1>1. StateTypes /\ Listed /\ LinksLead /\ QPlace(t) /\ CallFits(t) /\ pc[t] = "walk" /\ op[t] = "insert"
  BY QCoreFacts DEF InsertHere
<1>2. n \in Nodes /\ data[n] = Empty
  BY <1>1, QCoreFacts, NodeForInsert
<1>3. /\ c \in Nodes /\ nodeLock[c] = t /\ nxt[t] = nextNode[c] /\ data[c] < arg[t] /\ data[c] \in Values
      /\ arg[t] \in Values /\ n \notin live /\ n # c /\ arg[t] # Empty
  BY <1>1, <1>2, ElementFacts, ValuesAreInts DEF QPlace, NextOf, CallFits
<1>4. nxt[t] = Null \/ (nxt[t] \in Nodes /\ data[nxt[t]] > arg[t])
  BY DEF InsertHere
<1>5. /\ data' = [data EXCEPT ![n] = arg[t]]
      /\ nextNode' = [nextNode EXCEPT ![n] = nextNode[c], ![c] = n]
      /\ live' = (IF c \in live THEN live \cup {n} ELSE live) /\ head' = head
      /\ nodeLock' = [nodeLock EXCEPT ![c] = NoThread] /\ listLock' = listLock
      /\ pc' = [pc EXCEPT ![t] = "done"] /\ ret' = [ret EXCEPT ![t] = arg[t]]
      /\ UNCHANGED <<op, arg, calls, current, nxt, counter>>
  BY <1>3 DEF InsertHere, InsertAfter, FinishWalk, Goto, Answer, call, place
<1>6. /\ nextNode \in [Nodes -> NodeOrAddress] /\ data \in [Nodes -> ValueOrEmpty]
      /\ nodeLock \in [Nodes -> Owner]
  BY <1>1 DEF StateTypes
<1> HIDE DEF n, c
<1>7. \A u \in Threads \ {t} : LocalsKept(u)
  BY <1>1, <1>5 DEF LocalsKept, StateTypes
<1>8. /\ \A m \in Nodes : nextNode'[m] # nextNode[m] => m = n \/ m = c
      /\ \A m \in Nodes : nodeLock'[m] # nodeLock[m] => m = c
  BY <1>5, <1>6
<1>9. \A u \in Threads : QPlace(u)'
  <2>1. \A u \in Threads \ {t} : pc[u] = "top" => listLock' = u /\ head' = head
    BY <1>5, QCoreFacts DEF QPlace
  <2>2. /\ \A u \in Threads \ {t}, m \in Nodes : nodeLock[m] = u => nodeLock'[m] = u
        /\ \A m \in Nodes : nextNode'[m] # nextNode[m] => m = n \/ nodeLock[m] = t
        /\ pc'[t] = "done" /\ op'[t] = op[t]
    BY <1>1, <1>3, <1>5, <1>8 DEF StateTypes
  <2>3. QED
    BY <1>2, <1>5, <1>7, <2>1, <2>2, QOthersStay
<1>10. LinksLead'
  <2>1. ASSUME NEW m \in Nodes, data'[m] # Empty, nextNode'[m] \in Nodes
        PROVE  data'[nextNode'[m]] # Empty
    <3>1. data'[n] # Empty /\ \A k \in Nodes : data[k] # Empty => data'[k] # Empty
      BY <1>2, <1>3, <1>5, <1>6
    <3>2. CASE m = c
      BY <1>2, <1>3, <1>5, <1>6, <3>1, <3>2
    <3>3. CASE m = n
      <4>1. nextNode'[m] = nextNode[c]
        BY <1>2, <1>3, <1>5, <1>6, <3>3
      <4>2. data[c] # Empty
        BY <1>3, ValuesAreInts
      <4>3. QED
        BY <1>1, <1>3, <2>1, <3>1, <4>1, <4>2 DEF LinksLead
    <3>4. CASE m # c /\ m # n
      <4>1. nextNode'[m] = nextNode[m] /\ data'[m] = data[m]
        BY <1>5, <1>6, <3>4
      <4>2. QED
        BY <1>1, <2>1, <3>1, <4>1 DEF LinksLead
    <3>5. QED
      BY <3>2, <3>3, <3>4
  <2>2. QED
    BY <2>1 DEF LinksLead
<1>11. nextNode' \in [Nodes -> NodeOrAddress] /\ data' \in [Nodes -> ValueOrEmpty]
  BY <1>2, <1>3, <1>5, <1>6, ValuesAreInts
<1>12. CASE c \in live
  <2>1. nextNode[c] = Null \/ (nextNode[c] \in Nodes /\ arg[t] < data[nextNode[c]])
    <3>1. nextNode[c] \in Nodes => data[nextNode[c]] \in Int
      BY <1>1, <1>12, SuccessorFacts, ElementFacts
    <3>2. QED
      BY <1>3, <1>4, <3>1, ValuesAreInts
  <2>2. IsList(head, live, nextNode, data) /\ n \in Nodes \ live
    BY <1>1, <1>2, <1>3 DEF Listed
  <2>3. /\ nextNode' = [nextNode EXCEPT ![n] = nextNode[c], ![c] = n]
        /\ data' = [data EXCEPT ![n] = arg[t]]
    BY <1>5
  <2>4. IsList(head, live \cup {n}, nextNode', data')
    BY <1>3, <1>12, <2>1, <2>2, <2>3, LinkAfter
  <2>5. Listed' /\ live' = live \cup {n}
    BY <1>5, <1>12, <2>4 DEF Listed
  <2>6. Elements' = Elements \cup {arg[t]}
    BY <1>1, <1>5, <2>2, <2>5, ElementsGrow
  <2>7. arg[t] \notin Elements
    <3>1. nextNode[c] = Null \/ (nextNode[c] \in Nodes /\ data[nextNode[c]] > arg[t])
      BY <1>3, <1>4
    <3>2. QED
      BY <1>1, <1>3, <1>12, <3>1, NotThere
  <2>8. QED
    BY <1>9, <1>10, <2>5, <2>6, <2>7 DEF QSoundAfter
<1>13. CASE c \notin live
  <2>1. \A m \in live : nextNode'[m] = nextNode[m] /\ data'[m] = data[m]
    BY <1>1, <1>3, <1>5, <1>6, <1>13, ElementFacts
  <2>2. live' = live /\ head' = head
    BY <1>5, <1>13
  <2>3. IsList(head, live, nextNode', data')
    BY <1>1, <1>11, <2>1, OutsideIsFree DEF Listed
  <2>4. Listed' /\ Elements' = Elements
    BY <2>1, <2>2, <2>3 DEF Listed, Elements, Contents
  <2>5. QED
    BY <1>9, <1>10, <2>4 DEF QSoundAfter
<1>14. QED
  BY <1>12, <1>13

LEMMA DequeueSound ==
  ASSUME QCore, NEW t \in Threads, Dequeue(t)
  PROVE  /\ QSoundAfter /\ LocalsFit(t) /\ RoomStays'
         /\ Elements' = Elements \ {data[current[t]]}
         /\ data[current[t]] \in Elements /\ data[current[t]] \in Values
<1> DEFINE h == current[t]
<1>1. StateTypes /\ RoomStays /\ Listed /\ LinksLead /\ QPlace(t) /\ CallFits(t)
  BY QCoreFacts
<1>2. /\ pc[t] = "top" /\ h \in Nodes /\ head' = nextNode[h] /\ live' = live \ {h}
      /\ UNCHANGED <<nextNode, data>> /\ FinishTop(t, data[h]) /\ listLock' = NoThread
      /\ op[t] = "removeFirst"
  BY DEF Dequeue, FinishTop, Goto, NextOf
<1>3. h = head /\ head \in live /\ data[h] \in Values /\ listLock = t
  BY <1>1, <1>2, HeadFacts, ElementFacts DEF QPlace
<1>4. IsList(nextNode[h], live \ {h}, nextNode, data)
  BY <1>1, <1>2, <1>3, UnlinkFirst DEF Listed
<1>5. Listed' /\ LinksLead'
  BY <1>1, <1>2, <1>4 DEF Listed, LinksLead
<1>6. data[h] \in ValueOrEmpty
  BY <1>3 DEF ValueOrEmpty
<1>7. /\ pc' = [pc EXCEPT ![t] = "done"] /\ ret' = [ret EXCEPT ![t] = data[h]]
      /\ CallFits(t)' /\ \A u \in Threads \ {t} : LocalsKept(u)
      /\ listLock' \in Owner /\ UNCHANGED <<nodeLock, op, arg, calls, current, nxt, counter>>
  BY <1>1, <1>2, <1>6, FinishTopFits
<1>8. LocalsFit(t)
  <2>1. head' \in NodeOrAddress /\ live' \subseteq Nodes
    BY <1>1, <1>2 DEF StateTypes
  <2>2. ret' \in [Threads -> ValueOrEmpty] /\ pc' \in [Threads -> PCs]
    BY <1>1, <1>6, <1>7 DEF StateTypes, PCs
  <2>3. QED
    BY <1>1, <1>2, <1>7, <2>1, <2>2 DEF LocalsFit, StateTypes
<1>9. RoomStays'
  <2>1. Fresh' = Fresh /\ Inserting' \subseteq Inserting
    BY <1>1, <1>2, <1>7 DEF Fresh, Inserting, StateTypes
  <2>2. QED
    BY <1>1, <2>1, RoomKept
<1>10. ASSUME NEW u \in Threads PROVE QPlace(u)'
  <2>1. CASE u = t
    BY <1>1, <1>2, <1>7, <2>1 DEF QPlace, StateTypes
  <2>2. CASE u # t
    BY <1>2, <1>3, <1>7, <2>2, QCoreFacts DEF QPlace, LocalsKept, NextOf
  <2>3. QED
    BY <2>1, <2>2
<1>11. Elements' = Elements \ {data[h]} /\ data[h] \in Elements
  BY <1>1, <1>2, <1>3, ElementsShrink DEF Elements, Contents
<1>12. QED
  BY <1>3, <1>5, <1>8, <1>9, <1>10, <1>11 DEF QSoundAfter

\* The steps that the queue has from the list.
ListStep(t) == Call(t) \/ Enqueue(t) \/ Pass(t)

LEMMA QStepIsListStep ==
  ASSUME NEW t \in Threads, ListStep(t)
  PROVE  Invoke(t) \/ Step(t)
BY DEF ListStep, Call, Enqueue, Pass, Invoke, Step, AtTop, InWalk, InsertAtHead

\* What an enqueue may do to the values in the queue.
Accepts(t) ==
  /\ arg[t] \in Values
  /\ \/ ret'[t] = Empty /\ Elements' = Elements
     \/ ret'[t] # Empty /\ Elements' = Elements
     \/ ret'[t] # Empty /\ Elements' = Elements \cup {arg[t]} /\ arg[t] \notin Elements

LEMMA EnqueueSound ==
  ASSUME QCore, NEW t \in Threads, Enqueue(t)
  PROVE  QSoundAfter /\ Accepts(t)
<1>1. StateTypes /\ CallFits(t) /\ QPlace(t) /\ op[t] = "insert" /\ pc[t] \in {"top", "walk"}
  BY QCoreFacts DEF Enqueue, InsertAtHead, InsertHere, InsertFinds, FinishWalk, Goto
<1>2. LocalsFit(t) /\ arg[t] \in Values /\ arg[t] # Empty /\ op'[t] = "insert"
  <2>1. LocalsFit(t)
    BY QCoreFacts, FittingStep, QStepIsListStep DEF ListStep
  <2>2. op' = op
    BY DEF Enqueue, InsertAtHead, FinishTop, InsertHere, InsertFinds, FinishWalk, call
  <2>3. QED
    BY <1>1, <2>1, <2>2, ValuesAreInts DEF CallFits
<1>3. CASE InsertAtHead(t)
  <2>1. NewNode \in Nodes /\ data[NewNode] = Empty /\ pc[t] = "top"
    BY <1>1, <1>3, QCoreFacts, NodeForInsert DEF InsertAtHead
  <2>2. CASE FinishTop(t, Empty) /\ UNCHANGED <<list, live>>
    <3>1. pc'[t] = "done" /\ listLock = t /\ UNCHANGED nodeLock /\ ret'[t] = Empty
      BY <1>1, <2>1, <2>2 DEF FinishTop, Goto, Answer, StateTypes, QPlace
    <3>2. QSoundAfter
      BY <1>2, <2>2, <3>1, QLeaveList DEF LocalsFit
    <3>3. QED
      BY <1>2, <2>2, <3>1, <3>2 DEF Accepts, Elements, list
  <2>3. CASE /\ FinishTop(t, arg[t])
             /\ \/ current[t] = Null /\ \E x \in FreshNext : LinkNew(t, NewNode, x)
                \/ /\ current[t] \in Nodes /\ data[current[t]] > arg[t]
                   /\ LinkNew(t, NewNode, current[t])
    <3>1. QSoundAfter /\ Elements' = Elements \cup {arg[t]} /\ arg[t] \notin Elements
      BY <1>1, <2>1, <2>3, QLinkNewSound
    <3>2. ret'[t] = arg[t]
      BY <1>1, <2>3 DEF FinishTop, Answer, StateTypes
    <3>3. QED
      BY <1>2, <3>1, <3>2 DEF Accepts
  <2>4. QED
    BY <1>3, <2>2, <2>3 DEF InsertAtHead
<1>4. CASE InsertHere(t)
  <2>1. ret'[t] = arg[t]
    BY <1>1, <1>4 DEF InsertHere, FinishWalk, Answer, StateTypes
  <2>2. QED
    BY <1>2, <1>4, <2>1, QInsertHereSound DEF Accepts
<1>5. CASE InsertFinds(t)
  <2>1. /\ pc'[t] = "done" /\ UNCHANGED <<listLock, list, live>> /\ ret'[t] = Empty
        /\ nodeLock' = [nodeLock EXCEPT ![current[t]] = NoThread] /\ pc[t] = "walk"
    BY <1>1, <1>5 DEF InsertFinds, FinishWalk, Goto, Answer, StateTypes
  <2>2. \A u \in Threads \ {t}, n \in Nodes : nodeLock[n] = u => nodeLock'[n] = u
    BY <1>1, <2>1 DEF QPlace, StateTypes
  <2>3. QSoundAfter
    BY <1>2, <2>1, <2>2, QLeaveList DEF LocalsFit
  <2>4. QED
    BY <1>2, <2>1, <2>3 DEF Accepts, Elements, list
<1>6. QED
  BY <1>3, <1>4, <1>5 DEF Enqueue

LEMMA PassSound ==
  ASSUME QCore, NEW t \in Threads, Call(t) \/ Pass(t)
  PROVE  QSoundAfter /\ Elements' = Elements
<1>1. StateTypes /\ CallFits(t) /\ QPlace(t)
  BY QCoreFacts
<1>2. LocalsFit(t)
  BY QCoreFacts, FittingStep, QStepIsListStep DEF ListStep
<1>3. Elements' = Elements
  BY DEF Call, Pass, Enter, LockList, Hop, Return, FindEmpty, EnterList, TopWild, WalkWild, Segv,
         Elements, list
<1>4. CASE LockList(t) \/ Hop(t) \/ (pc[t] = "top" /\ EnterList(t))
  BY <1>3, <1>4, QLockListSound, QHopSound, QEnterListSound
<1>5. CASE Call(t) \/ Return(t) \/ TopWild(t) \/ WalkWild(t)
  <2>1. /\ pc'[t] \in {"list", "idle", "segv"} /\ op'[t] \in {"none", "insert", "removeFirst"}
        /\ UNCHANGED <<list, live, locks>>
    BY <1>1, <1>5 DEF Call, Enter, Return, TopWild, WalkWild, Segv, Goto, call, StateTypes, QPlace
  <2>2. QED
    BY <1>2, <1>3, <2>1, QLeaveList DEF LocalsFit, locks
<1>6. CASE pc[t] = "top" /\ FindEmpty(t)
  <2>1. /\ pc'[t] = "done" /\ op'[t] \in {"none", "insert", "removeFirst"}
        /\ UNCHANGED <<list, live, nodeLock>> /\ listLock = t
    BY <1>1, <1>6 DEF FindEmpty, FinishTop, Goto, call, StateTypes, QPlace
  <2>2. QED
    BY <1>2, <1>3, <2>1, QLeaveList DEF LocalsFit
<1>7. QED
  BY <1>4, <1>5, <1>6 DEF Pass

\* The core of the invariant, which does not depend on the ledger.
LEMMA QStepKeepsCore ==
  ASSUME QCore, NEW t \in Threads, Call(t) \/ QStep(t)
  PROVE  QCore'
<1>1. QSoundAfter /\ LocalsFit(t) /\ RoomStays'
  <2>1. CASE Dequeue(t)
    BY <2>1, DequeueSound
  <2>2. CASE ListStep(t)
    BY <2>2, QStepIsListStep, QCoreFacts, FittingStep, StepKeepsRoom, EnqueueSound, PassSound
       DEF ListStep
  <2>3. QED
    BY <2>1, <2>2 DEF QStep, ListStep
<1>2. \A u \in Threads : CallFits(u)'
  BY <1>1, QCoreFacts DEF LocalsFit, LocalsKept, CallFits
<1>3. QED
  BY <1>1, <1>2 DEF QCore, Fitting, QSoundAfter, LocalsFit

\* The ledger.
LEMMA HeldIsBit == \A v \in Values : Held(v) \in {0, 1} /\ Held(v)' \in {0, 1}
BY DEF Held

LEMMA LedgerOfAccepts ==
  ASSUME LedgerTypes, NothingTwice, NEW t \in Threads, Accepts(t), taken' = taken,
         accepted' = [accepted EXCEPT ![arg[t]] = IF ret'[t] = Empty THEN @ ELSE @ + 1]
  PROVE  LedgerTypes' /\ NothingTwice'
<1>1. LedgerTypes' /\ arg[t] \in Values
  BY DEF LedgerTypes, Accepts
<1>2. ASSUME NEW v \in Values PROVE taken'[v] + Held(v)' <= accepted'[v]
  <2>1. /\ taken[v] \in Nat /\ accepted[v] \in Nat /\ taken[v] + Held(v) <= accepted[v]
        /\ Held(v) \in {0, 1} /\ Held(v)' \in {0, 1}
    BY HeldIsBit DEF LedgerTypes, NothingTwice
  <2>2. accepted'[v] = IF v = arg[t] /\ ret'[t] # Empty THEN accepted[v] + 1 ELSE accepted[v]
    BY <1>1 DEF LedgerTypes
  <2>3. Held(v)' = Held(v) \/ (v = arg[t] /\ ret'[t] # Empty /\ Held(v) = 0 /\ Held(v)' = 1)
    BY DEF Accepts, Held
  <2>4. QED
    BY <2>1, <2>2, <2>3
<1>3. QED
  BY <1>1, <1>2 DEF NothingTwice

LEMMA LedgerOfDequeue ==
  ASSUME LedgerTypes, NothingTwice, NEW w \in Values, w \in Elements,
         Elements' = Elements \ {w}, taken' = [taken EXCEPT ![w] = @ + 1], accepted' = accepted
  PROVE  LedgerTypes' /\ NothingTwice'
<1>1. LedgerTypes'
  BY DEF LedgerTypes
<1>2. ASSUME NEW v \in Values PROVE taken'[v] + Held(v)' <= accepted'[v]
  <2>1. /\ taken[v] \in Nat /\ accepted[v] \in Nat /\ taken[v] + Held(v) <= accepted[v]
        /\ Held(v) \in {0, 1} /\ Held(v)' \in {0, 1}
    BY HeldIsBit DEF LedgerTypes, NothingTwice
  <2>2. taken'[v] = IF v = w THEN taken[v] + 1 ELSE taken[v]
    BY DEF LedgerTypes
  <2>3. v = w => Held(v) = 1 /\ Held(v)' = 0
    BY DEF Held
  <2>4. v # w => Held(v)' = Held(v)
    BY DEF Held
  <2>5. QED
    BY <2>1, <2>2, <2>3, <2>4
<1>3. QED
  BY <1>1, <1>2 DEF NothingTwice

LEMMA LedgerKept ==
  ASSUME LedgerTypes, NothingTwice, UNCHANGED <<ledger, Elements>>
  PROVE  LedgerTypes' /\ NothingTwice'
BY DEF LedgerTypes, NothingTwice, ledger, Held

LEMMA QNextKeepsInvariant == QInv /\ [QNext]_qvars => QInv'
<1> SUFFICES ASSUME QInv, [QNext]_qvars PROVE QInv'
  OBVIOUS
<1>1. QCore /\ LedgerTypes /\ NothingTwice
  BY DEF QInv
<1>2. ASSUME NEW t \in Threads, Call(t) \/ QStep(t) PROVE QInv'
  <2>1. QCore'
    BY <1>1, <1>2, QStepKeepsCore
  <2>2. CASE Dequeue(t)
    BY <1>1, <2>1, <2>2, DequeueSound, LedgerOfDequeue DEF Dequeue, QInv
  <2>3. CASE Enqueue(t)
    BY <1>1, <2>1, <2>3, EnqueueSound, LedgerOfAccepts DEF Enqueue, QInv
  <2>4. CASE Call(t) \/ Pass(t)
    BY <1>1, <2>1, <2>4, PassSound, LedgerKept DEF Call, Pass, QInv
  <2>5. QED
    BY <1>2, <2>2, <2>3, <2>4 DEF QStep
<1>3. CASE UNCHANGED qvars
  <2> USE DEF qvars, vars, list, locks, call, place
  <2>1. StateTypes' /\ Listed' /\ LinksLead'
    BY <1>1, <1>3, QCoreFacts DEF StateTypes, Listed, LinksLead
  <2>2. \A t \in Threads : QPlace(t)' /\ CallFits(t)'
    BY <1>1, <1>3, QCoreFacts DEF QPlace, CallFits, NextOf
  <2>3. RoomStays'
    BY <1>1, <1>3, QCoreFacts, RoomKept DEF Fresh, Inserting
  <2>4. LedgerTypes' /\ NothingTwice'
    BY <1>1, <1>3, LedgerKept DEF Elements, Contents
  <2>5. QED
    BY <2>1, <2>2, <2>3, <2>4 DEF QInv, QCore, Fitting
<1>4. QED
  BY <1>2, <1>3 DEF QNext

LEMMA QInitInvariant == QInit => QInv
<1> SUFFICES ASSUME QInit PROVE QInv
  OBVIOUS
<1>1. Init /\ Fitting /\ Listed
  BY InitInvariant, InvariantFits, CoreFacts DEF QInit, IInv
<1>2. \A t \in Threads : QPlace(t)
  BY <1>1 DEF Init, QPlace
<1>3. LinksLead
  <2>1. ASSUME NEW n \in Nodes, data[n] # Empty, nextNode[n] \in Nodes
        PROVE  data[nextNode[n]] # Empty
    <3>1. n \in live
      BY <1>1, <2>1 DEF Init
    <3>2. QED
      BY <1>1, <2>1, <3>1, SuccessorFacts, ElementFacts
  <2>2. QED
    BY <2>1 DEF LinksLead
<1>4. LedgerTypes
  BY DEF QInit, LedgerTypes
<1>5. NothingTwice
  BY <1>1 DEF QInit, Init, NothingTwice, Held
<1>6. QED
  BY <1>1, <1>2, <1>3, <1>4, <1>5 DEF QInv, QCore

\* The queue's dequeue races with the threads inside the list, and values are
\* lost, but none is dequeued twice or out of nothing.
THEOREM QueueNeverRepeats == QSpec => []NothingTwice
<1>1. QInv => NothingTwice
  BY DEF QInv
<1>2. QED
  BY <1>1, QInitInvariant, QNextKeepsInvariant, PTL DEF QSpec
-----------------------------------------------------------------------------
(***************************************************************************)
(* The lock of a node, which the list above takes for granted: any number  *)
(* of threads on a lock of either file.  NodeLock!Exclusive is inductive:  *)
(* an exchange enters only over a flag that is FALSE, and the flag is      *)
(* FALSE only when nobody is inside.                                       *)
(***************************************************************************)
VARIABLES lockFile, flag, lockPc

NodeLock == INSTANCE SpinLock
  WITH Files <- {"spinlock.hpp", "spinlock_2.hpp"},
       file <- lockFile, varLock <- flag, pc <- lockPc

LEMMA LockAssumption == NodeLock!SpinLockAssumption
BY DEF NodeLock!SpinLockAssumption

LockInv == NodeLock!TypeOK /\ NodeLock!Exclusive

LEMMA LockInit == NodeLock!Init => LockInv
BY DEF NodeLock!Init, LockInv, NodeLock!TypeOK, NodeLock!Exclusive, NodeLock!PCs

\* A step of one thread keeps the type and the exclusion.
LEMMA LockStep == ASSUME NEW t \in Threads, LockInv,
NodeLock!Call(t) \/ NodeLock!Step(t) PROVE LockInv'
<1> USE DEF LockInv, NodeLock!TypeOK, NodeLock!Exclusive, NodeLock!PCs, NodeLock!Goto
<1>1. CASE NodeLock!CallLock(t) \/ NodeLock!CallTryLock(t)
  BY <1>1, LockAssumption DEF NodeLock!CallLock, NodeLock!CallTryLock
<1>2. CASE NodeLock!TestAndSet(t)
  BY <1>2 DEF NodeLock!TestAndSet
<1>3. CASE NodeLock!Exchange(t)
  BY <1>3 DEF NodeLock!Exchange
<1>4. CASE NodeLock!TryExchange(t)
  BY <1>4 DEF NodeLock!TryExchange
<1>5. CASE NodeLock!Spin(t) \/ NodeLock!TryLoad(t) \/ NodeLock!ReturnRefused(t)
  BY <1>5 DEF NodeLock!Spin, NodeLock!TryLoad, NodeLock!ReturnRefused
<1>6. CASE NodeLock!Unlock(t)
  BY <1>6 DEF NodeLock!Unlock
<1>7. QED
  BY <1>1, <1>2, <1>3, <1>4, <1>5, <1>6 DEF NodeLock!Call, NodeLock!Step

\* The inductive invariant holds in every reachable state.
THEOREM LockInductive == NodeLock!Spec => []LockInv
<1>1. LockInv /\ [NodeLock!Next]_(NodeLock!vars) => LockInv'
  <2>1. CASE NodeLock!Next
    BY <2>1, LockStep DEF NodeLock!Next
  <2>2. CASE UNCHANGED NodeLock!vars
    BY <2>2 DEF NodeLock!vars, LockInv, NodeLock!TypeOK, NodeLock!Exclusive
  <2>3. QED
    BY <2>1, <2>2
<1>2. QED
  BY LockInit, <1>1, PTL DEF NodeLock!Spec

\* The lock's variables keep their types.
THEOREM LockTypeCorrect == NodeLock!Spec => []NodeLock!TypeOK
<1>1. LockInv => NodeLock!TypeOK
  BY DEF LockInv
<1>2. QED
  BY <1>1, LockInductive, PTL

\* Mutual exclusion: two threads are never both between lock and unlock.
THEOREM MutualExclusion == NodeLock!Spec => []NodeLock!Exclusive
<1>1. LockInv => NodeLock!Exclusive
  BY DEF LockInv
<1>2. QED
  BY <1>1, LockInductive, PTL

\* The abstract phases follow pc.
Phase == [t \in Threads |-> NodeLock!PhaseOf(t)]

\* A step of thread t moves t's phase from PhaseOf(t) to PhaseOf(t)'.
LEMMA PhaseMoves ==
  ASSUME NEW t \in Threads, LockInv, NEW from \in NodeLock!PCs, NEW to \in NodeLock!PCs,
         NodeLock!Goto(t, from, to)
  PROVE  Phase' = [Phase EXCEPT ![t] = NodeLock!PhaseOf(t)']
BY DEF LockInv, NodeLock!TypeOK, NodeLock!Goto, Phase, NodeLock!PhaseOf, NodeLock!PCs

\* The lock is held in the specification when it is held in the code.
LEMMA HeldMeans == ASSUME LockInv PROVE NodeLock!Lock!Held <=> flag
BY DEF LockInv, NodeLock!TypeOK, NodeLock!Exclusive, NodeLock!Lock!Held,
       NodeLock!PhaseOf, NodeLock!PCs

\* A step of the lock is a step of Mutex or leaves every phase alone.
LEMMA StepRefines ==
  ASSUME NEW t \in Threads, LockInv, NodeLock!Call(t) \/ NodeLock!Step(t)
  PROVE  NodeLock!Lock!Next \/ UNCHANGED Phase
<1> USE DEF LockInv, NodeLock!TypeOK, NodeLock!PCs
<1>1. PICK from \in NodeLock!PCs, to \in NodeLock!PCs : NodeLock!Goto(t, from, to)
  BY LockAssumption
  DEF NodeLock!Call, NodeLock!Step, NodeLock!CallLock, NodeLock!CallTryLock,
      NodeLock!TestAndSet, NodeLock!Exchange, NodeLock!Spin, NodeLock!TryLoad,
      NodeLock!TryExchange, NodeLock!ReturnRefused, NodeLock!Unlock
<1>2. /\ Phase' = [Phase EXCEPT ![t] = NodeLock!PhaseOf(t)']
      /\ Phase[t] = NodeLock!PhaseOf(t) /\ (NodeLock!Lock!Held <=> flag)
  BY <1>1, PhaseMoves, HeldMeans DEF Phase
<1>3. CASE NodeLock!CallLock(t) \/ NodeLock!CallTryLock(t)
  <2>1. NodeLock!Lock!Request(t)
    BY <1>2, <1>3, LockAssumption
    DEF NodeLock!CallLock, NodeLock!CallTryLock, NodeLock!Goto, NodeLock!PhaseOf, Phase,
        NodeLock!Lock!Request, NodeLock!Lock!Move
  <2>2. QED
    BY <2>1 DEF NodeLock!Lock!Next
<1>4. CASE NodeLock!TestAndSet(t) \/ NodeLock!Exchange(t) \/ NodeLock!TryExchange(t)
  <2>1. CASE flag
    <3>1. NodeLock!Lock!Refuse(t) \/ UNCHANGED Phase
      BY <1>2, <1>4, <2>1
      DEF NodeLock!TestAndSet, NodeLock!Exchange, NodeLock!TryExchange, NodeLock!Goto,
          NodeLock!PhaseOf, Phase, NodeLock!Lock!Refuse, NodeLock!Lock!Move
    <3>2. QED
      BY <3>1 DEF NodeLock!Lock!Next
  <2>2. CASE ~flag
    <3>1. NodeLock!Lock!Acquire(t)
      BY <1>2, <1>4, <2>2
      DEF NodeLock!TestAndSet, NodeLock!Exchange, NodeLock!TryExchange, NodeLock!Goto,
          NodeLock!PhaseOf, Phase, NodeLock!Lock!Acquire, NodeLock!Lock!Move
    <3>2. QED
      BY <3>1 DEF NodeLock!Lock!Next
  <2>3. QED
    BY <2>1, <2>2
<1>5. CASE NodeLock!Spin(t)
  BY <1>2, <1>5 DEF NodeLock!Spin, NodeLock!Goto, NodeLock!PhaseOf, Phase
<1>6. CASE NodeLock!TryLoad(t)
  <2>1. NodeLock!Lock!Refuse(t) \/ UNCHANGED Phase
    BY <1>2, <1>6 DEF NodeLock!TryLoad, NodeLock!Goto, NodeLock!PhaseOf, Phase,
    NodeLock!Lock!Refuse, NodeLock!Lock!Move
  <2>2. QED
    BY <2>1 DEF NodeLock!Lock!Next
<1>7. CASE NodeLock!ReturnRefused(t) \/ NodeLock!Unlock(t)
  <2>1. NodeLock!Lock!GiveUp(t) \/ NodeLock!Lock!Release(t)
    BY <1>2, <1>7
    DEF NodeLock!ReturnRefused, NodeLock!Unlock, NodeLock!Goto, NodeLock!PhaseOf, Phase,
        NodeLock!Lock!GiveUp, NodeLock!Lock!Release, NodeLock!Lock!Move
  <2>2. QED
    BY <2>1 DEF NodeLock!Lock!Next
<1>8. QED
  BY <1>3, <1>4, <1>5, <1>6, <1>7 DEF NodeLock!Call, NodeLock!Step

\* lock, try_lock and unlock behave as one atomic lock: the spin lock
\* implements Mutex.
THEOREM ImplementsMutex == NodeLock!Spec => NodeLock!RefinesMutex
<1>1. NodeLock!Init => NodeLock!Lock!Init
  BY DEF NodeLock!Init, NodeLock!Lock!Init, NodeLock!PhaseOf
<1>2. LockInv /\ [NodeLock!Next]_(NodeLock!vars) => [NodeLock!Lock!Next]_Phase
  <2>1. CASE NodeLock!Next
    BY <2>1, StepRefines DEF NodeLock!Next
  <2>2. CASE UNCHANGED NodeLock!vars
    BY <2>2 DEF NodeLock!vars, Phase, NodeLock!PhaseOf
  <2>3. QED
    BY <2>1, <2>2
<1>3. QED
  BY <1>1, <1>2, LockInductive, PTL DEF NodeLock!Spec, NodeLock!RefinesMutex,
  NodeLock!Lock!Spec, Phase
=============================================================================
