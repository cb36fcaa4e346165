---------------------------- MODULE FdHandoverProofs ----------------------------
(***************************************************************************)
(* Theorems about FdHandover for every number of sockets, workers and      *)
(* tasks and every limit of the queues.                                    *)
(***************************************************************************)
EXTENDS FdHandover, FiniteSetTheorems, TLAPS

(* Every variable holds a value of its type, and a reaper holds sockets    *)
(* only between taking and putting back.                                   *)
TypeInv ==
    /\ accepted \in 0 .. NSockets
    /\ nextWorker \in Workers
    /\ pending \in [Workers -> Seq(Fds)]
    /\ hasPending \in [Workers -> BOOLEAN]
    /\ idle \in [Workers -> Seq(Tasks)]
    /\ taskFd \in [Workers -> [Tasks -> Fds \cup {None}]]
    /\ reaper \in [Workers -> {"sleep", "take", "assign"}]
    /\ taken \in [Workers -> Seq(Fds)]
    /\ closes \in [Fds -> Nat]
    /\ \A w \in Workers : reaper[w] # "assign" => taken[w] = <<>>

-----------------------------------------------------------------------------
(* Closing a socket keeps the descriptors well-formed.                     *)
LEMMA CloseType ==
    ASSUME closes \in [Fds -> Nat], NEW S
    PROVE  Close(S) \in [Fds -> Nat]
BY DEF Close

(* The part of its list that a reaper puts back, and the rest of it.       *)
LEMMA RoomType ==
    ASSUME TypeInv, QueueAndFlag, NEW w \in Workers
    PROVE  /\ Room(w) \in Nat
           /\ Room(w) <= Len(taken[w])
           /\ Room(w) + Len(pending[w]) <= PendingFdLimit
           /\ SubSeq(taken[w], 1, Room(w)) \in Seq(Fds)
           /\ Len(SubSeq(taken[w], 1, Room(w))) = Room(w)
           /\ \A i \in 1 .. Room(w) : SubSeq(taken[w], 1, Room(w))[i] = taken[w][i]
           /\ Len(taken[w]) \in Nat /\ Len(pending[w]) \in Nat
           /\ {SubSeq(taken[w], Room(w) + 1, Len(taken[w]))[i] :
                  i \in DOMAIN SubSeq(taken[w], Room(w) + 1, Len(taken[w]))}
                = {taken[w][i] : i \in Room(w) + 1 .. Len(taken[w])}
<1>1. taken[w] \in Seq(Fds) /\ pending[w] \in Seq(Fds) /\ PendingFdLimit \in Nat
  BY HandoverAssumption DEF TypeInv
<1>2. Len(taken[w]) \in Nat /\ Len(pending[w]) \in Nat /\ Len(pending[w]) <= PendingFdLimit
  BY <1>1 DEF QueueAndFlag
<1>3. /\ Room(w) \in Nat /\ Room(w) <= Len(taken[w])
      /\ Room(w) + Len(pending[w]) <= PendingFdLimit
  <2> DEFINE a == Len(taken[w])
             b == Len(pending[w])
  <2>1. Room(w) = IF a <= PendingFdLimit - b THEN a ELSE PendingFdLimit - b
    BY DEF Room
  <2>2. a \in Nat /\ b \in Nat /\ PendingFdLimit \in Nat /\ b <= PendingFdLimit
    BY <1>1, <1>2
  <2> HIDE DEF a, b
  <2>3. /\ Room(w) \in Nat /\ Room(w) <= a /\ Room(w) + b <= PendingFdLimit
    BY <2>1, <2>2
  <2> QED
    BY <2>3 DEF a, b
<1> DEFINE n == Room(w)
           kept == SubSeq(taken[w], 1, n)
           dropped == SubSeq(taken[w], n + 1, Len(taken[w]))
<1> HIDE DEF n
<1>4. n \in Nat /\ n <= Len(taken[w])
  BY <1>3 DEF n
<1>5. kept \in Seq(Fds) /\ Len(kept) = n /\ \A i \in 1 .. n : kept[i] = taken[w][i]
  BY <1>1, <1>2, <1>4
<1>6. {dropped[i] : i \in DOMAIN dropped} = {taken[w][i] : i \in n + 1 .. Len(taken[w])}
  <2>1. /\ DOMAIN dropped = 1 .. Len(taken[w]) - n
        /\ \A i \in 1 .. Len(taken[w]) - n : dropped[i] = taken[w][n + i]
    BY <1>1, <1>2, <1>4
  <2>2. ASSUME NEW i \in n + 1 .. Len(taken[w])
        PROVE  i - n \in 1 .. Len(taken[w]) - n /\ n + (i - n) = i
    BY <1>2, <1>4
  <2>3. ASSUME NEW i \in 1 .. Len(taken[w]) - n
        PROVE  n + i \in n + 1 .. Len(taken[w])
    BY <1>2, <1>4
  <2> HIDE DEF dropped
  <2> QED
    BY <2>1, <2>2, <2>3
<1> QED
  BY <1>2, <1>3, <1>5, <1>6 DEF n

-----------------------------------------------------------------------------
(* The queues, their flags and the idle stacks.                            *)
BasicInv == TypeInv /\ QueueAndFlag /\ IdleHasNoSocket

(* At the start every task is idle and every list is empty.                *)
LEMMA InitBasic == Init => BasicInv
<1> SUFFICES ASSUME Init PROVE BasicInv
  OBVIOUS
<1>1. ASSUME NEW w \in Workers
      PROVE  /\ idle[w] \in Seq(Tasks)
             /\ \A i, j \in DOMAIN idle[w] : idle[w][i] = idle[w][j] => i = j
             /\ \A t \in Tasks : \E i \in DOMAIN idle[w] : idle[w][i] = t
  <2>1. /\ idle[w] \in [1 .. Cardinality(Tasks) -> Tasks]
        /\ \A i, j \in DOMAIN idle[w] : idle[w][i] = idle[w][j] => i = j
        /\ \A t \in Tasks : \E i \in DOMAIN idle[w] : idle[w][i] = t
    BY DEF Init, TaskOrders
  <2>2. Cardinality(Tasks) \in Nat
    BY HandoverAssumption, FS_CardinalityType
  <2> QED
    BY <2>1, <2>2
<1>2. idle \in [Workers -> Seq(Tasks)]
  BY <1>1 DEF Init
<1>3. TypeInv
  BY <1>2, HandoverAssumption DEF Init, TypeInv, Workers
<1>4. QueueAndFlag
  BY HandoverAssumption DEF Init, QueueAndFlag
<1>5. IdleHasNoSocket
  BY <1>1 DEF Init, IdleHasNoSocket
<1> QED
  BY <1>3, <1>4, <1>5 DEF BasicInv

(* An accepted socket goes to an idle worker or into the queue within its  *)
(* An accepted socket is queued within the limit or closed.                *)
LEMMA AcceptBasic ==
    ASSUME BasicInv, Accept
    PROVE  BasicInv'
<1> USE DEF BasicInv
<1>1. /\ accepted' \in 0 .. NSockets /\ accepted' = accepted + 1 /\ accepted' \in Fds
      /\ UNCHANGED <<idle, taskFd, reaper, taken>> /\ nextWorker \in Workers
  BY HandoverAssumption DEF Accept, TypeInv, Fds
<1>2. closes' \in [Fds -> Nat]
  BY CloseType DEF Accept, DispatchFd, TypeInv
<1>3. nextWorker' \in Workers
  BY HandoverAssumption, SMTT(30) DEF Accept, NextWorker, TypeInv, Workers
<1>4. /\ pending' \in [Workers -> Seq(Fds)] /\ hasPending' \in [Workers -> BOOLEAN]
      /\ QueueAndFlag'
  <2>1. CASE UNCHANGED <<pending, hasPending>>
    BY <2>1 DEF TypeInv, QueueAndFlag
  <2>2. CASE /\ Len(pending[nextWorker]) < PendingFdLimit
             /\ pending' = [pending EXCEPT ![nextWorker] = Append(@, accepted')]
             /\ hasPending' = [hasPending EXCEPT ![nextWorker] = TRUE]
    <3>1. pending[nextWorker] \in Seq(Fds)
      BY <1>1 DEF TypeInv
    <3>2. /\ Append(pending[nextWorker], accepted') \in Seq(Fds)
          /\ Len(Append(pending[nextWorker], accepted')) <= PendingFdLimit
      BY <1>1, <2>2, <3>1, HandoverAssumption
    <3>3. \A w \in Workers :
             /\ pending'[w] = IF w = nextWorker THEN Append(pending[nextWorker], accepted')
                              ELSE pending[w]
             /\ hasPending'[w] = IF w = nextWorker THEN TRUE ELSE hasPending[w]
      BY <1>1, <2>2 DEF TypeInv
    <3>4. pending' \in [Workers -> Seq(Fds)] /\ hasPending' \in [Workers -> BOOLEAN]
      BY <1>1, <2>2, <3>2 DEF TypeInv
    <3> QED
      BY <3>2, <3>3, <3>4 DEF QueueAndFlag
  <2> QED
    BY <2>1, <2>2 DEF Accept, DispatchFd
<1>5. TypeInv'
  BY <1>1, <1>2, <1>3, <1>4 DEF TypeInv
<1>6. IdleHasNoSocket'
  BY <1>1 DEF IdleHasNoSocket
<1> QED
  BY <1>4, <1>5, <1>6

(* The reaper wakes up.                                                    *)
LEMMA ReapStartsBasic ==
    ASSUME BasicInv, NEW w \in Workers, ReapStarts(w)
    PROVE  BasicInv'
<1>1. TypeInv'
  BY DEF BasicInv, TypeInv, ReapStarts
<1> QED
  BY <1>1 DEF BasicInv, ReapStarts, QueueAndFlag, IdleHasNoSocket

(* The reaper takes the whole queue and clears the flag.                   *)
LEMMA ReapTakesBasic ==
    ASSUME BasicInv, NEW w \in Workers, ReapTakes(w)
    PROVE  BasicInv'
<1>1. TypeInv'
  BY DEF BasicInv, TypeInv, ReapTakes
<1>2. QueueAndFlag'
  BY HandoverAssumption DEF BasicInv, TypeInv, ReapTakes, QueueAndFlag
<1> QED
  BY <1>1, <1>2 DEF BasicInv, ReapTakes, IdleHasNoSocket

(* The first socket of the list goes to the task on top of the stack.      *)
LEMMA ReapAssignsBasic ==
    ASSUME BasicInv, NEW w \in Workers, ReapAssigns(w)
    PROVE  BasicInv'
<1> USE DEF BasicInv
<1> DEFINE fd == Head(taken[w])
           t == Head(idle[w])
           rest == Tail(idle[w])
<1>1. taken[w] \in Seq(Fds) /\ taken[w] # <<>> /\ idle[w] \in Seq(Tasks) /\ idle[w] # <<>>
  BY DEF TypeInv, ReapAssigns
<1>2. /\ fd \in Fds /\ Tail(taken[w]) \in Seq(Fds)
      /\ t \in Tasks /\ t = idle[w][1] /\ rest \in Seq(Tasks)
      /\ Len(idle[w]) \in Nat \ {0} /\ DOMAIN idle[w] = 1 .. Len(idle[w])
      /\ DOMAIN rest = 1 .. Len(idle[w]) - 1
      /\ \A i \in 1 .. Len(idle[w]) - 1 : rest[i] = idle[w][i + 1]
  BY <1>1
<1> HIDE DEF fd, t, rest
<1>3. taken' = [taken EXCEPT ![w] = Tail(@)] /\ reaper[w] = "assign"
      /\ UNCHANGED <<accepted, nextWorker, pending, hasPending, reaper>>
  BY DEF ReapAssigns
<1>4. taken' \in [Workers -> Seq(Fds)] /\ \A v \in Workers : v # w => taken'[v] = taken[v]
  BY <1>2, <1>3 DEF TypeInv
<1>5. QueueAndFlag'
  BY <1>3 DEF QueueAndFlag
<1>6. CASE closes' = Close({fd}) /\ UNCHANGED <<taskFd, idle>>
  <2>1. TypeInv'
    BY <1>3, <1>4, <1>6, CloseType DEF TypeInv
  <2>2. IdleHasNoSocket'
    BY <1>6 DEF IdleHasNoSocket
  <2> QED
    BY <1>5, <2>1, <2>2
<1>7. CASE /\ taskFd' = [taskFd EXCEPT ![w][t] = fd]
           /\ idle' = [idle EXCEPT ![w] = rest]
           /\ UNCHANGED closes
  <2>1. taskFd' \in [Workers -> [Tasks -> Fds \cup {None}]] /\ idle' \in [Workers -> Seq(Tasks)]
    BY <1>2, <1>7 DEF TypeInv
  <2>2. TypeInv'
    BY <1>3, <1>4, <1>7, <2>1 DEF TypeInv
  <2>3. /\ idle'[w] = rest
        /\ \A v \in Workers : v # w => idle'[v] = idle[v] /\ taskFd'[v] = taskFd[v]
        /\ \A u \in Tasks : taskFd'[w][u] = IF u = t THEN fd ELSE taskFd[w][u]
    BY <1>2, <1>7 DEF TypeInv
  <2>4. fd # None
    BY <1>2, HandoverAssumption
  <2>5. /\ \A i, j \in 1 .. Len(idle[w]) : idle[w][i] = idle[w][j] => i = j
        /\ \A u \in Tasks : taskFd[w][u] = None <=> \E i \in 1 .. Len(idle[w]) : idle[w][i] = u
    BY <1>2 DEF IdleHasNoSocket
  <2>6. ASSUME NEW i \in 1 .. Len(idle[w]) - 1, NEW j \in 1 .. Len(idle[w]) - 1, rest[i] = rest[j]
        PROVE  i = j
    <3>1. /\ i + 1 \in 1 .. Len(idle[w]) /\ j + 1 \in 1 .. Len(idle[w])
          /\ idle[w][i + 1] = idle[w][j + 1]
      BY <1>2, <2>6
    <3>2. i + 1 = j + 1
      BY <2>5, <3>1
    <3> QED
      BY <3>2
  <2>7. ASSUME NEW u \in Tasks
        PROVE  taskFd'[w][u] = None <=> \E i \in DOMAIN rest : rest[i] = u
    <3>1. CASE u = t
      <4>1. ASSUME NEW i \in 1 .. Len(idle[w]) - 1, idle[w][i + 1] = t
            PROVE  FALSE
        <5>1. /\ i + 1 \in 1 .. Len(idle[w]) /\ 1 \in 1 .. Len(idle[w])
              /\ idle[w][i + 1] = idle[w][1]
          BY <1>2, <4>1
        <5>2. i + 1 = 1
          BY <2>5, <5>1
        <5> QED
          BY <5>2
      <4> QED
        BY <1>2, <2>3, <2>4, <3>1, <4>1
    <3>2. CASE u # t
      <4>1. ASSUME NEW i \in 1 .. Len(idle[w]), idle[w][i] = u
            PROVE  \E j \in 1 .. Len(idle[w]) - 1 : idle[w][j + 1] = u
        <5>1. i # 1
          BY <1>2, <3>2, <4>1
        <5>2. i - 1 \in 1 .. Len(idle[w]) - 1 /\ (i - 1) + 1 = i
          BY <1>2, <5>1
        <5> QED
          BY <4>1, <5>2
      <4>2. ASSUME NEW j \in 1 .. Len(idle[w]) - 1, idle[w][j + 1] = u
            PROVE  \E i \in 1 .. Len(idle[w]) : idle[w][i] = u
        <5>1. j + 1 \in 1 .. Len(idle[w])
          BY <1>2
        <5> QED
          BY <4>2, <5>1
      <4>3. taskFd[w][u] = None <=> \E i \in 1 .. Len(idle[w]) : idle[w][i] = u
        BY <2>5
      <4>4. (\E i \in 1 .. Len(idle[w]) : idle[w][i] = u)
                <=> \E i \in 1 .. Len(idle[w]) - 1 : idle[w][i + 1] = u
        BY <4>1, <4>2
      <4>5. (\E i \in DOMAIN rest : rest[i] = u)
                <=> \E i \in 1 .. Len(idle[w]) - 1 : idle[w][i + 1] = u
        BY <1>2
      <4>6. taskFd'[w][u] = taskFd[w][u]
        BY <2>3, <3>2
      <4> QED
        BY <4>3, <4>4, <4>5, <4>6
    <3> QED
      BY <3>1, <3>2
  <2>8. IdleHasNoSocket'
    <3>1. ASSUME NEW v \in Workers
          PROVE  /\ \A i, j \in DOMAIN idle'[v] : idle'[v][i] = idle'[v][j] => i = j
                 /\ \A u \in Tasks :
                        taskFd'[v][u] = None <=> \E i \in DOMAIN idle'[v] : idle'[v][i] = u
      <4>1. CASE v = w
        BY <1>2, <2>3, <2>6, <2>7, <4>1
      <4>2. CASE v # w
        BY <2>3, <4>2 DEF IdleHasNoSocket
      <4> QED
        BY <4>1, <4>2
    <3> QED
      BY <3>1 DEF IdleHasNoSocket
  <2> QED
    BY <1>5, <2>2, <2>8
<1> QED
  BY <1>6, <1>7 DEF ReapAssigns, fd, t, rest

(* What is left goes back within the limit, or is closed.                  *)
LEMMA ReapPutsBackBasic ==
    ASSUME BasicInv, NEW w \in Workers, ReapPutsBack(w)
    PROVE  BasicInv'
<1> USE DEF BasicInv
<1> DEFINE kept == SubSeq(taken[w], 1, Room(w))
           dropped == SubSeq(taken[w], Room(w) + 1, Len(taken[w]))
           D == {dropped[i] : i \in DOMAIN dropped}
<1>1. /\ kept \in Seq(Fds) /\ Len(kept) + Len(pending[w]) <= PendingFdLimit
      /\ Len(kept) \in Nat /\ Len(pending[w]) \in Nat
  BY RoomType
<1>2. /\ taken' = [taken EXCEPT ![w] = <<>>] /\ reaper' = [reaper EXCEPT ![w] = "sleep"]
      /\ UNCHANGED <<accepted, nextWorker, idle, taskFd>>
  BY DEF ReapPutsBack
<1>3. /\ taken' \in [Workers -> Seq(Fds)] /\ reaper' \in [Workers -> {"sleep", "take", "assign"}]
      /\ \A v \in Workers : reaper'[v] # "assign" => taken'[v] = <<>>
  BY <1>2 DEF TypeInv
<1>4. CASE UNCHANGED <<pending, hasPending, closes>>
  <2>1. TypeInv'
    BY <1>2, <1>3, <1>4 DEF TypeInv
  <2> QED
    BY <1>2, <1>4, <2>1 DEF QueueAndFlag, IdleHasNoSocket
<1>5. CASE /\ pending' = [pending EXCEPT ![w] = @ \o kept]
           /\ closes' = Close(D)
           /\ hasPending' = [hasPending EXCEPT ![w] = pending'[w] # <<>>]
  <2> HIDE DEF kept, D
  <2>1. pending[w] \in Seq(Fds)
    BY DEF TypeInv
  <2>2. /\ pending[w] \o kept \in Seq(Fds)
        /\ Len(pending[w] \o kept) <= PendingFdLimit
    BY <1>1, <2>1, HandoverAssumption
  <2>3. /\ pending' \in [Workers -> Seq(Fds)]
        /\ pending'[w] = pending[w] \o kept
        /\ \A v \in Workers : v # w => pending'[v] = pending[v]
    BY <1>5, <2>2 DEF TypeInv
  <2>4. (pending'[w] # <<>>) \in BOOLEAN
    OBVIOUS
  <2>5. hasPending' \in [Workers -> BOOLEAN]
    BY <1>5, <2>4 DEF TypeInv
  <2>6. /\ pending'[w] # <<>> => hasPending'[w]
        /\ \A v \in Workers : v # w => hasPending'[v] = hasPending[v]
    BY <1>5 DEF TypeInv
  <2>7. closes' \in [Fds -> Nat]
    BY <1>5, CloseType DEF TypeInv
  <2>8. TypeInv'
    BY <1>2, <1>3, <2>3, <2>5, <2>7 DEF TypeInv
  <2>9. QueueAndFlag'
    BY <2>2, <2>3, <2>6 DEF QueueAndFlag
  <2> QED
    BY <1>2, <2>8, <2>9 DEF IdleHasNoSocket
<1> QED
  BY <1>4, <1>5 DEF ReapPutsBack

(* A task closes its socket and is idle again.                             *)
LEMMA TaskClosesBasic ==
    ASSUME BasicInv, NEW w \in Workers, NEW t \in Tasks, TaskCloses(w, t)
    PROVE  BasicInv'
<1> USE DEF BasicInv
<1> DEFINE pushed == <<t>> \o idle[w]
<1>1. /\ taskFd[w][t] # None /\ closes' = Close({taskFd[w][t]})
      /\ taskFd' = [taskFd EXCEPT ![w][t] = None] /\ idle' = [idle EXCEPT ![w] = pushed]
      /\ UNCHANGED <<accepted, nextWorker, pending, hasPending, reaper, taken>>
  BY DEF TaskCloses
<1>2. idle[w] \in Seq(Tasks)
  BY DEF TypeInv
<1>3. /\ pushed \in Seq(Tasks) /\ Len(idle[w]) \in Nat /\ DOMAIN idle[w] = 1 .. Len(idle[w])
      /\ DOMAIN pushed = 1 .. Len(idle[w]) + 1
      /\ pushed[1] = t /\ \A i \in 2 .. Len(idle[w]) + 1 : pushed[i] = idle[w][i - 1]
  BY <1>2
<1> HIDE DEF pushed
<1>4. /\ idle' \in [Workers -> Seq(Tasks)]
      /\ taskFd' \in [Workers -> [Tasks -> Fds \cup {None}]]
      /\ closes' \in [Fds -> Nat]
  BY <1>1, <1>3, CloseType DEF TypeInv
<1>5. TypeInv' /\ QueueAndFlag'
  BY <1>1, <1>4 DEF TypeInv, QueueAndFlag
<1>6. /\ idle'[w] = pushed
      /\ \A v \in Workers : v # w => idle'[v] = idle[v] /\ taskFd'[v] = taskFd[v]
      /\ \A u \in Tasks : taskFd'[w][u] = IF u = t THEN None ELSE taskFd[w][u]
  BY <1>1 DEF TypeInv
<1>7. /\ \A i, j \in 1 .. Len(idle[w]) : idle[w][i] = idle[w][j] => i = j
      /\ \A u \in Tasks : taskFd[w][u] = None <=> \E i \in 1 .. Len(idle[w]) : idle[w][i] = u
  BY <1>3 DEF IdleHasNoSocket
<1>8. \A i \in 1 .. Len(idle[w]) : idle[w][i] # t
  BY <1>1, <1>7
<1>9. \A i \in 2 .. Len(idle[w]) + 1 : i - 1 \in 1 .. Len(idle[w])
  BY <1>3
<1>10. ASSUME NEW i \in DOMAIN pushed, NEW j \in DOMAIN pushed, pushed[i] = pushed[j]
       PROVE  i = j
  <2>1. CASE i = 1
    BY <1>3, <1>8, <1>9, <1>10, <2>1
  <2>2. CASE j = 1
    BY <1>3, <1>8, <1>9, <1>10, <2>2
  <2>3. CASE i # 1 /\ j # 1
    <3>1. i \in 2 .. Len(idle[w]) + 1 /\ j \in 2 .. Len(idle[w]) + 1
      BY <1>3, <2>3
    <3>2. i - 1 = j - 1
      BY <1>3, <1>7, <1>9, <1>10, <3>1, SMTT(30)
    <3> QED
      BY <3>1, <3>2
  <2> QED
    BY <2>1, <2>2, <2>3
<1>11. ASSUME NEW u \in Tasks
       PROVE  taskFd'[w][u] = None <=> \E i \in DOMAIN pushed : pushed[i] = u
  <2>1. CASE u = t
    BY <1>3, <1>6, <2>1
  <2>2. CASE u # t
    <3>1. ASSUME NEW i \in 1 .. Len(idle[w]), idle[w][i] = u
          PROVE  \E j \in DOMAIN pushed : pushed[j] = u
      <4>1. i + 1 \in 2 .. Len(idle[w]) + 1 /\ (i + 1) - 1 = i
        BY <1>3
      <4>2. i + 1 \in DOMAIN pushed /\ pushed[i + 1] = u
        BY <1>3, <3>1, <4>1
      <4> QED
        BY <4>2
    <3>2. ASSUME NEW i \in DOMAIN pushed, pushed[i] = u
          PROVE  \E j \in 1 .. Len(idle[w]) : idle[w][j] = u
      BY <1>3, <1>9, <2>2, <3>2
    <3> QED
      BY <1>6, <1>7, <2>2, <3>1, <3>2
  <2> QED
    BY <2>1, <2>2
<1>12. IdleHasNoSocket'
  BY <1>6, <1>10, <1>11 DEF IdleHasNoSocket
<1> QED
  BY <1>5, <1>12

(* Every step keeps the basic invariant.                                   *)
LEMMA BasicStep ==
    ASSUME BasicInv, [Next]_vars
    PROVE  BasicInv'
<1>1. CASE UNCHANGED vars
  BY <1>1 DEF BasicInv, TypeInv, QueueAndFlag, IdleHasNoSocket, vars
<1>2. CASE Next
  BY <1>2, AcceptBasic, ReapStartsBasic, ReapTakesBasic, ReapAssignsBasic, ReapPutsBackBasic,
     TaskClosesBasic DEF Next, Reap
<1> QED
  BY <1>1, <1>2

(* The basic invariant holds in every state.                               *)
LEMMA BasicAlways == Spec => []BasicInv
<1>1. Init => BasicInv
  BY InitBasic
<1>2. BasicInv /\ [Next]_vars => BasicInv'
  BY BasicStep
<1> QED
  BY <1>1, <1>2, PTL DEF Spec

(* No queue outgrows kPendingFdLimit, and the flag a reaper reads without  *)
(* the mutex never hides a waiting socket, for every number of sockets,    *)
(* workers and tasks and every limit.                                      *)
THEOREM QueuesAreBounded == Spec => []QueueAndFlag
<1>1. BasicInv => QueueAndFlag
  BY DEF BasicInv
<1> QED
  BY <1>1, BasicAlways, PTL

(* The idle stack of a worker holds each of its tasks without a socket     *)
(* exactly once, whatever order connections end in.                        *)
THEOREM IdleStackIsExact == Spec => []IdleHasNoSocket
<1>1. BasicInv => IdleHasNoSocket
  BY DEF BasicInv
<1> QED
  BY <1>1, BasicAlways, PTL

-----------------------------------------------------------------------------
(* The place of a socket: of kind k, at worker w, in position i of a list  *)
(* or with task t.  Nothing else in the state refers to the socket.        *)
Kinds == {"none", "pending", "taken", "task", "closed"}

InList(s, j, fd) == j \in 1 .. Len(s) /\ s[j] = fd

IsAt(fd, k, w, i, t) ==
    /\ k = "none" <=> fd > accepted
    /\ closes[fd] = IF k = "closed" THEN 1 ELSE 0
    /\ \A v \in Workers, j \in Nat :
        InList(pending[v], j, fd) <=> k = "pending" /\ v = w /\ j = i
    /\ \A v \in Workers, j \in Nat :
        InList(taken[v], j, fd) <=> k = "taken" /\ v = w /\ j = i
    /\ \A v \in Workers, u \in Tasks :
        taskFd[v][u] = fd <=> k = "task" /\ v = w /\ u = t

Placed(fd) == \E k \in Kinds, w \in Workers, i \in Nat, t \in Tasks : IsAt(fd, k, w, i, t)

PlaceInv == \A fd \in Fds : Placed(fd)

(* Where an element of a longer list is.                                   *)
LEMMA InAppend ==
    ASSUME NEW s \in Seq(Fds), NEW x \in Fds, NEW fd \in Fds, NEW j \in Nat
    PROVE  InList(Append(s, x), j, fd) <=> InList(s, j, fd) \/ (j = Len(s) + 1 /\ x = fd)
<1>1. /\ Len(s) \in Nat /\ Len(Append(s, x)) = Len(s) + 1 /\ Append(s, x)[Len(s) + 1] = x
      /\ \A i \in 1 .. Len(s) : Append(s, x)[i] = s[i]
  OBVIOUS
<1> QED
  BY <1>1 DEF InList

(* Where an element of the rest of a list is.                              *)
LEMMA InTail ==
    ASSUME NEW s \in Seq(Fds), s # <<>>, NEW fd \in Fds, NEW j \in Nat
    PROVE  /\ InList(Tail(s), j, fd) <=> j # 0 /\ InList(s, j + 1, fd)
           /\ InList(s, 1, fd) <=> Head(s) = fd
<1>1. /\ Len(s) \in Nat \ {0} /\ Len(Tail(s)) = Len(s) - 1 /\ Head(s) = s[1]
      /\ \A i \in 1 .. Len(s) - 1 : Tail(s)[i] = s[i + 1]
  OBVIOUS
<1> QED
  BY <1>1 DEF InList

(* Where an element of two joined lists is.                                *)
LEMMA InConcat ==
    ASSUME NEW s \in Seq(Fds), NEW r \in Seq(Fds), NEW fd \in Fds, NEW j \in Nat
    PROVE  InList(s \o r, j, fd) <=> InList(s, j, fd) \/ InList(r, j - Len(s), fd)
<1>1. /\ Len(s) \in Nat /\ Len(r) \in Nat /\ Len(s \o r) = Len(s) + Len(r)
      /\ \A i \in 1 .. Len(s) : (s \o r)[i] = s[i]
      /\ \A i \in Len(s) + 1 .. Len(s) + Len(r) : (s \o r)[i] = r[i - Len(s)]
  OBVIOUS
<1> QED
  BY <1>1 DEF InList

(* Nothing is in an empty list.                                            *)
LEMMA InEmpty == \A j \in Nat, fd \in Fds : ~InList(<<>>, j, fd)
BY DEF InList

(* A socket is closed once more.                                           *)
LEMMA CloseCounts ==
    ASSUME NEW S, NEW fd \in Fds
    PROVE  Close(S)[fd] = IF fd \in S THEN closes[fd] + 1 ELSE closes[fd]
BY DEF Close

(* At the start no socket is anywhere.                                     *)
LEMMA InitPlaced == Init => PlaceInv
<1> SUFFICES ASSUME Init, NEW fd \in Fds PROVE Placed(fd)
  BY DEF PlaceInv
<1>1. PICK t \in Tasks : TRUE
  BY HandoverAssumption
<1>2. 0 \in Workers /\ fd \in Nat /\ fd > 0 /\ fd # None
  BY HandoverAssumption DEF Workers, Fds
<1>3. IsAt(fd, "none", 0, 0, t)
  BY <1>2 DEF Init, IsAt, InList
<1> QED
  BY <1>1, <1>2, <1>3 DEF Placed, Kinds

(* The same place before and after a step.                                 *)
LEMMA SamePlace ==
    ASSUME NEW fd \in Fds, Placed(fd), UNCHANGED <<accepted, pending, taken, taskFd>>,
           closes'[fd] = closes[fd]
    PROVE  Placed(fd)'
<1>1. PICK k \in Kinds, w \in Workers, i \in Nat, t \in Tasks : IsAt(fd, k, w, i, t)
  BY DEF Placed
<1>2. IsAt(fd, k, w, i, t)'
  BY <1>1 DEF IsAt
<1> QED
  BY <1>2 DEF Placed

(* A new socket is put into one place.                                     *)
LEMMA AcceptPlaced ==
    ASSUME BasicInv, Accept, NEW fd \in Fds, Placed(fd)
    PROVE  Placed(fd)'
<1>1. PICK k \in Kinds, w \in Workers, i \in Nat, t \in Tasks : IsAt(fd, k, w, i, t)
  BY DEF Placed
<1>2. PICK nw \in Workers, new \in Nat : nw = nextWorker /\ new = accepted + 1
  BY DEF BasicInv, TypeInv
<1>3. /\ accepted \in Nat /\ accepted' = new /\ new \in Fds /\ nw \in Workers
      /\ fd \in Nat /\ UNCHANGED <<taskFd, taken>>
  BY <1>2, HandoverAssumption DEF Accept, BasicInv, TypeInv, Fds
<1>4. /\ fd # new => (fd > accepted' <=> fd > accepted)
      /\ fd = new => fd > accepted /\ ~(fd > accepted')
  BY <1>2, <1>3
<1>5. CASE closes' = Close({new}) /\ UNCHANGED pending
  <2>1. CASE fd # new
    <3>1. closes'[fd] = closes[fd]
      BY <1>5, <2>1, CloseCounts
    <3>2. IsAt(fd, k, w, i, t)'
      BY <1>1, <1>3, <1>4, <1>5, <2>1, <3>1 DEF IsAt
    <3> QED
      BY <3>2 DEF Placed
  <2>2. CASE fd = new
    <3>1. k = "none" /\ closes[fd] = 0
      BY <1>1, <1>4, <2>2 DEF IsAt
    <3>2. closes'[fd] = 1
      BY <1>5, <2>2, <3>1, CloseCounts
    <3>3. IsAt(fd, "closed", w, i, t)'
      BY <1>1, <1>3, <1>4, <1>5, <2>2, <3>1, <3>2 DEF IsAt
    <3> QED
      BY <3>3 DEF Placed, Kinds
  <2> QED
    BY <2>1, <2>2
<1>6. CASE pending' = [pending EXCEPT ![nw] = Append(@, new)] /\ UNCHANGED closes
  <2>1. /\ pending[nw] \in Seq(Fds) /\ Len(pending[nw]) \in Nat
        /\ pending'[nw] = Append(pending[nw], new)
        /\ \A v \in Workers : v # nw => pending'[v] = pending[v]
    BY <1>3, <1>6 DEF BasicInv, TypeInv
  <2>2. ASSUME NEW v \in Workers, NEW j \in Nat
        PROVE  InList(pending'[v], j, fd) <=>
                   \/ InList(pending[v], j, fd)
                   \/ v = nw /\ j = Len(pending[nw]) + 1 /\ fd = new
    <3>1. CASE v = nw
      <4>1. InList(Append(pending[nw], new), j, fd) <=>
                InList(pending[nw], j, fd) \/ (j = Len(pending[nw]) + 1 /\ new = fd)
        BY <1>3, <2>1, InAppend
      <4>2. pending'[v] = Append(pending[nw], new) /\ pending[v] = pending[nw]
        BY <2>1, <3>1
      <4> QED
        BY <3>1, <4>1, <4>2
    <3>2. CASE v # nw
      BY <2>1, <3>2
    <3> QED
      BY <3>1, <3>2
  <2>3. CASE fd # new
    <3>1. IsAt(fd, k, w, i, t)'
      BY <1>1, <1>3, <1>4, <1>6, <2>2, <2>3 DEF IsAt
    <3> QED
      BY <3>1 DEF Placed
  <2>4. CASE fd = new
    <3>1. k = "none"
      BY <1>1, <1>4, <2>4 DEF IsAt
    <3>2. PICK n \in Nat : n = Len(pending[nw]) + 1
      BY <2>1
    <3>3. IsAt(fd, "pending", nw, n, t)'
      BY <1>1, <1>3, <1>4, <1>6, <2>1, <2>2, <2>4, <3>1, <3>2 DEF IsAt
    <3> QED
      BY <3>3 DEF Placed, Kinds
  <2> QED
    BY <2>3, <2>4
<1> QED
  BY <1>2, <1>3, <1>5, <1>6 DEF Accept, DispatchFd

(* The sockets of the queue are now in the reaper's list.                  *)
LEMMA ReapTakesPlaced ==
    ASSUME BasicInv, NEW v0 \in Workers, ReapTakes(v0), NEW fd \in Fds, Placed(fd)
    PROVE  Placed(fd)'
<1>1. PICK k \in Kinds, w \in Workers, i \in Nat, t \in Tasks : IsAt(fd, k, w, i, t)
  BY DEF Placed
<1>2. /\ taken[v0] = <<>> /\ taken'[v0] = pending[v0] /\ pending'[v0] = <<>>
      /\ \A v \in Workers : v # v0 => taken'[v] = taken[v] /\ pending'[v] = pending[v]
      /\ UNCHANGED <<accepted, taskFd, closes>>
  BY DEF ReapTakes, BasicInv, TypeInv
<1>3. \A j \in Nat : ~InList(taken[v0], j, fd) /\ ~InList(pending'[v0], j, fd)
  BY <1>2, InEmpty
<1>4. CASE k = "pending" /\ w = v0
  <2>1. IsAt(fd, "taken", v0, i, t)'
    BY <1>1, <1>2, <1>3, <1>4 DEF IsAt
  <2> QED
    BY <2>1 DEF Placed, Kinds
<1>5. CASE ~(k = "pending" /\ w = v0)
  <2>1. k = "taken" => w # v0
    BY <1>1, <1>3 DEF IsAt
  <2>2. \A j \in Nat : ~InList(pending[v0], j, fd)
    BY <1>1, <1>5 DEF IsAt
  <2>3. IsAt(fd, k, w, i, t)'
    BY <1>1, <1>2, <1>3, <1>5, <2>1, <2>2 DEF IsAt
  <2> QED
    BY <2>3 DEF Placed
<1> QED
  BY <1>4, <1>5

(* An assigned socket leaves the list and is with one task, or closed.     *)
LEMMA ReapAssignsPlaced ==
    ASSUME BasicInv, NEW v0 \in Workers, ReapAssigns(v0), NEW fd \in Fds, Placed(fd)
    PROVE  Placed(fd)'
<1>1. PICK k \in Kinds, w \in Workers, i \in Nat, t \in Tasks : IsAt(fd, k, w, i, t)
  BY DEF Placed
<1>2. taken[v0] \in Seq(Fds) /\ taken[v0] # <<>> /\ idle[v0] \in Seq(Tasks) /\ idle[v0] # <<>>
  BY DEF ReapAssigns, BasicInv, TypeInv
<1>3. Head(taken[v0]) \in Fds /\ Head(idle[v0]) \in Tasks
  BY <1>2
<1>4. PICK fd0 \in Fds, t0 \in Tasks : fd0 = Head(taken[v0]) /\ t0 = Head(idle[v0])
  BY <1>3
<1>5. taskFd[v0][t0] = None
  <2>1. 1 \in DOMAIN idle[v0] /\ idle[v0][1] = t0
    BY <1>2, <1>4
  <2> QED
    BY <2>1 DEF BasicInv, IdleHasNoSocket
<1>6. fd # None
  BY HandoverAssumption
<1>7. /\ taken'[v0] = Tail(taken[v0])
      /\ \A v \in Workers : v # v0 => taken'[v] = taken[v]
      /\ UNCHANGED <<accepted, pending>>
  BY DEF ReapAssigns, BasicInv, TypeInv
<1>8. \A j \in Nat : InList(taken'[v0], j, fd) <=> j # 0 /\ InList(taken[v0], j + 1, fd)
  BY <1>2, <1>7, InTail
<1>9. InList(taken[v0], 1, fd) <=> fd0 = fd
  BY <1>2, <1>4, InTail
<1>10. fd0 = fd <=> k = "taken" /\ w = v0 /\ i = 1
  BY <1>1, <1>9 DEF IsAt
<1>11. \A j \in Nat : InList(taken[v0], j, fd) <=> k = "taken" /\ v0 = w /\ j = i
  BY <1>1 DEF IsAt
<1>12. (closes' = Close({fd0}) /\ UNCHANGED taskFd)
         \/ (taskFd' = [taskFd EXCEPT ![v0][t0] = fd0] /\ UNCHANGED closes)
  BY <1>4 DEF ReapAssigns
<1>13. CASE fd0 = fd
  <2>1. ASSUME NEW v \in Workers, NEW j \in Nat
        PROVE  ~InList(taken'[v], j, fd)
    <3>1. CASE v = v0
      <4>1. j + 1 \in Nat /\ (j # 0 => j + 1 # 1)
        OBVIOUS
      <4>2. InList(taken[v0], j + 1, fd) <=> j + 1 = 1
        BY <1>10, <1>11, <1>13, <4>1
      <4> QED
        BY <1>8, <3>1, <4>1, <4>2
    <3>2. CASE v # v0
      <4>1. ~InList(taken[v], j, fd)
        BY <1>1, <1>10, <1>13, <3>2 DEF IsAt
      <4> QED
        BY <1>7, <3>2, <4>1
    <3> QED
      BY <3>1, <3>2
  <2>2. CASE closes' = Close({fd0}) /\ UNCHANGED taskFd
    <3>1. closes'[fd] = 1
      BY <1>1, <1>10, <1>13, <2>2, CloseCounts DEF IsAt
    <3>2. IsAt(fd, "closed", w, i, t)'
      BY <1>1, <1>7, <1>10, <1>13, <2>1, <2>2, <3>1 DEF IsAt
    <3> QED
      BY <3>2 DEF Placed, Kinds
  <2>3. CASE taskFd' = [taskFd EXCEPT ![v0][t0] = fd0] /\ UNCHANGED closes
    <3>1. \A v \in Workers, u \in Tasks :
             taskFd'[v][u] = IF v = v0 /\ u = t0 THEN fd ELSE taskFd[v][u]
      BY <1>13, <2>3 DEF BasicInv, TypeInv
    <3>2. IsAt(fd, "task", v0, i, t0)'
      BY <1>1, <1>7, <1>10, <1>13, <2>1, <2>3, <3>1 DEF IsAt
    <3> QED
      BY <3>2 DEF Placed, Kinds
  <2> QED
    BY <1>12, <2>2, <2>3
<1>14. CASE fd0 # fd
  <2>1. closes'[fd] = closes[fd]
    BY <1>12, <1>14, CloseCounts
  <2>2. \A v \in Workers, u \in Tasks : taskFd'[v][u] = fd <=> taskFd[v][u] = fd
    <3>1. CASE UNCHANGED taskFd
      BY <3>1
    <3>2. CASE taskFd' = [taskFd EXCEPT ![v0][t0] = fd0]
      <4>1. \A v \in Workers, u \in Tasks :
               taskFd'[v][u] = IF v = v0 /\ u = t0 THEN fd0 ELSE taskFd[v][u]
        BY <3>2 DEF BasicInv, TypeInv
      <4> QED
        BY <1>5, <1>6, <1>14, <4>1
    <3> QED
      BY <1>12, <3>1, <3>2
  <2>3. CASE k = "taken" /\ w = v0
    <3>1. i # 1 /\ i # 0
      <4>1. InList(taken[v0], i, fd)
        BY <1>11, <2>3
      <4>2. i # 0
        BY <1>2, <4>1 DEF InList
      <4> QED
        BY <1>10, <1>14, <2>3, <4>2
    <3>2. PICK n \in Nat : n = i - 1
      BY <3>1
    <3>3. \A j \in Nat : InList(taken'[v0], j, fd) <=> j = n
      BY <1>8, <1>11, <2>3, <3>1, <3>2
    <3>4. IsAt(fd, "taken", v0, n, t)'
      BY <1>1, <1>7, <2>1, <2>2, <2>3, <3>3 DEF IsAt
    <3> QED
      BY <3>4 DEF Placed, Kinds
  <2>4. CASE ~(k = "taken" /\ w = v0)
    <3>1. \A j \in Nat : ~InList(taken'[v0], j, fd)
      BY <1>8, <1>11, <2>4
    <3>2. \A v \in Workers, j \in Nat : InList(taken'[v], j, fd) <=> InList(taken[v], j, fd)
      BY <1>7, <1>11, <2>4, <3>1
    <3>3. IsAt(fd, k, w, i, t)'
      BY <1>1, <1>7, <2>1, <2>2, <3>2 DEF IsAt
    <3> QED
      BY <3>3 DEF Placed
  <2> QED
    BY <2>3, <2>4
<1> QED
  BY <1>13, <1>14

(* What is left is queued again or closed, each socket once.               *)
LEMMA ReapPutsBackPlaced ==
    ASSUME BasicInv, NEW v0 \in Workers, ReapPutsBack(v0), NEW fd \in Fds, Placed(fd)
    PROVE  Placed(fd)'
<1>1. PICK k \in Kinds, w \in Workers, i \in Nat, t \in Tasks : IsAt(fd, k, w, i, t)
  BY DEF Placed
<1>2. taken[v0] \in Seq(Fds) /\ pending[v0] \in Seq(Fds)
  BY DEF BasicInv, TypeInv
<1>3. /\ taken'[v0] = <<>>
      /\ \A v \in Workers : v # v0 => taken'[v] = taken[v]
      /\ UNCHANGED <<accepted, taskFd>>
  BY DEF ReapPutsBack, BasicInv, TypeInv
<1>4. \A j \in Nat : ~InList(taken'[v0], j, fd)
  BY <1>3, InEmpty
<1>5. \A j \in Nat : InList(taken[v0], j, fd) <=> k = "taken" /\ v0 = w /\ j = i
  BY <1>1 DEF IsAt
<1>6. CASE taken[v0] = <<>> /\ UNCHANGED <<pending, closes>>
  <2>1. taken' = taken
    BY <1>6 DEF ReapPutsBack, BasicInv, TypeInv
  <2> QED
    BY <1>3, <1>6, <2>1, SamePlace
<1> DEFINE kept == SubSeq(taken[v0], 1, Room(v0))
           dropped == SubSeq(taken[v0], Room(v0) + 1, Len(taken[v0]))
           D == {dropped[j] : j \in DOMAIN dropped}
<1>7. CASE pending' = [pending EXCEPT ![v0] = @ \o kept] /\ closes' = Close(D)
  <2>1. PICK n \in Nat, p \in Nat, m \in Nat :
            n = Room(v0) /\ p = Len(pending[v0]) /\ m = Len(taken[v0])
    BY RoomType DEF BasicInv
  <2>2. /\ kept \in Seq(Fds) /\ Len(kept) = n /\ n <= m
        /\ \A j \in 1 .. n : kept[j] = taken[v0][j]
        /\ D = {taken[v0][j] : j \in n + 1 .. m}
    BY <2>1, RoomType DEF BasicInv
  <2> HIDE DEF kept, D
  <2>3. /\ pending'[v0] = pending[v0] \o kept
        /\ \A v \in Workers : v # v0 => pending'[v] = pending[v]
    BY <1>7 DEF BasicInv, TypeInv
  <2>4. \A j \in Nat : InList(pending'[v0], j, fd)
                         <=> InList(pending[v0], j, fd) \/ InList(kept, j - p, fd)
    BY <1>2, <2>1, <2>2, <2>3, InConcat
  <2>5. \A j \in Int : InList(kept, j, fd) <=> j \in 1 .. n /\ InList(taken[v0], j, fd)
    BY <2>1, <2>2 DEF InList
  <2>6. fd \in D <=> \E j \in n + 1 .. m : InList(taken[v0], j, fd)
    BY <2>1, <2>2 DEF InList
  <2>7. closes'[fd] = IF fd \in D THEN closes[fd] + 1 ELSE closes[fd]
    BY <1>7, CloseCounts
  <2>8. CASE k = "taken" /\ w = v0
    <3>1. InList(taken[v0], i, fd) /\ i \in 1 .. m
      BY <1>5, <2>1, <2>8 DEF InList
    <3>2. \A j \in Nat : ~InList(pending[v0], j, fd)
      BY <1>1, <2>8 DEF IsAt
    <3>3. CASE i \in 1 .. n
      <4>1. fd \notin D
        BY <1>5, <2>1, <2>6, <3>3
      <4>2. PICK q \in Nat : q = p + i
        BY <2>1
      <4>3. \A j \in Nat : InList(pending'[v0], j, fd) <=> j = q
        <5>1. ASSUME NEW j \in Nat
              PROVE  InList(kept, j - p, fd) <=> j = q
          <6>1. j - p \in Int /\ (j - p = i <=> j = q)
            BY <2>1, <4>2
          <6>2. InList(kept, j - p, fd) <=> j - p \in 1 .. n /\ InList(taken[v0], j - p, fd)
            BY <2>5, <6>1
          <6>3. j - p \in 1 .. n => (InList(taken[v0], j - p, fd) <=> j - p = i)
            BY <1>5, <2>1, <2>8
          <6> QED
            BY <3>3, <6>1, <6>2, <6>3
        <5> QED
          BY <2>4, <3>2, <5>1
      <4>4. IsAt(fd, "pending", v0, q, t)'
        BY <1>1, <1>3, <1>4, <2>3, <2>7, <2>8, <4>1, <4>3 DEF IsAt
      <4> QED
        BY <4>4 DEF Placed, Kinds
    <3>4. CASE i \notin 1 .. n
      <4>1. fd \in D
        BY <2>1, <2>6, <3>1, <3>4
      <4>2. closes'[fd] = 1
        BY <1>1, <2>7, <2>8, <4>1 DEF IsAt
      <4>3. \A j \in Nat : ~InList(pending'[v0], j, fd)
        <5>1. ASSUME NEW j \in Nat
              PROVE  ~InList(kept, j - p, fd)
          <6>1. j - p \in Int
            BY <2>1
          <6>2. InList(kept, j - p, fd) => j - p \in 1 .. n /\ InList(taken[v0], j - p, fd)
            BY <2>5, <6>1
          <6> QED
            BY <1>5, <2>1, <3>4, <6>2
        <5> QED
          BY <2>4, <3>2, <5>1
      <4>4. IsAt(fd, "closed", w, i, t)'
        BY <1>1, <1>3, <1>4, <2>3, <2>8, <4>2, <4>3 DEF IsAt
      <4> QED
        BY <4>4 DEF Placed, Kinds
    <3> QED
      BY <3>3, <3>4
  <2>9. CASE ~(k = "taken" /\ w = v0)
    <3>1. \A j \in Nat : ~InList(taken[v0], j, fd)
      BY <1>5, <2>9
    <3>2. fd \notin D
      BY <2>1, <2>6, <3>1
    <3>3. \A j \in Nat : ~InList(kept, j - p, fd)
      BY <2>1, <2>5, <3>1
    <3>4. \A v \in Workers, j \in Nat : InList(pending'[v], j, fd) <=> InList(pending[v], j, fd)
      BY <2>3, <2>4, <3>3
    <3>5. \A v \in Workers, j \in Nat : InList(taken'[v], j, fd) <=> InList(taken[v], j, fd)
      BY <1>3, <1>4, <3>1
    <3>6. IsAt(fd, k, w, i, t)'
      BY <1>1, <1>3, <2>7, <3>2, <3>4, <3>5 DEF IsAt
    <3> QED
      BY <3>6 DEF Placed
  <2> QED
    BY <2>8, <2>9
<1> QED
  BY <1>6, <1>7 DEF ReapPutsBack

(* A closed socket leaves its task and is nowhere else.                    *)
LEMMA TaskClosesPlaced ==
    ASSUME BasicInv, NEW v0 \in Workers, NEW t0 \in Tasks, TaskCloses(v0, t0),
           NEW fd \in Fds, Placed(fd)
    PROVE  Placed(fd)'
<1>1. PICK k \in Kinds, w \in Workers, i \in Nat, t \in Tasks : IsAt(fd, k, w, i, t)
  BY DEF Placed
<1>2. /\ closes' = Close({taskFd[v0][t0]})
      /\ \A v \in Workers, u \in Tasks :
            taskFd'[v][u] = IF v = v0 /\ u = t0 THEN None ELSE taskFd[v][u]
      /\ UNCHANGED <<accepted, pending, taken>>
  BY DEF TaskCloses, BasicInv, TypeInv
<1>3. fd # None
  BY HandoverAssumption
<1>4. closes'[fd] = IF taskFd[v0][t0] = fd THEN closes[fd] + 1 ELSE closes[fd]
  BY <1>2, CloseCounts
<1>5. CASE taskFd[v0][t0] = fd
  <2>1. k = "task" /\ w = v0 /\ t = t0
    BY <1>1, <1>5 DEF IsAt
  <2>2. IsAt(fd, "closed", w, i, t)'
    BY <1>1, <1>2, <1>3, <1>4, <1>5, <2>1 DEF IsAt
  <2> QED
    BY <2>2 DEF Placed, Kinds
<1>6. CASE taskFd[v0][t0] # fd
  <2>1. IsAt(fd, k, w, i, t)'
    BY <1>1, <1>2, <1>3, <1>4, <1>6 DEF IsAt
  <2> QED
    BY <2>1 DEF Placed
<1> QED
  BY <1>5, <1>6

(* Every step keeps every socket in one place.                             *)
LEMMA PlaceStep ==
    ASSUME BasicInv, PlaceInv, [Next]_vars
    PROVE  PlaceInv'
<1> SUFFICES ASSUME NEW fd \in Fds
             PROVE  Placed(fd)'
  BY DEF PlaceInv
<1>1. Placed(fd)
  BY DEF PlaceInv
<1>2. CASE UNCHANGED vars
  <2>1. UNCHANGED <<accepted, pending, taken, taskFd>> /\ closes'[fd] = closes[fd]
    BY <1>2 DEF vars
  <2> QED
    BY <1>1, <2>1, SamePlace
<1>3. CASE Accept
  BY <1>1, <1>3, AcceptPlaced
<1>4. ASSUME NEW w \in Workers, ReapStarts(w)
      PROVE  Placed(fd)'
  <2>1. UNCHANGED <<accepted, pending, taken, taskFd>> /\ closes'[fd] = closes[fd]
    BY <1>4 DEF ReapStarts
  <2> QED
    BY <1>1, <2>1, SamePlace
<1>5. ASSUME NEW w \in Workers, ReapTakes(w)
      PROVE  Placed(fd)'
  BY <1>1, <1>5, ReapTakesPlaced
<1>6. ASSUME NEW w \in Workers, ReapAssigns(w)
      PROVE  Placed(fd)'
  BY <1>1, <1>6, ReapAssignsPlaced
<1>7. ASSUME NEW w \in Workers, ReapPutsBack(w)
      PROVE  Placed(fd)'
  BY <1>1, <1>7, ReapPutsBackPlaced
<1>8. ASSUME NEW w \in Workers, NEW t \in Tasks, TaskCloses(w, t)
      PROVE  Placed(fd)'
  BY <1>1, <1>8, TaskClosesPlaced
<1> QED
  BY <1>2, <1>3, <1>4, <1>5, <1>6, <1>7, <1>8 DEF Next, Reap

(* The lists hold a socket of kind k at one position, and one of another   *)
(* kind nowhere.                                                           *)
OnlyAt(lists, fd, k, kind, w, i) ==
    \A v \in Workers, j \in Nat : InList(lists[v], j, fd) <=> k = kind /\ v = w /\ j = i

(* The places of a socket in such lists.                                   *)
LEMMA QueuedIs ==
    ASSUME NEW lists \in [Workers -> Seq(Fds)], NEW fd \in Fds,
           NEW k, NEW kind, NEW w \in Workers, NEW i \in Nat,
           OnlyAt(lists, fd, k, kind, w, i)
    PROVE  Queued(lists, fd) = IF k = kind THEN {<<w, i>>} ELSE {}
<1>1. \A v \in Workers : DOMAIN lists[v] = 1 .. Len(lists[v]) /\ Len(lists[v]) \in Nat
  OBVIOUS
<1>2. ASSUME NEW p \in Queued(lists, fd)
      PROVE  k = kind /\ p = <<w, i>>
  <2>1. PICK v \in Workers : \E j \in DOMAIN lists[v] : p = <<v, j>> /\ lists[v][j] = fd
    BY DEF Queued
  <2>2. PICK j \in DOMAIN lists[v] : p = <<v, j>> /\ lists[v][j] = fd
    BY <2>1
  <2>3. j \in Nat /\ InList(lists[v], j, fd)
    BY <1>1, <2>2 DEF InList
  <2> QED
    BY <2>2, <2>3 DEF OnlyAt
<1>3. ASSUME k = kind
      PROVE  <<w, i>> \in Queued(lists, fd)
  <2>1. i \in DOMAIN lists[w] /\ lists[w][i] = fd
    BY <1>1, <1>3 DEF InList, OnlyAt
  <2> QED
    BY <2>1 DEF Queued
<1> QED
  BY <1>2, <1>3

(* The places the invariant tells apart are the ones OnePlace counts.      *)
LEMMA PlacesOfPlaced ==
    ASSUME BasicInv, NEW fd \in Fds, Placed(fd)
    PROVE  IF fd > accepted THEN Places(fd) = {} ELSE \E p \in Places(fd) : Places(fd) = {p}
<1>1. PICK k \in Kinds, w \in Workers, i \in Nat, t \in Tasks : IsAt(fd, k, w, i, t)
  BY DEF Placed
<1>2. pending \in [Workers -> Seq(Fds)] /\ taken \in [Workers -> Seq(Fds)]
  BY DEF BasicInv, TypeInv
<1>3. Queued(pending, fd) = IF k = "pending" THEN {<<w, i>>} ELSE {}
  <2>1. OnlyAt(pending, fd, k, "pending", w, i)
    BY <1>1 DEF IsAt, OnlyAt
  <2> QED
    BY <1>2, <2>1, QueuedIs
<1>4. Queued(taken, fd) = IF k = "taken" THEN {<<w, i>>} ELSE {}
  <2>1. OnlyAt(taken, fd, k, "taken", w, i)
    BY <1>1 DEF IsAt, OnlyAt
  <2> QED
    BY <1>2, <2>1, QueuedIs
<1>5. Served(fd) = IF k = "task" THEN {<<w, t>>} ELSE {}
  BY <1>1 DEF IsAt, Served
<1>6. 1 .. closes[fd] = IF k = "closed" THEN {1} ELSE {}
  <2>1. closes[fd] = IF k = "closed" THEN 1 ELSE 0
    BY <1>1 DEF IsAt
  <2>2. 1 .. 1 = {1} /\ 1 .. 0 = {}
    OBVIOUS
  <2> QED
    BY <2>1, <2>2
<1>7. k = "none" <=> fd > accepted
  BY <1>1 DEF IsAt
<1>8. CASE k = "none"
  BY <1>3, <1>4, <1>5, <1>6, <1>7, <1>8 DEF Places
<1>9. CASE k = "pending"
  <2>1. Places(fd) = {<<"pending", <<w, i>> >>}
    BY <1>3, <1>4, <1>5, <1>6, <1>9 DEF Places
  <2> QED
    BY <1>7, <1>9, <2>1
<1>10. CASE k = "taken"
  <2>1. Places(fd) = {<<"taken", <<w, i>> >>}
    BY <1>3, <1>4, <1>5, <1>6, <1>10 DEF Places
  <2> QED
    BY <1>7, <1>10, <2>1
<1>11. CASE k = "task"
  <2>1. Places(fd) = {<<"task", <<w, t>> >>}
    BY <1>3, <1>4, <1>5, <1>6, <1>11 DEF Places
  <2> QED
    BY <1>7, <1>11, <2>1
<1>12. CASE k = "closed"
  <2>1. Places(fd) = {<<"closed", 1>>}
    BY <1>3, <1>4, <1>5, <1>6, <1>12 DEF Places
  <2> QED
    BY <1>7, <1>12, <2>1
<1> QED
  BY <1>8, <1>9, <1>10, <1>11, <1>12 DEF Kinds

(* Every accepted socket is in one queue, one reaper's list or one task,   *)
(* or has been closed once, and one that is not accepted is nowhere, for   *)
(* every number of sockets, workers and tasks and every queue limit: none  *)
(* is lost, served twice or closed twice.                                  *)
THEOREM EverySocketHasOnePlace == Spec => []OnePlace
<1>1. Init => PlaceInv
  BY InitPlaced
<1>2. BasicInv /\ PlaceInv /\ [Next]_vars => PlaceInv'
  BY PlaceStep
<1>3. BasicInv /\ PlaceInv => OnePlace
  BY PlacesOfPlaced DEF PlaceInv, OnePlace
<1> QED
  BY <1>1, <1>2, <1>3, BasicAlways, PTL DEF Spec
=============================================================================
