----------------------------- MODULE FdHandover -----------------------------
(***************************************************************************)
(* How an accepted socket reaches the coroutine that serves it             *)
(* (src/src/net/server.cpp).  The accept thread deals sockets round robin  *)
(* into the workers' bounded queues; each worker thread has a coroutine    *)
(* that takes the whole queue, hands its sockets to idle tasks and puts    *)
(* the rest back.  The two threads meet at the worker's mutex and at the   *)
(* flag the reaper reads without it.                                       *)
(***************************************************************************)
EXTENDS Integers, Sequences, FiniteSets

CONSTANTS
  NSockets,         \* bound: how many sockets clients connect with
  NWorkers,         \* g_workers->size()
  Tasks,            \* the tasks of each worker (coroutine_count)
  PendingFdLimit,   \* kPendingFdLimit
  None              \* fd -1

Workers == 0..(NWorkers - 1)

\* Sockets are numbered in the order in which they are accepted.
Fds == 1..NSockets

ASSUME HandoverAssumption ==
  /\ NWorkers \in Nat \ {0} /\ PendingFdLimit \in Nat /\ NSockets \in Nat
  /\ Tasks # {} /\ IsFiniteSet(Tasks) /\ None \notin Fds

\* The orders in which a worker may have pushed its tasks, each once.
TaskOrders ==
  {s \in [1..Cardinality(Tasks) -> Tasks] :
     /\ \A t \in Tasks : \E i \in DOMAIN s : s[i] = t
     /\ \A i, j \in DOMAIN s : s[i] = s[j] => i = j}

VARIABLES
  accepted,    \* how many sockets have been accepted
  nextWorker,  \* next_worker
  pending,     \* pending_fds_ of each worker
  hasPending,  \* has_pending_fds_
  idle,        \* the stack of idle tasks of each worker
  taskFd,      \* the socket of each task
  reaper,      \* where each worker's ReapFds stands
  taken,       \* its local list of sockets
  closes       \* how often each socket has been closed

vars == <<accepted, nextWorker, pending, hasPending, idle, taskFd, reaper, taken, closes>>

Init ==
  /\ accepted = 0
  /\ nextWorker = 0
  /\ pending = [w \in Workers |-> <<>>]
  /\ hasPending = [w \in Workers |-> FALSE]
  /\ idle \in [Workers -> TaskOrders]
  /\ taskFd = [w \in Workers |-> [t \in Tasks |-> None]]
  /\ reaper = [w \in Workers |-> "sleep"]
  /\ taken = [w \in Workers |-> <<>>]
  /\ closes = [fd \in Fds |-> 0]

Close(fds) == [fd \in Fds |-> IF fd \in fds THEN closes[fd] + 1 ELSE closes[fd]]

\* DispatchFd, under the worker's mutex.
DispatchFd(w, fd) ==
  \/ /\ Len(pending[w]) >= PendingFdLimit
     /\ closes' = Close({fd})
     /\ UNCHANGED <<pending, hasPending>>
  \/ /\ Len(pending[w]) < PendingFdLimit
     /\ pending' = [pending EXCEPT ![w] = Append(@, fd)]
     /\ hasPending' = [hasPending EXCEPT ![w] = TRUE]
     /\ UNCHANGED closes

NextWorker(n) == (n + 1) % NWorkers

\* The accept thread takes a socket, and drops it when it cannot be made
\* non-blocking.
Accept ==
  /\ accepted < NSockets
  /\ accepted' = accepted + 1
  /\ \/ /\ DispatchFd(nextWorker, accepted')
        /\ nextWorker' = NextWorker(nextWorker)
     \/ /\ closes' = Close({accepted'})
        /\ UNCHANGED <<nextWorker, pending, hasPending>>
  /\ UNCHANGED <<idle, taskFd, reaper, taken>>

\* ReapFds finds an idle task and the flag set, which it reads without the
\* mutex.
ReapStarts(w) ==
  /\ reaper[w] = "sleep"
  /\ idle[w] # <<>> /\ hasPending[w]
  /\ reaper' = [reaper EXCEPT ![w] = "take"]
  /\ UNCHANGED <<accepted, nextWorker, pending, hasPending, idle, taskFd, taken, closes>>

\* Under the mutex it takes the whole list and clears the flag.
ReapTakes(w) ==
  /\ reaper[w] = "take"
  /\ taken' = [taken EXCEPT ![w] = pending[w]]
  /\ pending' = [pending EXCEPT ![w] = <<>>]
  /\ hasPending' = [hasPending EXCEPT ![w] = FALSE]
  /\ reaper' = [reaper EXCEPT ![w] = "assign"]
  /\ UNCHANGED <<accepted, nextWorker, idle, taskFd, closes>>

\* A reaper that looks at the top of the stack and leaves the task there.
ReapAssignsTop(w) ==
  /\ reaper[w] = "assign"
  /\ taken[w] # <<>> /\ idle[w] # <<>>
  /\ taken' = [taken EXCEPT ![w] = Tail(@)]
  /\ taskFd' = [taskFd EXCEPT ![w][Head(idle[w])] = Head(taken[w])]
  /\ UNCHANGED <<accepted, nextWorker, pending, hasPending, idle, reaper, closes>>

\* The first socket goes to the task on top of the stack, which is resumed:
\* it serves the socket until it waits for input, or finds it closed and goes
\* back on the stack before the reaper continues.
ReapAssigns(w) ==
  /\ reaper[w] = "assign"
  /\ taken[w] # <<>> /\ idle[w] # <<>>
  /\ taken' = [taken EXCEPT ![w] = Tail(@)]
  /\ LET fd == Head(taken[w])
         t == Head(idle[w])
     IN \/ /\ taskFd' = [taskFd EXCEPT ![w][t] = fd]
           /\ idle' = [idle EXCEPT ![w] = Tail(@)]
           /\ UNCHANGED closes
        \/ /\ closes' = Close({fd})
           /\ UNCHANGED <<taskFd, idle>>
  /\ UNCHANGED <<accepted, nextWorker, pending, hasPending, reaper>>

\* How many sockets of its list ReapFds can put back.
Room(w) ==
  IF Len(taken[w]) <= PendingFdLimit - Len(pending[w])
  THEN Len(taken[w]) ELSE PendingFdLimit - Len(pending[w])

\* A put-back that gives the list back without counting what has arrived.
PutsBackAll(w) ==
  /\ reaper[w] = "assign"
  /\ taken[w] = <<>> \/ idle[w] = <<>>
  /\ IF taken[w] = <<>> THEN UNCHANGED <<pending, hasPending>>
     ELSE /\ pending' = [pending EXCEPT ![w] = @ \o taken[w]]
          /\ hasPending' = [hasPending EXCEPT ![w] = TRUE]
  /\ UNCHANGED closes
  /\ taken' = [taken EXCEPT ![w] = <<>>]
  /\ reaper' = [reaper EXCEPT ![w] = "sleep"]
  /\ UNCHANGED <<accepted, nextWorker, idle, taskFd>>

\* A put-back that leaves the flag as the swap left it.
PutsBackUnflagged(w) ==
  /\ reaper[w] = "assign"
  /\ taken[w] = <<>> \/ idle[w] = <<>>
  /\ LET kept == SubSeq(taken[w], 1, Room(w))
         dropped == SubSeq(taken[w], Room(w) + 1, Len(taken[w]))
     IN /\ pending' = [pending EXCEPT ![w] = @ \o kept]
        /\ closes' = Close({dropped[i] : i \in DOMAIN dropped})
  /\ taken' = [taken EXCEPT ![w] = <<>>]
  /\ reaper' = [reaper EXCEPT ![w] = "sleep"]
  /\ UNCHANGED <<accepted, nextWorker, hasPending, idle, taskFd>>

\* Nothing left to hand out, or nobody to hand it to: under the mutex the rest
\* goes behind what has arrived meanwhile, what does not fit is closed, and
\* the flag says whether anything waits.
ReapPutsBack(w) ==
  /\ reaper[w] = "assign"
  /\ taken[w] = <<>> \/ idle[w] = <<>>
  /\ LET kept == SubSeq(taken[w], 1, Room(w))
         dropped == SubSeq(taken[w], Room(w) + 1, Len(taken[w]))
     IN IF taken[w] = <<>> THEN UNCHANGED <<pending, hasPending, closes>>
        ELSE /\ pending' = [pending EXCEPT ![w] = @ \o kept]
             /\ closes' = Close({dropped[i] : i \in DOMAIN dropped})
             /\ hasPending' = [hasPending EXCEPT ![w] = pending'[w] # <<>>]
  /\ taken' = [taken EXCEPT ![w] = <<>>]
  /\ reaper' = [reaper EXCEPT ![w] = "sleep"]
  /\ UNCHANGED <<accepted, nextWorker, idle, taskFd>>

\* A task that closes its socket without forgetting it.
TaskClosesAgain(w, t) ==
  /\ reaper[w] = "sleep"
  /\ taskFd[w][t] # None
  /\ closes' = Close({taskFd[w][t]})
  /\ idle' = [idle EXCEPT ![w] = <<t>> \o @]
  /\ UNCHANGED <<accepted, nextWorker, pending, hasPending, taskFd, reaper, taken>>

\* A connection ends: CloseTask, and the task goes back on the idle stack.
\* The reaper and the tasks of a worker share a thread, so this does not
\* happen in the middle of ReapFds.
TaskCloses(w, t) ==
  /\ reaper[w] = "sleep"
  /\ taskFd[w][t] # None
  /\ closes' = Close({taskFd[w][t]})
  /\ taskFd' = [taskFd EXCEPT ![w][t] = None]
  /\ idle' = [idle EXCEPT ![w] = <<t>> \o @]
  /\ UNCHANGED <<accepted, nextWorker, pending, hasPending, reaper, taken>>

Reap(w) == ReapStarts(w) \/ ReapTakes(w) \/ ReapAssigns(w) \/ ReapPutsBack(w)

Next ==
  \/ Accept
  \/ \E w \in Workers : Reap(w) \/ \E t \in Tasks : TaskCloses(w, t)

Spec == Init /\ [][Next]_vars

\* The reaper polls every millisecond; nothing is assumed of the clients.
FairSpec == Spec /\ \A w \in Workers : WF_vars(Reap(w))

-----------------------------------------------------------------------------
\* Where a socket is: in a queue, in a reaper's list, with a task, and how
\* often it was closed.
Queued(lists, fd) ==
  {p \in UNION {{w} \X DOMAIN lists[w] : w \in Workers} : lists[p[1]][p[2]] = fd}

Served(fd) == {p \in Workers \X Tasks : taskFd[p[1]][p[2]] = fd}

Places(fd) ==
  ({"pending"} \X Queued(pending, fd)) \cup ({"taken"} \X Queued(taken, fd))
    \cup ({"task"} \X Served(fd)) \cup ({"closed"} \X (1..closes[fd]))

\* Every accepted socket is in exactly one queue, one reaper's hands or one
\* task, or has been closed exactly once: none is lost, served twice or
\* closed twice, whatever the accept thread does while a worker reaps
\* (DispatchFd, ReapFds, CloseTask).
OnePlace ==
  \A fd \in Fds :
    IF fd > accepted THEN Places(fd) = {} ELSE \E p \in Places(fd) : Places(fd) = {p}

\* No queue outgrows kPendingFdLimit, though sockets are put back into queues
\* that have been filled meanwhile, and the flag the reaper reads without the
\* mutex never hides a waiting socket.
QueueAndFlag ==
  \A w \in Workers :
    /\ Len(pending[w]) <= PendingFdLimit
    /\ pending[w] # <<>> => hasPending[w]

\* A task is on the idle stack, once, exactly when it has no socket.
IdleHasNoSocket ==
  \A w \in Workers :
    /\ \A i, j \in DOMAIN idle[w] : idle[w][i] = idle[w][j] => i = j
    /\ \A t \in Tasks : taskFd[w][t] = None <=> \E i \in DOMAIN idle[w] : idle[w][i] = t

Waits(w, fd) == \E i \in DOMAIN (pending[w] \o taken[w]) : (pending[w] \o taken[w])[i] = fd

\* A socket does not wait for ever beside a task that has nothing to do.
WaitingMeetsIdle ==
  \A w \in Workers, fd \in Fds : Waits(w, fd) ~> (~Waits(w, fd) \/ idle[w] = <<>>)
=============================================================================
