-------------------------------- MODULE HashSlot --------------------------------
(***************************************************************************)
(* One hash slot of the primary, with the threads that use it: clients     *)
(* that execute write commands, the expiry sweeper, and the replicator     *)
(* that trims the binlog.                                                  *)
(*                                                                         *)
(* A write holds write_mutex_ from the moment it reads the map until it    *)
(* has published the next one, but the log append and the publication are  *)
(* different steps, and readers of the map (Get, Snapshot) take only       *)
(* value_mutex_: they can run between the two.  Every section under        *)
(* value_mutex_ is one step here.  A command is stamped with the clock     *)
(* before it waits for write_mutex_, so commands may take effect in        *)
(* another order than their timestamps.                                    *)
(***************************************************************************)
EXTENDS SlotCommands, Binlog

CONSTANTS
    Clients,      \* threads that execute client commands
    Sweeper,      \* the background thread that runs ExpireSweeper
    NoThread,     \* nobody holds write_mutex_
    Commands,     \* the client commands of the instance
    MaxKeys,      \* keys one DeleteExpired call may collect
    MaxTime,      \* bound: last value of the clock
    MaxCalls      \* bound: commands the clients start

Threads == Clients \cup {Sweeper}

ASSUME ThreadAssumption == Sweeper \notin Clients /\ NoThread \notin Threads
ASSUME CommandAssumption == Commands \subseteq {c \in Command : c.op # "SWEEP"}
ASSUME BoundAssumption ==
    /\ MaxTime \in Nat \ {0}
    /\ MaxTime <= MaxU64
    /\ MaxCalls \in Nat
    /\ MaxKeys \in Nat

VARIABLES
    objMap,        \* redis_obj_map_, guarded by value_mutex_
    publishedSeq,  \* published_seq_, guarded by value_mutex_
    slotSeq,       \* slot_seq_, guarded by write_mutex_
    binlog,        \* binlog_buffer_, guarded by write_mutex_
    writeMutex,    \* the holder of write_mutex_
    pc,            \* what each thread does next
    cmd,           \* the command each thread executes
    now,           \* the time each thread was stamped with
    next,          \* the outcome each thread computed under write_mutex_
    expiredKeys,   \* keys the current DeleteExpired call still has to visit
    clock,         \* common::NowMicros()
    calls,         \* commands started so far
    history        \* ghost: history[n + 1] is the map published with seq n

slotVars == <<objMap, publishedSeq, slotSeq, binlog, writeMutex>>
vars == <<slotVars, pc, cmd, now, next, expiredKeys, clock, calls, history>>

NoCommand == Cmd("DEL", CHOOSE k \in Keys : TRUE, {})
NoOutcome == [map |-> EmptyMap, cmd |-> NoCommand, deadline |-> 0]

Init ==
    /\ objMap = EmptyMap
    /\ publishedSeq = 0
    /\ slotSeq = 0
    /\ binlog = <<>>
    /\ writeMutex = NoThread
    /\ pc = [t \in Threads |-> "idle"]
    /\ cmd = [t \in Threads |-> NoCommand]
    /\ now = [t \in Threads |-> 1]
    /\ next = [t \in Threads |-> NoOutcome]
    /\ expiredKeys = {}
    /\ clock = 1
    /\ calls = 0
    /\ history = <<EmptyMap>>

-----------------------------------------------------------------------------
(* The wall clock advances.                                                *)
Tick ==
    /\ clock < MaxTime
    /\ clock' = clock + 1
    /\ UNCHANGED <<slotVars, pc, cmd, now, next, expiredKeys, calls, history>>

(* A client's command arrives and is stamped with the current time.        *)
Call(t) ==
    /\ pc[t] = "idle"
    /\ calls < MaxCalls
    /\ \E c \in Commands : cmd' = [cmd EXCEPT ![t] = c]
    /\ now' = [now EXCEPT ![t] = clock]
    /\ pc' = [pc EXCEPT ![t] = "lock"]
    /\ calls' = calls + 1
    /\ UNCHANGED <<slotVars, next, expiredKeys, clock, history>>

(* SweepOnce is stamped before it comes to this slot.                      *)
SweepOnce ==
    /\ pc[Sweeper] = "idle"
    /\ expiredKeys = {}
    /\ now' = [now EXCEPT ![Sweeper] = clock]
    /\ UNCHANGED <<slotVars, pc, cmd, next, expiredKeys, clock, calls, history>>

(* DeleteExpired copies the map under value_mutex_ alone and collects at   *)
(* most MaxKeys expired keys (which ones depends on the map's order).      *)
ExpiredIn(map, t) == {k \in Keys : map[k] # None /\ IsExpired(map[k], t)}

SweepSnapshot ==
    /\ pc[Sweeper] = "idle"
    /\ expiredKeys = {}
    /\ LET expired == ExpiredIn(objMap, now[Sweeper])
       IN  \E S \in SUBSET expired :
            /\ Cardinality(S) <= MaxKeys
            /\ S = expired \/ Cardinality(S) = MaxKeys
            /\ S # {}
            /\ expiredKeys' = S
    /\ UNCHANGED <<slotVars, pc, cmd, now, next, clock, calls, history>>

(* ... and then visits them one at a time, each under write_mutex_.        *)
SweepNextKey ==
    /\ pc[Sweeper] = "idle"
    /\ \E k \in expiredKeys :
        /\ cmd' = [cmd EXCEPT ![Sweeper] = Cmd("SWEEP", k, {})]
        /\ expiredKeys' = expiredKeys \ {k}
    /\ pc' = [pc EXCEPT ![Sweeper] = "lock"]
    /\ UNCHANGED <<slotVars, now, next, clock, calls, history>>

-----------------------------------------------------------------------------
(* The writer skeleton shared by Mutate, Del, Expire and DeleteExpired.    *)

(* The call returns and its locals are gone; the sweeper's time stamp is   *)
(* shared by all the keys of one DeleteExpired call.                       *)
Return(t) ==
    /\ pc' = [pc EXCEPT ![t] = "idle"]
    /\ cmd' = [cmd EXCEPT ![t] = NoCommand]
    /\ next' = [next EXCEPT ![t] = NoOutcome]
    /\ now' = IF t = Sweeper THEN now ELSE [now EXCEPT ![t] = 1]

(* write_mutex_ is acquired, the map is read and the next one computed; a  *)
(* command that changes nothing returns here, without using a sequence     *)
(* number.                                                                 *)
ReturnUnchanged(t) ==
    /\ pc[t] = "lock"
    /\ writeMutex = NoThread
    /\ Outcomes(objMap, cmd[t], now[t]) = {}
    /\ Return(t)
    /\ UNCHANGED <<slotVars, expiredKeys, clock, calls, history>>

(* Mutant: the map is read before write_mutex_ is free.                    *)
ComputeUnlocked(t) ==
    /\ pc[t] = "lock"
    /\ \E o \in Outcomes(objMap, cmd[t], now[t]) : next' = [next EXCEPT ![t] = o]
    /\ writeMutex' = t
    /\ pc' = [pc EXCEPT ![t] = "append"]
    /\ UNCHANGED <<objMap, publishedSeq, slotSeq, binlog,
                   cmd, now, expiredKeys, clock, calls, history>>

LockAndCompute(t) ==
    /\ pc[t] = "lock"
    /\ writeMutex = NoThread
    /\ \E o \in Outcomes(objMap, cmd[t], now[t]) : next' = [next EXCEPT ![t] = o]
    /\ writeMutex' = t
    /\ pc' = [pc EXCEPT ![t] = "append"]
    /\ UNCHANGED <<objMap, publishedSeq, slotSeq, binlog,
                   cmd, now, expiredKeys, clock, calls, history>>

(* Mutants: published_seq_ moves with slot_seq_, before the map; the       *)
(* record carries the time at which it is logged.                          *)
AppendLogAndPublishSeq(t) ==
    /\ pc[t] = "append"
    /\ binlog' = Append(binlog, Record(slotSeq + 1, next[t], now[t]))
    /\ slotSeq' = slotSeq + 1
    /\ publishedSeq' = slotSeq + 1
    /\ pc' = [pc EXCEPT ![t] = "publish"]
    /\ UNCHANGED <<objMap, writeMutex, cmd, now, next, expiredKeys, clock, calls, history>>

AppendLogStampedLate(t) ==
    /\ pc[t] = "append"
    /\ binlog' = Append(binlog, Record(slotSeq + 1, next[t], clock))
    /\ slotSeq' = slotSeq + 1
    /\ pc' = [pc EXCEPT ![t] = "publish"]
    /\ UNCHANGED <<objMap, publishedSeq, writeMutex,
                   cmd, now, next, expiredKeys, clock, calls, history>>

(* The record gets the next sequence number and goes to the binlog.        *)
AppendLog(t) ==
    /\ pc[t] = "append"
    /\ binlog' = Append(binlog, Record(slotSeq + 1, next[t], now[t]))
    /\ slotSeq' = slotSeq + 1
    /\ pc' = [pc EXCEPT ![t] = "publish"]
    /\ UNCHANGED <<objMap, publishedSeq, writeMutex,
                   cmd, now, next, expiredKeys, clock, calls, history>>

(* Map and published_seq_ change together under value_mutex_; the function *)
(* returns and releases write_mutex_.                                      *)
Publish(t) ==
    /\ pc[t] = "publish"
    /\ objMap' = next[t].map
    /\ publishedSeq' = slotSeq
    /\ writeMutex' = NoThread
    /\ Return(t)
    /\ history' = Append(history, objMap')
    /\ UNCHANGED <<slotSeq, binlog, expiredKeys, clock, calls>>

-----------------------------------------------------------------------------
(* Mutant: the log is trimmed without write_mutex_.                        *)
AckLogsUnlocked(seq) ==
    /\ binlog # <<>>
    /\ binlog' = AckThrough(binlog, seq)
    /\ UNCHANGED <<objMap, publishedSeq, slotSeq, writeMutex,
                   pc, cmd, now, next, expiredKeys, clock, calls, history>>

(* The replicator trims the log (CollectGarbage, EnforceBudget).           *)
AckLogsThrough(seq) ==
    /\ writeMutex = NoThread
    /\ binlog # <<>>
    /\ binlog' = AckThrough(binlog, seq)
    /\ UNCHANGED <<objMap, publishedSeq, slotSeq, writeMutex,
                   pc, cmd, now, next, expiredKeys, clock, calls, history>>

Step(t) ==
    \/ ReturnUnchanged(t)
    \/ LockAndCompute(t)
    \/ AppendLog(t)
    \/ Publish(t)

Next ==
    \/ Tick
    \/ \E t \in Clients : Call(t)
    \/ SweepOnce
    \/ SweepSnapshot
    \/ SweepNextKey
    \/ \E t \in Threads : Step(t)
    \/ \E seq \in 1 .. slotSeq : AckLogsThrough(seq)

Spec == Init /\ [][Next]_vars

(* Every thread keeps running, and so does the clock.                      *)
Fairness ==
    /\ WF_vars(Tick)
    /\ \A t \in Threads : WF_vars(Step(t))
    /\ WF_vars(SweepOnce)
    /\ WF_vars(SweepSnapshot)
    /\ WF_vars(SweepNextKey)

FairSpec == Spec /\ Fairness

-----------------------------------------------------------------------------
(* Every variable holds a value of its type; in particular a deadline, a   *)
(* time stamp and the sum of the two stay within 64 bits.                  *)
TypeOK ==
    /\ objMap \in ObjectMap
    /\ publishedSeq \in Nat
    /\ slotSeq \in Nat
    /\ binlog \in Seq(BinlogRecord)
    /\ writeMutex \in Threads \cup {NoThread}
    /\ pc \in [Threads -> {"idle", "lock", "append", "publish"}]
    /\ cmd \in [Threads -> Command]
    /\ now \in [Threads -> Deadlines]
    /\ next \in [Threads -> Outcome]
    /\ expiredKeys \in SUBSET Keys
    /\ clock \in 1 .. MaxTime
    /\ calls \in 0 .. MaxCalls
    /\ history \in Seq(ObjectMap)

(* A snapshot (objMap, publishedSeq) can be taken in any state: the map is *)
(* always the one that write number publishedSeq produced, and it lags     *)
(* behind slot_seq_ by at most the write that is about to be published.    *)
SnapshotConsistent ==
    /\ Len(history) = publishedSeq + 1
    /\ objMap = history[publishedSeq + 1]
    /\ slotSeq = publishedSeq + (IF \E t \in Threads : pc[t] = "publish" THEN 1 ELSE 0)

(* The retained binlog has no gap and reaches up to slot_seq_: a replica   *)
(* at position p is served iff the buffer starts at or before p + 1.       *)
LogContiguous == Gapless(binlog, slotSeq)

(* Every retained record whose write is published, replayed by a replica   *)
(* on the map the primary had before that write, yields exactly the map    *)
(* the primary published, and never an error reply: expired objects,       *)
(* random picks and relative deadlines do not make a replica diverge.      *)
ReplayMatches ==
    \A i \in 1 .. Len(binlog) :
        LET r == binlog[i]
        IN  r.seq < Len(history) =>
                ApplyRecord(history[r.seq], r) = {history[r.seq + 1]}

(* A write changes one key and uses one sequence number: it never undoes a *)
(* concurrent writer's change to another key.                              *)
OneKeyPerWrite ==
    [][objMap' # objMap =>
           /\ publishedSeq' = publishedSeq + 1
           /\ \E k \in Keys : \A j \in Keys \ {k} : objMap'[j] = objMap[j]]_vars

(* A slot never stores an empty container: the last member that SREM,      *)
(* SPOP, HDEL or ZREM takes away takes the key with it, and no command     *)
(* creates a container without a member.                                   *)
NoEmptyContainer == \A k \in Keys : objMap[k] # None => HasContent(objMap[k])

(* An object that is expired but not yet swept is as good as gone: what a  *)
(* writer is about to publish under the key is what it would publish had   *)
(* the key been absent, so neither members nor deadline come back.         *)
ExpiredIsAbsent ==
    \A t \in Clients :
        LET k == cmd[t].key
        IN  (/\ pc[t] \in {"append", "publish"}
             /\ objMap[k] # None
             /\ IsExpired(objMap[k], now[t])) =>
                \E o \in Outcomes([objMap EXCEPT ![k] = None], cmd[t], now[t]) :
                    next[t] = o

(* The sweeper removes only what is expired at the moment it removes it: a *)
(* key whose deadline was extended or that was written again after the     *)
(* sweeper collected it survives.                                          *)
SweptOnlyExpired ==
    [][\A k \in Keys :
           (/\ pc[Sweeper] = "publish"
            /\ pc'[Sweeper] = "idle"
            /\ objMap'[k] # objMap[k]) => IsExpired(objMap[k], clock)]_vars

(* Under the fairness above, an object that is past its deadline is        *)
(* eventually removed from memory or written again.                        *)
ExpiredIsSwept ==
    \A k \in Keys :
        (k \in ExpiredIn(objMap, clock)) ~> (k \notin ExpiredIn(objMap, clock))

-----------------------------------------------------------------------------
(* The abstract slot, seen through published map and sequence number and   *)
(* the records of the published writes.                                    *)
Issued == Commands \cup {Cmd("SWEEP", k, {}) : k \in Keys}

Atomic == INSTANCE AtomicSlot
    WITH EmptyMap <- EmptyMap,
         Outcomes <- Outcomes,
         Record <- Record,
         Issued <- Issued,
         Stamps <- 1 .. MaxTime,
         map <- objMap,
         seq <- publishedSeq,
         log <- SubSeq(binlog, 1, Len(binlog) - (slotSeq - publishedSeq))

(* The slot with its two mutexes and its three-step writes implements the  *)
(* atomic one: whoever reads map and sequence number together, or the log  *)
(* under write_mutex_, sees every write happen at once.                    *)
ImplementsAtomicSlot == Atomic!ASpec

-----------------------------------------------------------------------------
(* The inductive invariant behind the theorems of HashSlotProofs.          *)

(* Who is between reading the map and publishing holds write_mutex_.       *)
MutexHeld ==
    \A t \in Threads : pc[t] \in {"append", "publish"} <=> writeMutex = t

(* The outcome a writer is about to log or publish is still an outcome of  *)
(* its command on the current map: the map it read is not stale.           *)
PendingIsCurrent ==
    \A t \in Threads :
        pc[t] \in {"append", "publish"} => next[t] \in Outcomes(objMap, cmd[t], now[t])

(* A logged but unpublished write is the last record of the binlog.        *)
PendingIsLogged ==
    \A t \in Threads :
        pc[t] = "publish" =>
            /\ Len(binlog) > 0
            /\ binlog[Len(binlog)] = Record(slotSeq, next[t], now[t])

StampsAndCommands ==
    \A t \in Threads :
        /\ now[t] \in 1 .. MaxTime
        /\ pc[t] # "idle" => cmd[t] \in Issued

(* The sweeper only deletes, with a time stamp that is not in the future.  *)
SweeperInv ==
    /\ now[Sweeper] <= clock
    /\ pc[Sweeper] # "idle" => cmd[Sweeper].op = "SWEEP"

(* What ties the threads, the binlog and the published map together at     *)
(* every step of a write: the mutex discipline, the pending outcome and    *)
(* its record, the numbering of the log and of the published maps.         *)
SlotInv ==
    /\ MutexHeld
    /\ PendingIsCurrent
    /\ PendingIsLogged
    /\ StampsAndCommands
    /\ SnapshotConsistent
    /\ LogContiguous
    /\ Len(binlog) <= slotSeq
=============================================================================
