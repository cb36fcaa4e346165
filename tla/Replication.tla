------------------------------- MODULE Replication -------------------------------
(***************************************************************************)
(* A primary and its replicas.  Every replica repeats PollReplicaOnce: it  *)
(* connects, sends a HELLO with its session and positions, applies the     *)
(* frames of the answer one by one and closes the connection.  It gives up *)
(* at any point after a timeout or a broken connection; the primary may    *)
(* still serve the abandoned HELLO, at any later time.  Replicas and the   *)
(* primary crash and come back with nothing but their configuration.       *)
(***************************************************************************)
EXTENDS MasterReplicator, SlaveReplicator, Bags

CONSTANTS
    Replicas,     \* replica processes
    IdOf,         \* the --replica-id each was started with
    MaxGen,       \* bound: processes of the primary
    MaxSessions,  \* bound: sessions one process of the primary opens
    MaxFaults     \* bound: timeouts and crashes

ASSUME ReplicaAssumption == IdOf \in [Replicas -> ReplicaIds]

ASSUME BoundAssumption ==
    MaxGen \in Nat \ {0} /\ MaxSessions \in Nat /\ MaxFaults \in Nat

VARIABLES
    rep,      \* the state of every replica
    link,     \* the connection of every replica to the primary
    stale,    \* bag of abandoned HELLOs the primary may still read
    faults    \* number of timeouts and crashes so far

vars == <<masterVars, rep, link, stale, faults>>

(* A connection: idle (none), sent (HELLO on its way), answering (Poll is  *)
(* working on it), reading (no frame read yet), started (BEGIN was read),  *)
(* lost (the primary died before it answered).  The floor records the      *)
(* published sequence numbers of the primary when the HELLO was sent: no   *)
(* action reads it.                                                        *)
Idle == [phase |-> "idle"]

Phases == {"idle", "sent", "answering", "reading", "started", "lost"}

Init ==
    /\ MasterInit
    /\ rep = [r \in Replicas |-> FreshReplica]
    /\ link = [r \in Replicas |-> Idle]
    /\ stale = EmptyBag
    /\ faults = 0

-----------------------------------------------------------------------------
(* Client writes on the primary, and its background thread.                *)
Write(s) ==
    /\ WriteSlot(s)
    /\ UNCHANGED <<rep, link, stale, faults>>

Maintenance ==
    /\ Maintain \/ EvictSlot
    /\ UNCHANGED <<rep, link, stale, faults>>

-----------------------------------------------------------------------------
(* A replica sends its HELLO.                                              *)
SendHello(r) ==
    /\ link[r].phase = "idle"
    /\ link' = [link EXCEPT ![r] =
                  [phase |-> "sent",
                   hello |-> HelloFrame(IdOf[r], rep[r].session, ReportedPositions(rep[r])),
                   floor |-> seq]]
    /\ UNCHANGED <<masterVars, rep, stale, faults>>

(* The primary reads a HELLO and enters Poll, for a replica that waits or  *)
(* for one that no longer does.                                            *)
ServeHello(r) ==
    /\ link[r].phase = "sent"
    /\ PollBegin(link[r].hello)
    /\ nextSession' <= MaxSessions + 1
    /\ link' = [link EXCEPT ![r] = [phase |-> "answering", floor |-> @.floor]]
    /\ UNCHANGED <<rep, stale, faults>>

ServeStaleHello ==
    /\ \E hello \in BagToSet(stale) :
        /\ PollBegin(hello)
        /\ nextSession' <= MaxSessions + 1
        /\ stale' = stale (-) SetToBag({hello})
    /\ UNCHANGED <<rep, link, faults>>

PollStep ==
    /\ \/ PollReadPublished
       \/ PollReadMin
       \/ PollReadMax
       \/ PollEmptyLog
       \/ PollSendSnapshot
       \/ PollSendLogs
    /\ UNCHANGED <<rep, link, stale, faults>>

(* The answer goes to the replica that waits for this Poll, if any.        *)
Answer ==
    /\ PollFinish
    /\ link' = [r \in Replicas |->
                  IF link[r].phase = "answering"
                  THEN [phase |-> "reading", frames |-> Batch, floor |-> link[r].floor]
                  ELSE link[r]]
    /\ UNCHANGED <<rep, stale, faults>>

(* A replica applies the next frame; one out of place, one it rejects and  *)
(* DONE end the exchange.                                                  *)
Receive(r) ==
    /\ link[r].phase \in {"reading", "started"}
    /\ LET frame == Head(link[r].frames)
           inPlace == (frame.type = "BEGIN") = (link[r].phase = "reading")
           result == EnqueueFrame(rep[r], frame)
           goesOn == inPlace /\ result.ok /\ frame.type # "DONE"
       IN  /\ rep' = IF inPlace THEN [rep EXCEPT ![r] = result.replica] ELSE rep
           /\ link' = [link EXCEPT ![r] =
                         IF goesOn
                         THEN [phase |-> "started", frames |-> Tail(@.frames), floor |-> @.floor]
                         ELSE Idle]
    /\ UNCHANGED <<masterVars, stale, faults>>

-----------------------------------------------------------------------------
(* Faults.                                                                 *)

Abandon(r) ==
    /\ stale' = IF link[r].phase = "sent"
                THEN stale (+) SetToBag({link[r].hello})
                ELSE stale
    /\ link' = [link EXCEPT ![r] = Idle]

(* A timeout or a broken connection, at any point of the exchange.         *)
GiveUp(r) ==
    /\ faults < MaxFaults
    /\ link[r].phase \notin {"idle", "lost"}
    /\ faults' = faults + 1
    /\ Abandon(r)
    /\ UNCHANGED <<masterVars, rep>>

(* The end of a connection whose primary is gone.                          *)
Disconnect(r) ==
    /\ link[r].phase = "lost"
    /\ Abandon(r)
    /\ UNCHANGED <<masterVars, rep, faults>>

RestartReplica(r) ==
    /\ faults < MaxFaults
    /\ faults' = faults + 1
    /\ rep' = [rep EXCEPT ![r] = FreshReplica]
    /\ Abandon(r)
    /\ UNCHANGED masterVars

(* The primary restarts: what it had written may still be read.            *)
RestartMaster ==
    /\ faults < MaxFaults
    /\ gen < MaxGen
    /\ faults' = faults + 1
    /\ MasterRestart
    /\ link' = [r \in Replicas |->
                  IF link[r].phase \in {"sent", "answering"} THEN [phase |-> "lost"] ELSE link[r]]
    /\ stale' = EmptyBag
    /\ UNCHANGED rep

-----------------------------------------------------------------------------
Next ==
    \/ \E s \in Slots : Write(s)
    \/ Maintenance
    \/ \E r \in Replicas :
        \/ SendHello(r)
        \/ ServeHello(r)
        \/ Receive(r)
        \/ GiveUp(r)
        \/ Disconnect(r)
        \/ RestartReplica(r)
    \/ ServeStaleHello
    \/ PollStep
    \/ Answer
    \/ RestartMaster

Spec == Init /\ [][Next]_vars

(* A replica keeps polling, a poll that was begun is finished, frames that *)
(* were sent are read, and a broken connection is noticed.                 *)
(* Nothing is assumed of faults, of new writes, of Maintain or of stale    *)
(* HELLOs.                                                                 *)
Fairness ==
    /\ \A r \in Replicas :
        /\ WF_vars(SendHello(r))
        /\ WF_vars(ServeHello(r))
        /\ WF_vars(Receive(r))
        /\ WF_vars(Disconnect(r))
    /\ WF_vars(PollStep)
    /\ WF_vars(Answer)
    /\ WF_vars(EvictSlot /\ UNCHANGED <<rep, link, stale, faults>>)

FairSpec == Spec /\ Fairness

-----------------------------------------------------------------------------
(* Properties.                                                             *)

Generation(r) == rep[r].session[1]

Following(r) == rep[r].session # NoSession /\ Generation(r) = gen

(* Every variable holds a value of its type: positions, sequence numbers   *)
(* and session numbers stay within their ranges at every point of Poll.    *)
TypeOK ==
    /\ gen \in 1 .. MaxGen
    /\ seq \in [Slots -> 0 .. MaxSeq]
    /\ \A s \in Slots : log[s] \in Seq([seq : 1 .. MaxSeq, gen : {gen}, bytes : Nat])
    /\ nextSession \in 1 .. MaxSessions + 1
    /\ \A id \in ReplicaIds : sessions[id] # NoReplica =>
        /\ sessions[id].slots \in [Slots -> ReplicaSlotState]
        /\ sessions[id].nextSlot \in Slots
    /\ Polling => /\ poll.published \in 0 .. MaxSeq
                  /\ poll.start \in Slots
                  /\ DOMAIN poll.completed \subseteq Slots
    /\ \A r \in Replicas :
        /\ rep[r].slots \in [Slots -> SlotApplyState]
        /\ link[r].phase \in Phases
    /\ faults \in 0 .. MaxFaults

(* Whatever is lost, repeated or interrupted, the content of a slot of a   *)
(* replica is exactly what the first applied_seq writes of the primary it  *)
(* follows produced: no record is skipped, applied twice, or applied on    *)
(* top of a snapshot that already has it (slave_replicator.cpp, ApplyLog   *)
(* and ApplySnapshot, fed by master_replicator.cpp, BuildFrames).          *)
ReplicaIsPrefix ==
    \A r \in Replicas : rep[r].session # NoSession =>
        \A s \in Slots : rep[r].content[s] = Prefix(Generation(r), rep[r].slots[s].applied)

(* A slot becomes readable on a replica only if it has every write that    *)
(* was published when the replica sent the HELLO of this exchange (the     *)
(* targets BuildFrames reports in DONE).                                   *)
OnlineIsFresh ==
    [][\A r \in Replicas : \A s \in Slots :
        (rep[r].slots[s].state # "Online" /\ rep'[r].slots[s].state = "Online")
            => rep'[r].slots[s].applied >= link[r].floor[s]]_vars

(* A slot that a batch has begun to change is not readable before a DONE:  *)
(* in the middle of a batch the content of a readable slot is the content  *)
(* it had when it became readable.                                         *)
PartialIsHidden ==
    [][\A r \in Replicas : \A s \in Slots :
        rep'[r].content[s] # rep[r].content[s] => rep'[r].slots[s].state # "Online"]_vars

(* A replica that follows the primary's current session for its id, and a  *)
(* slot of which it has data that it can go on from.                       *)
Current(r) ==
    /\ sessions[IdOf[r]] # NoReplica
    /\ rep[r].session = sessions[IdOf[r]].session

HasData(r, s) == rep[r].slots[s].applied > 0 /\ ~rep[r].slots[s].needSnapshot

(* Without a budget, garbage collection never drops a record that a        *)
(* replica still needs to go on from its position: a slot it has data for  *)
(* in the current session is served from the log from then on, never from  *)
(* another snapshot (CollectGarbage trims through the smallest             *)
(* acknowledged position, which a late HELLO may move back).               *)
BacklogRetained ==
    \A r \in Replicas : Current(r) =>
        \A s \in Slots : HasData(r, s) =>
            rep[r].slots[s].applied + 1 .. seq[s]
                \subseteq {log[s][i].seq : i \in 1 .. Len(log[s])}

(* kMaxBatchPayloadBytes - payload_bytes cannot wrap around: a batch at or *)
(* over its budget, by an oversized first frame, takes no further slot.    *)
NoBudgetUnderflow ==
    (Polling /\ poll.loop = "build" /\ poll.step \in {"min", "max", "empty", "copy", "snapshot"})
        => poll.bytes < MaxBatchBytes /\ Len(poll.frames) < MaxFrames

(* When writes and faults have stopped, every slot of every replica        *)
(* becomes readable with the content of the primary, and stays so.         *)
Synced(r) ==
    /\ Following(r)
    /\ \A s \in Slots : /\ rep[r].slots[s].state = "Online"
                        /\ rep[r].content[s] = Prefix(gen, seq[s])

Converges == \A r \in Replicas : <>[]Synced(r)
=============================================================================
