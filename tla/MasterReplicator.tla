---------------------------- MODULE MasterReplicator ----------------------------
(***************************************************************************)
(* The primary side of replication.  One Poll at a time runs under the     *)
(* replicator's mutex, and so does Maintain, but client writes go on while *)
(* a Poll reads the slots: every read of a slot (its published sequence    *)
(* number, the ends of its log, its records, its snapshot) is a separate   *)
(* step.  A slot is the atomic one of AtomicSlot, which HashSlot is shown  *)
(* to implement, with its map represented as in ReplFrame.                 *)
(***************************************************************************)
EXTENDS ReplFrame, Binlog, TLC

CONSTANTS
    ReplicaIds,        \* the ids replicas present in their HELLO
    NoReplica,         \* an id the primary has no session for
    MaxFrames,         \* Poll's max_frames
    MaxLogsPerSlot,    \* records of one slot in one batch (128)
    MaxBatchBytes,     \* kMaxBatchPayloadBytes
    BinlogBudget,      \* global_binlog_budget_bytes_
    RecordBytes(_, _), \* estimated size of the n-th record of a slot
    SnapshotBytes(_, _)\* size of the snapshot of a slot after n writes

ASSUME LimitAssumption ==
    /\ MaxFrames \in Nat /\ MaxLogsPerSlot \in Nat
    /\ MaxBatchBytes \in Nat \ {0} /\ BinlogBudget \in Nat
    /\ \A s \in Slots, n \in 1 .. MaxSeq : RecordBytes(s, n) \in Nat
    /\ \A s \in Slots, n \in 0 .. MaxSeq : SnapshotBytes(s, n) \in Nat

VARIABLES
    gen,          \* which process of the primary is running (the epoch)
    seq,          \* published_seq_ of every slot
    log,          \* binlog of every slot
    sessions,     \* replicas_: the session of every replica id
    nextSession,  \* next_session_seq_
    poll          \* the Poll or Maintain that holds the mutex

slotVars == <<gen, seq, log>>
masterVars == <<gen, seq, log, sessions, nextSession, poll>>

ReplicaSlotState == [acked : 0 .. MaxSeq, sent : 0 .. MaxSeq, needSnapshot : BOOLEAN]

(* What the primary keeps for a replica id, which NoReplica is not.        *)
ReplicaSession ==
    [session : {NoSession} \cup (Nat \X ReplicaIds \X Nat),
     slots : [Slots -> ReplicaSlotState], nextSlot : Slots, reset : BOOLEAN]

ASSUME NoReplicaAssumption == NoReplica \notin ReplicaSession

FreshSession ==
    [session  |-> NoSession,
     slots    |-> [s \in Slots |-> [acked |-> 0, sent |-> 0, needSnapshot |-> FALSE]],
     nextSlot |-> 0,
     reset    |-> FALSE]

(* The locals of Poll: the HELLO, the loop it is in, its next read, the    *)
(* number of slots done in that loop, the slot the batch starts at, the    *)
(* values read so far and the batch built so far.                          *)
NoPoll == [loop |-> "none"]

StartPoll(hello) ==
    [loop |-> "hello", step |-> "published", i |-> 0, start |-> 0, hello |-> hello,
     published |-> 0, min |-> 0,
     frames |-> <<>>, bytes |-> 0, full |-> FALSE, completed |-> <<>>]

(* The locals of EnforceBudget: the next slot and the bytes still held.    *)
StartEviction(total) == [loop |-> "evict", i |-> 0, total |-> total]

MasterInit ==
    /\ gen = 1
    /\ seq = [s \in Slots |-> 0]
    /\ log = [s \in Slots |-> <<>>]
    /\ sessions = [id \in ReplicaIds |-> NoReplica]
    /\ nextSession = 1
    /\ poll = NoPoll

-----------------------------------------------------------------------------
(* A client write to slot s (AtomicSlot!Write).                            *)
WriteSlot(s) ==
    /\ seq[s] < MaxSeq
    /\ seq' = [seq EXCEPT ![s] = @ + 1]
    /\ log' = [log EXCEPT ![s] =
                 Append(@, [seq |-> seq[s] + 1, gen |-> gen,
                            bytes |-> RecordBytes(s, seq[s] + 1)])]
    /\ UNCHANGED <<gen, sessions, nextSession, poll>>

-----------------------------------------------------------------------------
(* Poll.                                                                   *)

MutexFree == poll.loop = "none"
Polling == poll.loop \in {"hello", "build"}
PollId == poll.hello.id
Session == sessions[PollId]

(* The slot the loop is at: HELLO positions are visited in order, the      *)
(* batch is built starting from next_slot.                                 *)
PollSlot ==
    IF poll.loop = "hello" THEN poll.i ELSE (poll.start + poll.i) % SlotCount

SlotState == Session.slots[PollSlot]

(* OnHelloUnlocked up to its loop: find or create the session, decide on   *)
(* a reset.                                                                *)
PollBegin(hello) ==
    LET id == hello.id
        known == sessions[id] # NoReplica
        old == IF known THEN sessions[id] ELSE FreshSession
        reset == old.session = NoSession \/ hello.session # old.session
    IN  /\ MutexFree
        /\ sessions' = [sessions EXCEPT ![id] =
                          [old EXCEPT !.reset = reset,
                                      !.session = IF reset
                                                  THEN SessionId(gen, id, nextSession)
                                                  ELSE @]]
        /\ nextSession' = IF reset THEN nextSession + 1 ELSE nextSession
        /\ poll' = StartPoll(hello)
        /\ UNCHANGED slotVars

(* The position the replica reports counts only without a reset.           *)
HelloPosition == IF Session.reset THEN 0 ELSE poll.hello.pos[PollSlot]

(* The sequence number whose presence in the log is in question.           *)
Wanted == (IF poll.loop = "hello" THEN HelloPosition ELSE SlotState.sent) + 1

NextPollSlot(p) ==
    IF p.i + 1 < SlotCount
    THEN [p EXCEPT !.i = @ + 1, !.step = "published"]
    ELSE IF p.loop = "hello"
    THEN [p EXCEPT !.loop = "build", !.i = 0, !.start = Session.nextSlot, !.step = "published"]
    ELSE [p EXCEPT !.step = "finish"]

(* The end of one round of the HELLO loop.                                 *)
SetHelloSlot(position, need) ==
    /\ sessions' = [sessions EXCEPT ![PollId].slots[PollSlot] =
                      [acked |-> position, sent |-> position, needSnapshot |-> need]]
    /\ poll' = NextPollSlot(poll)

(* Mutants: only the number of frames ends a batch; the slot after the     *)
(* last one is not the first.                                              *)
AtFrameLimit(p) == Len(p.frames) >= MaxFrames
SlotAfterUnwrapped(s) == s + 1

SlotAfter(s) == (s + 1) % SlotCount

(* A batch takes no more slots once it has its frames or its bytes.        *)
AtLimit(p) == Len(p.frames) >= MaxFrames \/ p.bytes >= MaxBatchBytes

(* A slot and its target added to what DONE reports.                       *)
AddCompleted(completed, s, target) ==
    [x \in DOMAIN completed \cup {s} |-> IF x = s THEN target ELSE completed[x]]

(* The end of one round of the batch loop, with the slot's state and the   *)
(* batch so far: note a full batch and where to resume, and report the     *)
(* target of every slot that does not wait for a snapshot.                 *)
EndRound(p, st, target, resume) ==
    LET filled == ~p.full /\ AtLimit(p)
        q == [p EXCEPT !.full = @ \/ filled,
                       !.completed = IF st.needSnapshot THEN @ ELSE AddCompleted(@, PollSlot, target)]
    IN  /\ sessions' = [sessions EXCEPT
                          ![PollId].slots[PollSlot] = st,
                          ![PollId].nextSlot =
                              IF filled THEN SlotAfter(PollSlot) ELSE resume]
        /\ poll' = NextPollSlot(q)

(* Snapshot().published_seq of the slot: the position check of the HELLO   *)
(* loop, the target of the batch loop.                                     *)
PollReadPublished ==
    /\ Polling
    /\ poll.step = "published"
    /\ LET p == [poll EXCEPT !.published = seq[PollSlot]]
       IN  \/ /\ poll.loop = "hello"
              /\ HelloPosition > seq[PollSlot]
              /\ SetHelloSlot(0, TRUE)
           \/ /\ poll.loop = "hello"
              /\ HelloPosition <= seq[PollSlot]
              /\ poll' = [p EXCEPT !.step = "min"]
              /\ UNCHANGED sessions
           \/ /\ poll.loop = "build"
              /\ poll.full \/ Len(poll.frames) >= MaxFrames
              /\ EndRound(p, SlotState, seq[PollSlot], Session.nextSlot)
           \/ /\ poll.loop = "build"
              /\ ~poll.full
              /\ Len(poll.frames) < MaxFrames
              /\ poll' = [p EXCEPT !.step = IF SlotState.needSnapshot THEN "snapshot" ELSE "min"]
              /\ UNCHANGED sessions
    /\ UNCHANGED <<slotVars, nextSession>>

(* HasBacklog reads the two ends of the log one after the other and, if it *)
(* saw an empty log, the published sequence number again.                  *)
PollReadMin ==
    /\ Polling
    /\ poll.step = "min"
    /\ poll' = [poll EXCEPT !.min = MinSeqOf(log[PollSlot]), !.step = "max"]
    /\ UNCHANGED <<slotVars, sessions, nextSession>>

UseBacklog(found) ==
    IF poll.loop = "hello"
    THEN SetHelloSlot(HelloPosition, ~found)
    ELSE /\ poll' = [poll EXCEPT !.step = IF found THEN "copy" ELSE "snapshot"]
         /\ UNCHANGED sessions

PollReadMax ==
    /\ Polling
    /\ poll.step = "max"
    /\ LET max == MaxSeqOf(log[PollSlot])
       IN  IF poll.min = 0 /\ max = 0
           THEN /\ poll' = [poll EXCEPT !.step = "empty"]
                /\ UNCHANGED sessions
           ELSE UseBacklog(poll.min <= Wanted /\ Wanted <= max + 1)
    /\ UNCHANGED <<slotVars, nextSession>>

(* Mutant: an empty log counts as a backlog.                               *)
PollTrustEmptyLog ==
    /\ Polling
    /\ poll.step = "empty"
    /\ UseBacklog(TRUE)
    /\ UNCHANGED <<slotVars, nextSession>>

PollEmptyLog ==
    /\ Polling
    /\ poll.step = "empty"
    /\ UseBacklog(Wanted > seq[PollSlot])
    /\ UNCHANGED <<slotVars, nextSession>>

(* The first frame of a batch always fits; the others within the budget.   *)
Fits(n, used, size) ==
    n = 0 \/ (used < MaxBatchBytes /\ size <= MaxBatchBytes - used)

(* Mutant: the image is labelled with the sequence number read before it.  *)
BuildRelabelledFrame(session, s) ==
    SnapshotFrame(session, s, poll.published, Prefix(gen, seq[s]))

(* Map and sequence number of the image are read together.                 *)
BuildSnapshotFrame(session, s) ==
    SnapshotFrame(session, s, seq[s], Prefix(gen, seq[s]))

PollSendSnapshot ==
    /\ Polling
    /\ poll.step = "snapshot"
    /\ LET frame == BuildSnapshotFrame(Session.session, PollSlot)
           size == SnapshotBytes(PollSlot, Len(frame.content))
       IN  IF Fits(Len(poll.frames), poll.bytes, size)
           THEN EndRound([poll EXCEPT !.frames = Append(@, frame), !.bytes = @ + size],
                         [SlotState EXCEPT !.sent = frame.base, !.needSnapshot = FALSE],
                         frame.base, Session.nextSlot)
           ELSE EndRound([poll EXCEPT !.full = TRUE], SlotState, poll.published, PollSlot)
    /\ UNCHANGED <<slotVars, nextSession>>

(* The records copied from the slot go into the batch one by one, up to    *)
(* the target; a record that is not the next one means that the log was    *)
(* cut, one that does not fit ends the batch.                              *)
WithinTarget(record) == record.seq <= poll.published
Consecutive(logs, i) == logs[i].seq = SlotState.sent + i
FitsAfter(logs, i) ==
    Fits(Len(poll.frames) + i - 1, poll.bytes + BytesOf(logs, i - 1), logs[i].bytes)

PollSendLogs ==
    /\ Polling
    /\ poll.step = "copy"
    /\ LET sent == SlotState.sent
           room == MaxFrames - Len(poll.frames)
           logs == CopyAfter(log[PollSlot], sent,
                             IF room < MaxLogsPerSlot THEN room ELSE MaxLogsPerSlot,
                             MaxBatchBytes - poll.bytes)
           Sendable(i) == WithinTarget(logs[i]) /\ Consecutive(logs, i) /\ FitsAfter(logs, i)
           count == CHOOSE n \in 0 .. Len(logs) :
                        /\ \A i \in 1 .. n : Sendable(i)
                        /\ n < Len(logs) => ~Sendable(n + 1)
           stopped == count < Len(logs) /\ WithinTarget(logs[count + 1])
           gap == stopped /\ ~Consecutive(logs, count + 1)
           toobig == stopped /\ ~gap
           new == [i \in 1 .. count |-> LogFrame(Session.session, PollSlot, logs[i])]
       IN  EndRound([poll EXCEPT !.frames = @ \o new,
                                 !.bytes = @ + BytesOf(logs, count),
                                 !.full = toobig],
                    [SlotState EXCEPT !.sent = sent + count, !.needSnapshot = @ \/ gap],
                    poll.published,
                    IF toobig THEN PollSlot ELSE Session.nextSlot)
    /\ UNCHANGED <<slotVars, nextSession>>

(* The batch of a finished Poll.                                           *)
Batch ==
    <<BeginFrame(Session.session, Session.reset)>>
        \o poll.frames
        \o <<DoneFrame(Session.session, poll.completed)>>

PollFinish ==
    /\ Polling
    /\ poll.step = "finish"
    /\ poll' = NoPoll
    /\ UNCHANGED <<slotVars, sessions, nextSession>>

-----------------------------------------------------------------------------
(* Maintain: CollectGarbage, then EnforceBudget.                           *)

Known == {id \in ReplicaIds : sessions[id] # NoReplica}

(* Mutant: what was sent counts as acknowledged.                           *)
MinSent(s) ==
    CHOOSE n \in {sessions[id].slots[s].sent : id \in Known} :
        \A id \in Known : n <= sessions[id].slots[s].sent

(* Records that every known replica has acknowledged are dropped.          *)
MinAcked(s) ==
    CHOOSE n \in {sessions[id].slots[s].acked : id \in Known} :
        \A id \in Known : n <= sessions[id].slots[s].acked

CollectGarbage ==
    [s \in Slots |-> IF Known = {} THEN log[s] ELSE AckThrough(log[s], MinAcked(s))]

(* EnforceBudget visits the slots in order, each of which loses its whole  *)
(* log, until what was counted at its start, less what it dropped, is      *)
(* within the budget.                                                      *)
TotalBytes(logs) ==
    SumTo([n \in 1 .. SlotCount |-> RetainedBytes(logs[n - 1])], SlotCount)

Maintain ==
    LET logs == CollectGarbage
    IN  /\ MutexFree
        /\ log' = logs
        /\ poll' = IF TotalBytes(logs) > BinlogBudget
                   THEN StartEviction(TotalBytes(logs))
                   ELSE NoPoll
        /\ UNCHANGED <<gen, seq, sessions, nextSession>>

(* A replica that had not acknowledged all of the dropped records needs a  *)
(* snapshot of the slot.                                                   *)
EvictFrom(session, s, through) ==
    IF session.slots[s].acked < through
    THEN [session EXCEPT !.slots[s].needSnapshot = TRUE,
                         !.slots[s].sent = session.slots[s].acked]
    ELSE session

EvictSlot ==
    /\ poll.loop = "evict"
    /\ LET s == poll.i
           removed == RetainedBytes(log[s])
           left == IF removed > poll.total THEN 0 ELSE poll.total - removed
       IN  /\ log' = [log EXCEPT ![s] = <<>>]
           /\ sessions' = [id \in ReplicaIds |->
                             IF id \in Known
                             THEN EvictFrom(sessions[id], s, MaxSeqOf(log[s]))
                             ELSE sessions[id]]
           /\ poll' = IF s + 1 < SlotCount /\ left > BinlogBudget
                      THEN [poll EXCEPT !.i = @ + 1, !.total = left]
                      ELSE NoPoll
    /\ UNCHANGED <<gen, seq, nextSession>>

(* The primary crashes and comes back empty, with a new epoch.             *)
MasterRestart ==
    /\ gen' = gen + 1
    /\ seq' = [s \in Slots |-> 0]
    /\ log' = [s \in Slots |-> <<>>]
    /\ sessions' = [id \in ReplicaIds |-> NoReplica]
    /\ nextSession' = 1
    /\ poll' = NoPoll
=============================================================================
