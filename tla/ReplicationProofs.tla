--------------------------- MODULE ReplicationProofs ---------------------------
(***************************************************************************)
(* Theorems about Replication for every number of slots, replicas, writes, *)
(* faults and sessions and every limit of a batch: types and budget, that  *)
(* replicas hold prefixes of their primary, that a changing slot is hidden *)
(* and an online one fresh, and that garbage collection keeps the records  *)
(* a replica still needs.                                                  *)
(***************************************************************************)
EXTENDS Replication, InductionProofs

(* Sums of natural numbers are natural numbers.                            *)
LEMMA SumToType ==
    ASSUME NEW n \in Nat, NEW f \in [1 .. n -> Nat]
    PROVE  SumTo(f, n) \in Nat
<1> DEFINE Sums(g) == g = [i \in 0 .. n |-> IF i = 0 THEN 0 ELSE g[i - 1] + f[i]]
           sum == CHOOSE g : Sums(g)
           step == [p \in Nat \X Nat |-> IF p[1] \in 1 .. n THEN p[2] + f[p[1]] ELSE 0]
<1>1. \E g : Sums(g)
  <2>1. step \in [Nat \X Nat -> Nat]
    OBVIOUS
  <2>2. PICK g \in [0 .. n -> Nat] : IsRecursion(g, n, 0, step)
    <3> HIDE DEF step
    <3> QED
      BY <2>1, PartialRecursion
  <2>3. ASSUME NEW i \in 0 .. n, i # 0
        PROVE  step[<<i, g[i - 1]>>] = g[i - 1] + f[i]
    BY <2>2, <2>3
  <2>4. Sums(g)
    <3> HIDE DEF step
    <3>1. \A i \in 0 .. n : g[i] = IF i = 0 THEN 0 ELSE g[i - 1] + f[i]
      BY <2>2, <2>3 DEF IsRecursion
    <3> QED
      BY <2>2, <3>1
  <2> QED
    BY <2>4
<1>2. Sums(sum)
  BY <1>1
<1> DEFINE S == {i \in Nat : i \in 0 .. n => sum[i] \in Nat}
<1> HIDE DEF sum
<1>3. 0 \in S
  BY <1>2
<1>4. ASSUME NEW i \in Nat, i \in S
      PROVE  i + 1 \in S
  <2>1. i + 1 \in 0 .. n => sum[i + 1] = sum[i] + f[i + 1]
    BY <1>2
  <2> QED
    BY <1>4, <2>1
<1>5. n \in S
  <2> HIDE DEF S
  <2> QED
    BY <1>3, <1>4, SetInduction
<1> QED
  BY <1>5 DEF SumTo, sum

-----------------------------------------------------------------------------
(* The sets the variables draw their values from.  A record carries the    *)
(* process that wrote it; a frame that carries data says so truthfully: a  *)
(* record belongs to the process that opened the session, and an image is  *)
(* what the writes up to its base produced in that process.                *)
Records(g) == [seq : 1 .. MaxSeq, gen : {g}, bytes : Nat]

SessionsOf(g) == {g} \X ReplicaIds \X Nat
SessionIds == (1 .. MaxGen) \X ReplicaIds \X Nat

Hellos == [id : ReplicaIds, session : SessionIds \cup {NoSession}, pos : [Slots -> Positions]]

Contents == Seq(Nat \X Nat)
Completions == UNION {[D -> 0 .. MaxSeq] : D \in SUBSET Slots}

BeginFrames == [type : {"BEGIN"}, session : SessionIds, reset : BOOLEAN]
SnapshotFrames ==
    {f \in [type : {"SNAPSHOT"}, session : SessionIds, slot : Slots,
            base : 0 .. MaxSeq, content : Contents] :
        f.content = Prefix(f.session[1], f.base)}
LogFrames ==
    {f \in [type : {"LOG"}, session : SessionIds, slot : Slots,
            record : [seq : 1 .. MaxSeq, gen : 1 .. MaxGen, bytes : Nat]] :
        f.record.gen = f.session[1]}
DoneFrames == [type : {"DONE"}, session : SessionIds, completed : Completions]
DataFrames == SnapshotFrames \cup LogFrames
Frames == BeginFrames \cup DataFrames \cup DoneFrames

SessionRecords(g) ==
    [session : SessionsOf(g), slots : [Slots -> ReplicaSlotState],
     nextSlot : Slots, reset : BOOLEAN]

Polls ==
    [loop : {"hello", "build"},
     step : {"published", "min", "max", "empty", "copy", "snapshot", "finish"},
     i : Slots, start : Slots, hello : Hellos, published : 0 .. MaxSeq, min : 0 .. MaxSeq,
     frames : Seq(DataFrames), bytes : Nat, full : BOOLEAN, completed : Completions]
Evictions == [loop : {"evict"}, i : Slots, total : Nat]

ReplicaRecords ==
    [session : SessionIds \cup {NoSession}, slots : [Slots -> SlotApplyState],
     content : [Slots -> Contents]]

Floors == [Slots -> 0 .. MaxSeq]
Links ==
    {Idle} \cup [phase : {"lost"}]
        \cup [phase : {"sent"}, hello : Hellos, floor : Floors]
        \cup [phase : {"answering"}, floor : Floors]
        \cup [phase : {"reading", "started"}, frames : Seq(Frames), floor : Floors]

-----------------------------------------------------------------------------
(* The type invariant that is inductive.  Besides the sets above: the      *)
(* replica a Poll works for has a session, the HELLO loop accepts a        *)
(* position only after comparing it with the slot, and a batch ends with   *)
(* DONE, at which the reader stops.                                        *)
MasterType ==
    /\ gen \in 1 .. MaxGen
    /\ seq \in [Slots -> 0 .. MaxSeq]
    /\ log \in [Slots -> Seq(Records(gen))]
    /\ sessions \in [ReplicaIds -> {NoReplica} \cup SessionRecords(gen)]
    /\ nextSession \in 1 .. MaxSessions + 1
    /\ poll \in {NoPoll} \cup Evictions \cup Polls

PollType ==
    Polling =>
        /\ Session \in SessionRecords(gen)
        /\ poll.loop = "hello" => poll.step \in {"published", "min", "max", "empty"}
        /\ poll.loop = "hello" /\ poll.step # "published" => HelloPosition <= MaxSeq

LinkType ==
    /\ rep \in [Replicas -> ReplicaRecords]
    /\ link \in [Replicas -> Links]
    /\ BagToSet(stale) \subseteq Hellos
    /\ faults \in 0 .. MaxFaults

EndsWithDone(frames) ==
    /\ frames # <<>>
    /\ frames[Len(frames)].type = "DONE"

BatchesEnd ==
    \A r \in Replicas :
        link[r].phase \in {"reading", "started"} => EndsWithDone(link[r].frames)

TypeInv == MasterType /\ PollType /\ LinkType /\ BatchesEnd

(* A batch whose limits are not reached has room for another frame.        *)
RoomInv ==
    /\ poll.loop = "hello" => poll.frames = <<>> /\ poll.bytes = 0
    /\ poll.loop = "build" /\ ~poll.full => poll.bytes < MaxBatchBytes
    /\ NoBudgetUnderflow

(* What a HELLO's answer will report as complete is at least what was      *)
(* published when the HELLO was sent.                                      *)
Reading(p) == p.loop = "build" /\ p.step \notin {"published", "finish"}

CoversFloor(completed, floor) ==
    \A s \in DOMAIN completed : completed[s] >= floor[s]

SlotAt(p) == IF p.loop = "hello" THEN p.i ELSE (p.start + p.i) % SlotCount

PollCovers(p, floor) ==
    /\ p.loop \in {"hello", "build"}
    /\ CoversFloor(p.completed, floor)
    /\ Reading(p) => p.published >= floor[SlotAt(p)]

BatchCovers(frames, floor) ==
    \A i \in 1 .. Len(frames) :
        frames[i].type = "DONE" => CoversFloor(frames[i].completed, floor)

LinkFloor(k, published, p) ==
    /\ k.phase \in {"sent", "answering"} => \A s \in Slots : k.floor[s] <= published[s]
    /\ k.phase = "answering" => PollCovers(p, k.floor)
    /\ k.phase \in {"reading", "started"} => BatchCovers(k.frames, k.floor)

FloorInv == \A r \in Replicas : LinkFloor(link[r], seq, poll)

-----------------------------------------------------------------------------
(* The operations of a log.                                                *)
LEMMA RecordsIn ==
    ASSUME NEW g, NEW lg \in Seq(Records(g)), NEW i \in 1 .. Len(lg)
    PROVE  lg[i] \in Records(g) /\ lg[i].seq \in 1 .. MaxSeq /\ lg[i].gen = g /\ lg[i].bytes \in Nat
<1>1. lg[i] \in Records(g)
  OBVIOUS
<1> QED
  BY <1>1 DEF Records

(* AckThrough pops exactly the leading records with numbers up to n.       *)
LEMMA AckCountIs ==
    ASSUME NEW g, NEW lg \in Seq(Records(g)), NEW n \in Nat
    PROVE  /\ AckCount(lg, n) \in 0 .. Len(lg)
           /\ \A i \in 1 .. AckCount(lg, n) : lg[i].seq <= n
           /\ AckCount(lg, n) < Len(lg) => lg[AckCount(lg, n) + 1].seq > n
<1> DEFINE Hits == {i \in Nat : lg[i + 1].seq > n}
           P(c) == /\ \A i \in 1 .. c : lg[i].seq <= n
                   /\ c < Len(lg) => lg[c + 1].seq > n
<1>1. Len(lg) \in Nat /\ \A i \in 1 .. Len(lg) : lg[i].seq \in Nat
  BY RecordsIn, SlotAssumption
<1>2. \A i \in Nat : i \in Hits <=> lg[i + 1].seq > n
  OBVIOUS
<1> HIDE DEF Hits
<1>3. PICK c \in 0 .. Len(lg) : /\ \A m \in 0 .. c - 1 : m \notin Hits
                                /\ c < Len(lg) => c \in Hits
  BY <1>1, FirstNumber
<1>4. ASSUME NEW i \in 1 .. c
      PROVE  lg[i].seq <= n
  <2>1. i - 1 \in 0 .. c - 1 /\ i - 1 \in Nat /\ i \in 1 .. Len(lg) /\ (i - 1) + 1 = i
    BY <1>1
  <2>2. i - 1 \notin Hits
    BY <1>3, <2>1
  <2>3. ~(lg[i].seq > n)
    BY <1>2, <2>1, <2>2
  <2> QED
    BY <1>1, <2>1, <2>3
<1>5. P(c)
  BY <1>1, <1>2, <1>3, <1>4
<1>6. \E x \in 0 .. Len(lg) : P(x)
  BY <1>5
<1> QED
  BY <1>6 DEF AckCount

(* What AckThrough leaves is a log.                                        *)
LEMMA AckThroughType ==
    ASSUME NEW g, NEW lg \in Seq(Records(g)), NEW n \in Nat
    PROVE  AckThrough(lg, n) \in Seq(Records(g))
BY AckCountIs, SMTT(30) DEF AckThrough

Begins(s, t) == \E m \in 0 .. Len(t) : s = SubSeq(t, 1, m)

(* What CopyAfter copies are the first of the records after n.             *)
LEMMA CopyAfterIs ==
    ASSUME NEW g, NEW lg \in Seq(Records(g)), NEW n \in Nat, NEW limit \in Nat, NEW maxBytes
    PROVE  Begins(CopyAfter(lg, n, limit, maxBytes), AckThrough(lg, n))
<1> DEFINE after == AckThrough(lg, n)
           Fitting(m) == m <= 1 \/ BytesOf(after, m) <= maxBytes
           Count(c) == /\ c <= limit
                       /\ \A i \in 1 .. c : Fitting(i)
                       /\ c < limit /\ c < Len(after) => ~Fitting(c + 1)
           count == CHOOSE c \in 0 .. Len(after) : Count(c)
           last == IF limit < Len(after) THEN limit ELSE Len(after)
           Hits == {c \in Nat : ~Fitting(c + 1)}
<1>1. after \in Seq(Records(g))
  BY AckThroughType
<1>2. last \in Nat /\ last <= limit /\ last <= Len(after)
  BY <1>1
<1> HIDE DEF after
<1>3. PICK c \in 0 .. last : /\ \A m \in 0 .. c - 1 : m \notin Hits
                             /\ c < last => c \in Hits
  <2> HIDE DEF Hits, last
  <2> QED
    BY <1>2, FirstNumber
<1>4. ASSUME NEW i \in 1 .. c
      PROVE  Fitting(i)
  <2>1. i - 1 \in 0 .. c - 1
    BY <1>2
  <2>2. i - 1 \notin Hits /\ (i - 1) + 1 = i /\ i - 1 \in Nat
    BY <1>2, <1>3, <2>1
  <2> HIDE DEF Fitting
  <2> QED
    BY <2>2
<1>5. c \in 0 .. Len(after) /\ Count(c)
  <2>1. c < limit /\ c < Len(after) => ~Fitting(c + 1)
    <3> HIDE DEF Fitting
    <3> QED
      BY <1>1, <1>2, <1>3
  <2> HIDE DEF Fitting, last
  <2> QED
    BY <1>1, <1>2, <1>4, <2>1
<1>6. count \in 0 .. Len(after)
  <2> HIDE DEF Count
  <2> QED
    BY <1>5
<1> QED
  BY <1>6 DEF CopyAfter, after, Begins

(* It is a log.                                                            *)
LEMMA CopyAfterType ==
    ASSUME NEW g, NEW lg \in Seq(Records(g)), NEW n \in Nat, NEW limit \in Nat, NEW maxBytes
    PROVE  CopyAfter(lg, n, limit, maxBytes) \in Seq(Records(g))
<1>1. AckThrough(lg, n) \in Seq(Records(g))
  BY AckThroughType
<1>2. Begins(CopyAfter(lg, n, limit, maxBytes), AckThrough(lg, n))
  BY CopyAfterIs
<1> QED
  BY <1>1, <1>2 DEF Begins

(* The ends of a log are sequence numbers, or 0 if it is empty.            *)
LEMMA EndsType ==
    ASSUME NEW g, NEW lg \in Seq(Records(g))
    PROVE  MinSeqOf(lg) \in 0 .. MaxSeq /\ MaxSeqOf(lg) \in 0 .. MaxSeq
<1>1. CASE lg = <<>>
  BY <1>1, SlotAssumption DEF MinSeqOf, MaxSeqOf
<1>2. CASE lg # <<>>
  <2>1. 1 \in 1 .. Len(lg) /\ Len(lg) \in 1 .. Len(lg)
    BY <1>2
  <2> QED
    BY <1>2, <2>1, RecordsIn, SlotAssumption DEF MinSeqOf, MaxSeqOf
<1> QED
  BY <1>1, <1>2

(* The size of some records is a number.                                   *)
LEMMA BytesOfType ==
    ASSUME NEW g, NEW lg \in Seq(Records(g)), NEW n \in 0 .. Len(lg)
    PROVE  BytesOf(lg, n) \in Nat
<1>1. [i \in 1 .. n |-> lg[i].bytes] \in [1 .. n -> Nat]
  BY RecordsIn
<1> QED
  BY <1>1, SumToType DEF BytesOf

(* So is the size of all logs.                                             *)
LEMMA TotalBytesType ==
    ASSUME NEW g, NEW logs \in [Slots -> Seq(Records(g))]
    PROVE  TotalBytes(logs) \in Nat
<1>1. \A s \in Slots : RetainedBytes(logs[s]) \in Nat
  BY BytesOfType DEF RetainedBytes
<1>2. [n \in 1 .. SlotCount |-> RetainedBytes(logs[n - 1])] \in [1 .. SlotCount -> Nat]
  BY <1>1, SlotAssumption DEF Slots
<1> QED
  BY <1>2, SumToType, SlotAssumption DEF TotalBytes

-----------------------------------------------------------------------------
(* The content of a slot and the frames.                                   *)
LEMMA PrefixType ==
    ASSUME NEW g \in Nat, NEW n \in Nat
    PROVE  /\ Prefix(g, n) \in Contents
           /\ Len(Prefix(g, n)) = n
           /\ Prefix(g, 0) = <<>>
           /\ Append(Prefix(g, n), <<g, n + 1>>) = Prefix(g, n + 1)
<1>1. Prefix(g, n) \in Contents /\ Len(Prefix(g, n)) = n
  BY DEF Prefix, Contents
<1>2. Prefix(g, 0) = <<>>
  BY DEF Prefix
<1>3. Append(Prefix(g, n), <<g, n + 1>>) = Prefix(g, n + 1)
  BY DEF Prefix
<1> QED
  BY <1>1, <1>2, <1>3

(* The parts of a frame by its type.                                       *)
LEMMA FrameParts ==
    ASSUME NEW f \in Frames
    PROVE  /\ f.type \in {"BEGIN", "SNAPSHOT", "LOG", "DONE"}
           /\ f.session \in SessionIds
           /\ f.type = "BEGIN" => f.reset \in BOOLEAN
           /\ f.type = "SNAPSHOT" =>
                /\ f.slot \in Slots
                /\ f.base \in 0 .. MaxSeq
                /\ f.content \in Contents
                /\ f.content = Prefix(f.session[1], f.base)
           /\ f.type = "LOG" =>
                /\ f.slot \in Slots
                /\ f.record.seq \in 1 .. MaxSeq
                /\ f.record.gen \in Nat
                /\ f.record.gen = f.session[1]
           /\ f.type = "DONE" => f.completed \in Completions
BY DEF Frames, DataFrames, BeginFrames, SnapshotFrames, LogFrames, DoneFrames

(* A session the primary opened is not the absent one.                     *)
LEMMA SessionsAreReal ==
    ASSUME NEW id \in SessionIds
    PROVE  id # NoSession /\ id[1] \in Nat
BY BoundAssumption DEF SessionIds, NoSession

(* A replica that has just started is well-formed.                         *)
LEMMA FreshReplicaType == FreshReplica \in ReplicaRecords
<1>1. FreshSlot \in SlotApplyState
  BY SlotAssumption DEF FreshSlot, SlotApplyState, SlotStates
<1>2. <<>> \in Contents
  BY DEF Contents
<1> QED
  BY <1>1, <1>2 DEF FreshReplica, ReplicaRecords

(* A replica with another slot state, or another content of a slot.        *)
LEMMA ReplicaUpdate ==
    ASSUME NEW R \in ReplicaRecords, NEW s \in Slots
    PROVE  /\ \A st \in SlotStates : [R EXCEPT !.slots[s].state = st] \in ReplicaRecords
           /\ \A n \in 0 .. MaxSeq : [R EXCEPT !.slots[s].applied = n] \in ReplicaRecords
           /\ [R EXCEPT !.slots[s].needSnapshot = TRUE] \in ReplicaRecords
           /\ \A c \in Contents : [R EXCEPT !.content[s] = c] \in ReplicaRecords
<1>1. /\ R.slots \in [Slots -> SlotApplyState]
      /\ R.content \in [Slots -> Contents]
  BY DEF ReplicaRecords
<1>2. R.slots[s] \in SlotApplyState
  BY <1>1
<1>3. /\ \A st \in SlotStates : [R.slots[s] EXCEPT !.state = st] \in SlotApplyState
      /\ \A n \in 0 .. MaxSeq : [R.slots[s] EXCEPT !.applied = n] \in SlotApplyState
      /\ [R.slots[s] EXCEPT !.needSnapshot = TRUE] \in SlotApplyState
  BY <1>2 DEF SlotApplyState
<1> QED
  BY <1>1, <1>3 DEF ReplicaRecords

(* Every frame leaves a well-formed replica.                               *)
LEMMA EnqueueFrameType ==
    ASSUME NEW R \in ReplicaRecords, NEW f \in Frames
    PROVE  /\ EnqueueFrame(R, f).replica \in ReplicaRecords
           /\ EnqueueFrame(R, f).ok \in BOOLEAN
<1> USE DEF Accept, Reject
<1>1. /\ R.session \in SessionIds \cup {NoSession}
      /\ R.slots \in [Slots -> SlotApplyState]
      /\ R.content \in [Slots -> Contents]
  BY DEF ReplicaRecords
<1>2. \A s \in Slots : /\ R.slots[s].state \in SlotStates
                       /\ R.slots[s].applied \in 0 .. MaxSeq
                       /\ R.slots[s].needSnapshot \in BOOLEAN
  BY <1>1 DEF SlotApplyState
<1>3. ASSUME f.type = "BEGIN"
      PROVE  ApplyBegin(R, f).replica \in ReplicaRecords /\ ApplyBegin(R, f).ok \in BOOLEAN
  <2>1. [FreshReplica EXCEPT !.session = f.session] \in ReplicaRecords
    BY FreshReplicaType, FrameParts DEF ReplicaRecords
  <2> QED
    BY <2>1 DEF ApplyBegin
<1>4. ASSUME f.type = "SNAPSHOT"
      PROVE  ApplySnapshot(R, f).replica \in ReplicaRecords /\ ApplySnapshot(R, f).ok \in BOOLEAN
  <2>1. f.slot \in Slots /\ f.base \in 0 .. MaxSeq /\ f.content \in Contents
    BY <1>4, FrameParts
  <2>2. [R EXCEPT !.slots[f.slot].state = "Offline",
                  !.slots[f.slot].needSnapshot = TRUE] \in ReplicaRecords
    <3> DEFINE Q == [R EXCEPT !.slots[f.slot].state = "Offline"]
    <3>1. Q \in ReplicaRecords
      BY <2>1, ReplicaUpdate DEF SlotStates
    <3>2. [Q EXCEPT !.slots[f.slot].needSnapshot = TRUE] \in ReplicaRecords
      <4> HIDE DEF Q
      <4> QED
        BY <2>1, <3>1, ReplicaUpdate
    <3> QED
      BY <3>2
  <2>3. [R EXCEPT !.slots[f.slot] = [state |-> "CatchingUp", applied |-> f.base,
                                     needSnapshot |-> FALSE],
                  !.content[f.slot] = f.content] \in ReplicaRecords
    BY <2>1 DEF ReplicaRecords, SlotApplyState, SlotStates
  <2> QED
    BY <2>2, <2>3 DEF ApplySnapshot
<1>5. ASSUME f.type = "LOG"
      PROVE  ApplyLog(R, f).replica \in ReplicaRecords /\ ApplyLog(R, f).ok \in BOOLEAN
  <2>1. f.slot \in Slots /\ f.record.seq \in 1 .. MaxSeq /\ f.record.gen \in Nat
    BY <1>5, FrameParts
  <2>2. [R EXCEPT !.slots[f.slot].needSnapshot = TRUE,
                  !.slots[f.slot].state = "Offline"] \in ReplicaRecords
    <3> DEFINE Q == [R EXCEPT !.slots[f.slot].needSnapshot = TRUE]
    <3>1. Q \in ReplicaRecords
      BY <2>1, ReplicaUpdate
    <3>2. [Q EXCEPT !.slots[f.slot].state = "Offline"] \in ReplicaRecords
      <4> HIDE DEF Q
      <4> QED
        BY <2>1, <3>1, ReplicaUpdate DEF SlotStates
    <3> QED
      BY <3>2
  <2>3. Append(R.content[f.slot], <<f.record.gen, f.record.seq>>) \in Contents
    BY <1>1, <2>1, SlotAssumption DEF Contents
  <2>4. [R EXCEPT !.slots[f.slot].applied = f.record.seq,
                  !.slots[f.slot].state = "CatchingUp",
                  !.content[f.slot] = Append(@, <<f.record.gen, f.record.seq>>)] \in ReplicaRecords
    <3> DEFINE P == [R EXCEPT !.slots[f.slot].applied = f.record.seq]
               Q == [P EXCEPT !.slots[f.slot].state = "CatchingUp"]
               more == Append(R.content[f.slot], <<f.record.gen, f.record.seq>>)
    <3>1. P \in ReplicaRecords
      <4>1. f.record.seq \in 0 .. MaxSeq
        BY <2>1, SlotAssumption
      <4> QED
        BY <2>1, <4>1, ReplicaUpdate
    <3>2. Q \in ReplicaRecords
      <4> HIDE DEF P
      <4> QED
        BY <2>1, <3>1, ReplicaUpdate DEF SlotStates
    <3>3. [Q EXCEPT !.content[f.slot] = more] \in ReplicaRecords
      <4> HIDE DEF Q, more
      <4> QED
        BY <2>1, <2>3, <3>2, ReplicaUpdate DEF more
    <3> QED
      BY <3>3
  <2> QED
    BY <2>2, <2>4 DEF ApplyLog
<1>6. ASSUME f.type = "DONE"
      PROVE  ApplyDone(R, f).replica \in ReplicaRecords /\ ApplyDone(R, f).ok \in BOOLEAN
  <2> DEFINE slots == [s \in Slots |->
                IF s \in DOMAIN f.completed /\ ~R.slots[s].needSnapshot
                THEN [R.slots[s] EXCEPT !.state =
                        IF R.slots[s].applied >= f.completed[s] THEN "Online" ELSE "CatchingUp"]
                ELSE R.slots[s]]
  <2>1. slots \in [Slots -> SlotApplyState]
    BY <1>1 DEF SlotApplyState, SlotStates
  <2> HIDE DEF slots
  <2>2. [R EXCEPT !.slots = slots] \in ReplicaRecords
    BY <2>1 DEF ReplicaRecords
  <2> QED
    BY <2>2 DEF ApplyDone, slots
<1> QED
  BY <1>3, <1>4, <1>5, <1>6, FrameParts DEF EnqueueFrame

-----------------------------------------------------------------------------
(* A slot added to what DONE will report.                                  *)
LEMMA CompletionType ==
    ASSUME NEW c \in Completions, NEW s \in Slots, NEW n \in 0 .. MaxSeq
    PROVE  AddCompleted(c, s, n) \in Completions
<1>1. DOMAIN c \subseteq Slots /\ \A x \in DOMAIN c : c[x] \in 0 .. MaxSeq
  BY DEF Completions
<1>2. AddCompleted(c, s, n) \in [DOMAIN c \cup {s} -> 0 .. MaxSeq]
  BY <1>1 DEF AddCompleted
<1> QED
  BY <1>1, <1>2 DEF Completions

(* The HELLOs that were abandoned.                                         *)
LEMMA BagType ==
    ASSUME NEW B, NEW e
    PROVE  /\ BagToSet(B (+) SetToBag({e})) = BagToSet(B) \cup {e}
           /\ BagToSet(B (-) SetToBag({e})) \subseteq BagToSet(B)
<1>1. BagToSet(B (+) SetToBag({e})) = BagToSet(B) \cup {e}
  BY DEF BagToSet, (+), SetToBag
<1>2. BagToSet(B (-) SetToBag({e})) \subseteq BagToSet(B)
  BY DEF BagToSet, (-), SetToBag
<1> QED
  BY <1>1, <1>2

(* The empty bag has no members.                                           *)
LEMMA EmptyBagType == BagToSet(EmptyBag) = {}
BY DEF BagToSet, EmptyBag, SetToBag

-----------------------------------------------------------------------------
(* A Poll at work.                                                         *)
LEMMA PollParts ==
    ASSUME MasterType, PollType, Polling
    PROVE  /\ poll \in Polls
           /\ PollId \in ReplicaIds
           /\ PollSlot \in Slots
           /\ Session \in SessionRecords(gen)
           /\ SlotState \in ReplicaSlotState
           /\ HelloPosition \in Positions
<1>1. poll \in Polls
  BY DEF MasterType, Polling, NoPoll, Evictions
<1>2. poll.hello \in Hellos /\ poll.i \in Slots /\ poll.start \in Slots
  BY <1>1 DEF Polls
<1>3. PollId \in ReplicaIds /\ poll.hello.pos \in [Slots -> Positions]
  BY <1>2 DEF PollId, Hellos
<1>4. PollSlot \in Slots
  BY <1>2, SlotAssumption DEF PollSlot, Slots
<1>5. Session \in SessionRecords(gen)
  BY DEF PollType
<1>6. SlotState \in ReplicaSlotState
  BY <1>4, <1>5 DEF SlotState, SessionRecords
<1>7. HelloPosition \in Positions
  <2>1. poll.hello.pos[PollSlot] \in Positions /\ 0 \in Positions
    BY <1>3, <1>4, SlotAssumption DEF Positions, NoPosition
  <2> QED
    BY <2>1 DEF HelloPosition
<1> QED
  BY <1>1, <1>3, <1>4, <1>5, <1>6, <1>7

(* The parts of a Poll.                                                    *)
LEMMA PollFields ==
    ASSUME NEW p \in Polls
    PROVE  /\ p.loop \in {"hello", "build"}
           /\ p.i \in Slots /\ p.i \in Nat
           /\ p.start \in Slots
           /\ p.hello \in Hellos
           /\ p.published \in 0 .. MaxSeq
           /\ p.min \in 0 .. MaxSeq
           /\ p.frames \in Seq(DataFrames)
           /\ p.bytes \in Nat
           /\ p.full \in BOOLEAN
           /\ p.completed \in Completions
BY DEF Polls, Slots

(* The next round of a loop starts at the beginning of the next slot.      *)
LEMMA NextPollSlotType ==
    ASSUME NEW p \in Polls, Session.nextSlot \in Slots
    PROVE  /\ NextPollSlot(p) \in Polls
           /\ NextPollSlot(p).loop = "hello" => NextPollSlot(p).step = "published"
           /\ NextPollSlot(p).hello = p.hello
           /\ NextPollSlot(p).frames = p.frames
           /\ NextPollSlot(p).bytes = p.bytes
           /\ NextPollSlot(p).full = p.full
           /\ NextPollSlot(p).completed = p.completed
           /\ NextPollSlot(p).step \in {"published", "finish"}
           /\ p.loop = "build" => NextPollSlot(p).loop = "build"
<1>1. CASE p.i + 1 < SlotCount
  <2>1. p.i + 1 \in Slots
    BY <1>1, PollFields, SlotAssumption DEF Slots
  <2>2. NextPollSlot(p) = [p EXCEPT !.i = @ + 1, !.step = "published"]
    BY <1>1 DEF NextPollSlot
  <2> QED
    BY <2>1, <2>2 DEF Polls
<1>2. CASE ~(p.i + 1 < SlotCount) /\ p.loop = "hello"
  <2>1. NextPollSlot(p) = [p EXCEPT !.loop = "build", !.i = 0, !.start = Session.nextSlot,
                                    !.step = "published"]
    BY <1>2 DEF NextPollSlot
  <2>2. 0 \in Slots
    BY SlotAssumption DEF Slots
  <2> QED
    BY <1>2, <2>1, <2>2 DEF Polls
<1>3. CASE ~(p.i + 1 < SlotCount) /\ p.loop # "hello"
  <2>1. NextPollSlot(p) = [p EXCEPT !.step = "finish"]
    BY <1>3 DEF NextPollSlot
  <2> QED
    BY <1>3, <2>1 DEF Polls
<1> QED
  BY <1>1, <1>2, <1>3

(* A session with another slot state or another place to resume.           *)
LEMMA SessionUpdate ==
    ASSUME NEW g, NEW x \in SessionRecords(g), NEW s \in Slots, NEW st \in ReplicaSlotState
    PROVE  /\ [x EXCEPT !.slots[s] = st] \in SessionRecords(g)
           /\ \A n \in Slots : [x EXCEPT !.slots[s] = st, !.nextSlot = n] \in SessionRecords(g)
BY DEF SessionRecords

(* What a step of Poll has to keep.                                        *)
LEMMA PollKeeps ==
    ASSUME MasterType, UNCHANGED <<slotVars, nextSession>>, poll' \in Polls,
           NEW id \in ReplicaIds, poll'.hello.id = id,
           NEW x \in SessionRecords(gen),
           sessions' = [sessions EXCEPT ![id] = x],
           poll'.loop = "hello" => \/ poll'.step = "published"
                                   \/ /\ poll'.step \in {"min", "max", "empty"}
                                      /\ HelloPosition' <= MaxSeq
    PROVE  MasterType' /\ PollType'
<1>1. sessions \in [ReplicaIds -> {NoReplica} \cup SessionRecords(gen)]
  BY DEF MasterType
<1>2. sessions' \in [ReplicaIds -> {NoReplica} \cup SessionRecords(gen)] /\ sessions'[id] = x
  BY <1>1
<1>3. MasterType'
  BY <1>2 DEF MasterType, slotVars
<1>4. Session' = x /\ gen' = gen
  BY <1>2 DEF Session, PollId, slotVars
<1> QED
  BY <1>3, <1>4 DEF PollType

(* The end of a round of the HELLO loop.                                   *)
LEMMA SetHelloSlotType ==
    ASSUME MasterType, PollType, Polling, NEW position \in 0 .. MaxSeq, NEW need \in BOOLEAN,
           SetHelloSlot(position, need), UNCHANGED <<slotVars, nextSession>>
    PROVE  MasterType' /\ PollType'
<1> DEFINE st == [acked |-> position, sent |-> position, needSnapshot |-> need]
           x == [Session EXCEPT !.slots[PollSlot] = st]
<1>1. st \in ReplicaSlotState
  BY DEF ReplicaSlotState
<1>2. x \in SessionRecords(gen)
  <2> HIDE DEF st
  <2> QED
    BY <1>1, PollParts, SessionUpdate
<1>3. sessions' = [sessions EXCEPT ![PollId] = x]
  BY DEF SetHelloSlot, Session
<1>4. Session.nextSlot \in Slots
  BY PollParts DEF SessionRecords
<1>5. /\ poll' \in Polls
      /\ poll'.hello.id = PollId
      /\ poll'.loop = "hello" => poll'.step = "published"
  BY <1>4, PollParts, NextPollSlotType DEF SetHelloSlot, PollId
<1> HIDE DEF x
<1> QED
  BY <1>2, <1>3, <1>5, PollKeeps, PollParts

(* The end of a round of the batch loop.                                   *)
LEMMA EndRoundType ==
    ASSUME MasterType, PollType, Polling,
           NEW p \in Polls, p.hello = poll.hello, p.loop = "build",
           NEW st \in ReplicaSlotState, NEW target \in 0 .. MaxSeq, NEW resume \in Slots,
           EndRound(p, st, target, resume), UNCHANGED <<slotVars, nextSession>>
    PROVE  MasterType' /\ PollType'
<1> DEFINE filled == ~p.full /\ AtLimit(p)
           q == [p EXCEPT !.full = @ \/ filled,
                          !.completed = IF st.needSnapshot THEN @
                                        ELSE AddCompleted(@, PollSlot, target)]
           next == IF filled THEN SlotAfter(PollSlot) ELSE resume
           x == [Session EXCEPT !.slots[PollSlot] = st, !.nextSlot = next]
<1>1. next \in Slots
  BY PollParts, SlotAssumption DEF SlotAfter, Slots
<1>2. x \in SessionRecords(gen)
  <2> HIDE DEF next
  <2> QED
    BY <1>1, PollParts, SessionUpdate
<1>3. sessions' = [sessions EXCEPT ![PollId] = x]
  BY PollParts DEF EndRound, Session, MasterType
<1>4. q \in Polls /\ q.hello = poll.hello /\ q.loop = "build"
  <2>1. p.completed \in Completions /\ AddCompleted(p.completed, PollSlot, target) \in Completions
    BY PollFields, PollParts, CompletionType
  <2>2. (p.full \/ filled) \in BOOLEAN
    OBVIOUS
  <2> HIDE DEF filled
  <2> QED
    BY <2>1, <2>2 DEF Polls
<1>5. poll' = NextPollSlot(q)
  BY DEF EndRound
<1>6. Session.nextSlot \in Slots
  BY PollParts DEF SessionRecords
<1> HIDE DEF x, q
<1>7. poll' \in Polls /\ poll'.hello.id = PollId /\ poll'.loop = "build"
  BY <1>4, <1>5, <1>6, NextPollSlotType DEF PollId
<1> QED
  BY <1>2, <1>3, <1>7, PollKeeps, PollParts

(* A step of Poll that leaves the sessions alone.                          *)
LEMMA PollOnlyKeeps ==
    ASSUME MasterType, PollType, Polling,
           UNCHANGED <<slotVars, nextSession>>, UNCHANGED sessions,
           poll' \in Polls, poll'.hello = poll.hello,
           poll'.loop = "hello" => /\ poll'.step \in {"min", "max", "empty"}
                                   /\ HelloPosition' <= MaxSeq
    PROVE  MasterType' /\ PollType'
<1>1. sessions' = [sessions EXCEPT ![PollId] = Session]
  BY PollParts DEF MasterType, Session
<1>2. poll'.hello.id = PollId
  BY DEF PollId
<1> QED
  BY <1>1, <1>2, PollKeeps, PollParts

(* The position of a HELLO that is being looked at does not change.        *)
LEMMA HelloPositionKept ==
    ASSUME UNCHANGED sessions, poll'.hello = poll.hello, poll'.loop = "hello",
           poll.loop = "hello", poll'.i = poll.i
    PROVE  HelloPosition' = HelloPosition
BY DEF HelloPosition, Session, PollId, PollSlot

(* The read of a published sequence number.                                *)
LEMMA PollReadPublishedType ==
    ASSUME MasterType, PollType, PollReadPublished
    PROVE  MasterType' /\ PollType'
<1> DEFINE p == [poll EXCEPT !.published = seq[PollSlot]]
<1>1. Polling /\ UNCHANGED <<slotVars, nextSession>>
  BY DEF PollReadPublished
<1>2. seq[PollSlot] \in 0 .. MaxSeq
  BY <1>1, PollParts DEF MasterType
<1>3. p \in Polls /\ p.hello = poll.hello /\ p.loop = poll.loop /\ p.i = poll.i
  BY <1>1, <1>2, PollParts DEF Polls
<1>4. SlotState \in ReplicaSlotState /\ Session.nextSlot \in Slots
  BY <1>1, PollParts DEF SessionRecords
<1>5. CASE SetHelloSlot(0, TRUE)
  <2>1. 0 \in 0 .. MaxSeq /\ TRUE \in BOOLEAN
    BY SlotAssumption
  <2> QED
    BY <1>1, <1>5, <2>1, SetHelloSlotType
<1>6. CASE /\ poll.loop = "hello"
           /\ HelloPosition <= seq[PollSlot]
           /\ poll' = [p EXCEPT !.step = "min"]
           /\ UNCHANGED sessions
  <2> HIDE DEF p
  <2>1. /\ poll' \in Polls /\ poll'.hello = poll.hello /\ poll'.step = "min"
        /\ poll'.loop = "hello" /\ poll'.i = poll.i
    BY <1>3, <1>6 DEF Polls
  <2>2. HelloPosition' <= MaxSeq
    BY <1>1, <1>2, <1>6, <2>1, HelloPositionKept, PollParts, SlotAssumption
       DEF Positions, NoPosition
  <2> QED
    BY <1>1, <1>6, <2>1, <2>2, PollOnlyKeeps
<1>7. CASE /\ poll.loop = "build"
           /\ EndRound(p, SlotState, seq[PollSlot], Session.nextSlot)
  <2> HIDE DEF p
  <2> QED
    BY <1>1, <1>2, <1>3, <1>4, <1>7, EndRoundType
<1>8. CASE /\ poll.loop = "build"
           /\ poll' = [p EXCEPT !.step = IF SlotState.needSnapshot THEN "snapshot" ELSE "min"]
           /\ UNCHANGED sessions
  <2> HIDE DEF p
  <2>1. poll' \in Polls /\ poll'.hello = poll.hello /\ poll'.loop = "build"
    BY <1>3, <1>8 DEF Polls
  <2> QED
    BY <1>1, <1>8, <2>1, PollOnlyKeeps
<1> QED
  BY <1>5, <1>6, <1>7, <1>8 DEF PollReadPublished

(* The read of the first number of a log.                                  *)
LEMMA PollReadMinType ==
    ASSUME MasterType, PollType, PollReadMin
    PROVE  MasterType' /\ PollType'
<1>1. /\ Polling /\ poll.step = "min"
      /\ UNCHANGED <<slotVars, nextSession>> /\ UNCHANGED sessions
  BY DEF PollReadMin
<1>2. MinSeqOf(log[PollSlot]) \in 0 .. MaxSeq
  BY <1>1, PollParts, EndsType DEF MasterType
<1>3. /\ poll' \in Polls /\ poll'.hello = poll.hello /\ poll'.loop = poll.loop
      /\ poll'.step = "max" /\ poll'.i = poll.i
  BY <1>1, <1>2, PollParts DEF PollReadMin, Polls
<1>4. poll'.loop = "hello" => HelloPosition' <= MaxSeq
  BY <1>1, <1>3, HelloPositionKept DEF PollType
<1> QED
  BY <1>1, <1>3, <1>4, PollOnlyKeeps

(* The decision between log and snapshot.                                  *)
LEMMA UseBacklogType ==
    ASSUME MasterType, PollType, Polling, poll.step \in {"max", "empty"}, NEW found \in BOOLEAN,
           UseBacklog(found), UNCHANGED <<slotVars, nextSession>>
    PROVE  MasterType' /\ PollType'
<1>1. CASE poll.loop = "hello"
  <2>1. HelloPosition \in 0 .. MaxSeq
    BY <1>1, PollParts, SlotAssumption DEF PollType, Positions, NoPosition
  <2> QED
    BY <1>1, <2>1, SetHelloSlotType DEF UseBacklog
<1>2. CASE poll.loop # "hello"
  <2>1. poll.loop = "build"
    BY <1>2, PollParts, PollFields
  <2>2. poll' \in Polls /\ poll'.hello = poll.hello /\ poll'.loop = "build" /\ UNCHANGED sessions
    BY <1>2, <2>1, PollParts DEF UseBacklog, Polls
  <2> QED
    BY <2>2, PollOnlyKeeps
<1> QED
  BY <1>1, <1>2

(* The read of the last number of a log.                                   *)
LEMMA PollReadMaxType ==
    ASSUME MasterType, PollType, PollReadMax
    PROVE  MasterType' /\ PollType'
<1>1. Polling /\ poll.step = "max" /\ UNCHANGED <<slotVars, nextSession>>
  BY DEF PollReadMax
<1>2. CASE poll' = [poll EXCEPT !.step = "empty"] /\ UNCHANGED sessions
  <2>1. /\ poll' \in Polls /\ poll'.hello = poll.hello /\ poll'.loop = poll.loop
        /\ poll'.step = "empty" /\ poll'.i = poll.i
    BY <1>1, <1>2, PollParts DEF Polls
  <2>2. poll'.loop = "hello" => HelloPosition' <= MaxSeq
    BY <1>1, <1>2, <2>1, HelloPositionKept DEF PollType
  <2> QED
    BY <1>1, <1>2, <2>1, <2>2, PollOnlyKeeps
<1>3. ASSUME UseBacklog(poll.min <= Wanted /\ Wanted <= MaxSeqOf(log[PollSlot]) + 1)
      PROVE  MasterType' /\ PollType'
  <2>1. (poll.min <= Wanted /\ Wanted <= MaxSeqOf(log[PollSlot]) + 1) \in BOOLEAN
    OBVIOUS
  <2> QED
    BY <1>1, <1>3, <2>1, UseBacklogType
<1> QED
  BY <1>2, <1>3 DEF PollReadMax

(* The second read of the published number.                                *)
LEMMA PollEmptyLogType ==
    ASSUME MasterType, PollType, PollEmptyLog
    PROVE  MasterType' /\ PollType'
<1>1. (Wanted > seq[PollSlot]) \in BOOLEAN
  OBVIOUS
<1> QED
  BY <1>1, UseBacklogType DEF PollEmptyLog

(* An image in a batch is what the writes up to its base produced.         *)
LEMMA SnapshotFrameType ==
    ASSUME MasterType, NEW session \in SessionsOf(gen), NEW s \in Slots
    PROVE  /\ BuildSnapshotFrame(session, s) \in DataFrames
           /\ BuildSnapshotFrame(session, s).type = "SNAPSHOT"
           /\ BuildSnapshotFrame(session, s).base = seq[s]
           /\ SnapshotBytes(s, Len(BuildSnapshotFrame(session, s).content)) \in Nat
<1> DEFINE f == BuildSnapshotFrame(session, s)
<1>1. gen \in 1 .. MaxGen /\ gen \in Nat /\ seq[s] \in 0 .. MaxSeq /\ seq[s] \in Nat
  BY BoundAssumption, SlotAssumption DEF MasterType
<1>2. session \in SessionIds /\ session[1] = gen
  BY <1>1 DEF SessionIds, SessionsOf
<1>3. Prefix(gen, seq[s]) \in Contents /\ Len(Prefix(gen, seq[s])) = seq[s]
  BY <1>1, PrefixType
<1>4. /\ f.type = "SNAPSHOT" /\ f.base = seq[s] /\ f.session = session
      /\ f.content = Prefix(gen, seq[s])
  BY DEF BuildSnapshotFrame, SnapshotFrame
<1>5. f \in [type : {"SNAPSHOT"}, session : SessionIds, slot : Slots,
             base : 0 .. MaxSeq, content : Contents]
  BY <1>1, <1>2, <1>3 DEF BuildSnapshotFrame, SnapshotFrame
<1>6. f \in SnapshotFrames
  <2> HIDE DEF f
  <2> QED
    BY <1>2, <1>4, <1>5 DEF SnapshotFrames
<1>7. SnapshotBytes(s, Len(f.content)) \in Nat
  BY <1>1, <1>3, <1>4, LimitAssumption
<1> QED
  BY <1>4, <1>6, <1>7 DEF DataFrames

(* A frame with a record of the primary is a data frame.                   *)
LEMMA LogFrameType ==
    ASSUME MasterType, NEW session \in SessionsOf(gen), NEW s \in Slots, NEW rec \in Records(gen)
    PROVE  LogFrame(session, s, rec) \in DataFrames /\ LogFrame(session, s, rec).type = "LOG"
<1>1. gen \in 1 .. MaxGen
  BY DEF MasterType
<1>2. session \in SessionIds /\ session[1] = gen
  BY <1>1 DEF SessionIds, SessionsOf
<1>3. rec \in [seq : 1 .. MaxSeq, gen : 1 .. MaxGen, bytes : Nat] /\ rec.gen = gen
  BY <1>1 DEF Records
<1>4. LogFrame(session, s, rec) \in LogFrames
  BY <1>2, <1>3 DEF LogFrames, LogFrame
<1> QED
  BY <1>4 DEF DataFrames, LogFrame

(* A snapshot goes into the batch.                                         *)
LEMMA PollSendSnapshotType ==
    ASSUME MasterType, PollType, RoomInv, PollSendSnapshot
    PROVE  MasterType' /\ PollType'
<1> DEFINE frame == BuildSnapshotFrame(Session.session, PollSlot)
           size == SnapshotBytes(PollSlot, Len(frame.content))
<1>1. Polling /\ poll.step = "snapshot" /\ UNCHANGED <<slotVars, nextSession>>
  BY DEF PollSendSnapshot
<1>2. poll.loop = "build"
  BY <1>1, PollParts, PollFields DEF PollType
<1>3. Session.session \in SessionsOf(gen) /\ Session.nextSlot \in Slots
  BY <1>1, PollParts DEF SessionRecords
<1>4. frame \in DataFrames /\ frame.base \in 0 .. MaxSeq /\ size \in Nat
  BY <1>1, <1>3, PollParts, SnapshotFrameType DEF MasterType
<1> HIDE DEF size, frame
<1>5. CASE EndRound([poll EXCEPT !.frames = Append(@, frame), !.bytes = @ + size],
                    [SlotState EXCEPT !.sent = frame.base, !.needSnapshot = FALSE],
                    frame.base, Session.nextSlot)
  <2> DEFINE p == [poll EXCEPT !.frames = Append(@, frame), !.bytes = @ + size]
             st == [SlotState EXCEPT !.sent = frame.base, !.needSnapshot = FALSE]
  <2>1. Append(poll.frames, frame) \in Seq(DataFrames) /\ poll.bytes + size \in Nat
    BY <1>1, <1>4, PollParts, PollFields
  <2>2. p \in Polls /\ p.hello = poll.hello /\ p.loop = "build"
    BY <1>1, <1>2, <2>1, PollParts DEF Polls
  <2>3. st \in ReplicaSlotState
    BY <1>1, <1>4, PollParts DEF ReplicaSlotState
  <2> HIDE DEF p, st
  <2> QED
    BY <1>1, <1>3, <1>4, <1>5, <2>2, <2>3, EndRoundType DEF p, st
<1>6. CASE EndRound([poll EXCEPT !.full = TRUE], SlotState, poll.published, PollSlot)
  <2> DEFINE p == [poll EXCEPT !.full = TRUE]
  <2>1. p \in Polls /\ p.hello = poll.hello /\ p.loop = "build"
    BY <1>1, <1>2, PollParts DEF Polls
  <2>2. poll.published \in 0 .. MaxSeq
    BY <1>1, PollParts, PollFields
  <2> HIDE DEF p
  <2> QED
    BY <1>1, <1>6, <2>1, <2>2, PollParts, EndRoundType DEF p
<1> QED
  BY <1>5, <1>6 DEF PollSendSnapshot, frame, size

(* A frame with a record copied from the slot.                             *)
CopiedAt(f, logs) ==
    \E i \in 1 .. Len(logs) : f = LogFrame(Session.session, PollSlot, logs[i])

Copied(f) ==
    \E limit \in Nat, left \in Int :
        CopiedAt(f, CopyAfter(log[PollSlot], SlotState.sent, limit, left))

(* Sending records ends the round of the slot, with no more records than   *)
(* were written and nothing else than records of its log.                  *)
LEMMA PollSendLogsIs ==
    ASSUME MasterType, PollType, RoomInv, PollSendLogs
    PROVE  \E p \in Polls, st \in ReplicaSlotState, resume \in Slots :
               /\ EndRound(p, st, poll.published, resume)
               /\ p.hello = poll.hello /\ p.loop = "build" /\ p.completed = poll.completed
               /\ st.acked = SlotState.acked
               /\ \A i \in 1 .. Len(p.frames) :
                    \/ i \in 1 .. Len(poll.frames) /\ p.frames[i] = poll.frames[i]
                    \/ Copied(p.frames[i])
<1> DEFINE sent == SlotState.sent
           room == MaxFrames - Len(poll.frames)
           limit == IF room < MaxLogsPerSlot THEN room ELSE MaxLogsPerSlot
           logs == CopyAfter(log[PollSlot], sent, limit, MaxBatchBytes - poll.bytes)
           Sendable(i) == WithinTarget(logs[i]) /\ Consecutive(logs, i) /\ FitsAfter(logs, i)
           Count(n) == /\ \A i \in 1 .. n : Sendable(i)
                       /\ n < Len(logs) => ~Sendable(n + 1)
           count == CHOOSE n \in 0 .. Len(logs) : Count(n)
           stopped == count < Len(logs) /\ WithinTarget(logs[count + 1])
           gap == stopped /\ ~Consecutive(logs, count + 1)
           toobig == stopped /\ ~gap
           new == [i \in 1 .. count |-> LogFrame(Session.session, PollSlot, logs[i])]
           p == [poll EXCEPT !.frames = @ \o new, !.bytes = @ + BytesOf(logs, count),
                             !.full = toobig]
           st == [SlotState EXCEPT !.sent = sent + count, !.needSnapshot = @ \/ gap]
           resume == IF toobig THEN PollSlot ELSE Session.nextSlot
           Hits == {i \in Nat : ~Sendable(i + 1)}
<1>1. Polling /\ poll.step = "copy"
  BY DEF PollSendLogs
<1>2. poll \in Polls /\ PollSlot \in Slots /\ Session \in SessionRecords(gen)
  BY <1>1, PollParts
<1>3. poll.loop = "build"
  BY <1>1, <1>2, PollFields DEF PollType
<1>4. poll.frames \in Seq(DataFrames) /\ poll.bytes \in Nat /\ poll.published \in 0 .. MaxSeq
  BY <1>2, PollFields
<1>5. limit \in Nat
  BY <1>1, <1>3, <1>4, LimitAssumption DEF RoomInv, NoBudgetUnderflow
<1>6. SlotState \in ReplicaSlotState
  BY <1>1, PollParts
<1>7. sent \in 0 .. MaxSeq /\ sent \in Nat /\ SlotState.needSnapshot \in BOOLEAN
  BY <1>6, SlotAssumption DEF ReplicaSlotState
<1>8. logs \in Seq(Records(gen))
  <2>1. log[PollSlot] \in Seq(Records(gen))
    BY <1>2 DEF MasterType
  <2> HIDE DEF limit, sent
  <2> QED
    BY <1>5, <1>7, <2>1, CopyAfterType
<1> HIDE DEF logs
<1>9. count \in 0 .. Len(logs) /\ Count(count)
  <2>1. PICK n \in 0 .. Len(logs) : /\ \A m \in 0 .. n - 1 : m \notin Hits
                                    /\ n < Len(logs) => n \in Hits
    <3>1. Len(logs) \in Nat
      BY <1>8
    <3> HIDE DEF Hits
    <3> QED
      BY <3>1, FirstNumber
  <2> HIDE DEF Sendable
  <2>2. ASSUME NEW i \in 1 .. n
        PROVE  Sendable(i)
    <3>1. i - 1 \in 0 .. n - 1 /\ i - 1 \in Nat /\ (i - 1) + 1 = i
      BY <1>8
    <3> QED
      BY <2>1, <3>1
  <2>3. Count(n)
    BY <1>8, <2>1, <2>2
  <2> HIDE DEF Count
  <2> QED
    BY <2>3
<1>10. sent + count \in 0 .. MaxSeq
  <2>1. CASE count = 0
    <3> HIDE DEF sent, count
    <3> QED
      BY <1>7, <2>1
  <2>2. CASE count # 0
    <3>1. count \in 1 .. count /\ count \in 1 .. Len(logs)
      BY <1>8, <1>9, <2>2
    <3>2. logs[count].seq = sent + count
      BY <1>9, <3>1 DEF Consecutive
    <3>3. logs[count].seq \in 1 .. MaxSeq
      BY <1>8, <3>1, RecordsIn
    <3> QED
      BY <3>2, <3>3, SlotAssumption
  <2> QED
    BY <2>1, <2>2
<1> HIDE DEF count, sent
<1>11. new \in Seq(DataFrames)
  <2>1. Session.session \in SessionsOf(gen)
    BY <1>2 DEF SessionRecords
  <2>2. ASSUME NEW i \in 1 .. count
        PROVE  LogFrame(Session.session, PollSlot, logs[i]) \in DataFrames
    <3>1. logs[i] \in Records(gen)
      BY <1>8, <1>9
    <3> QED
      BY <1>2, <2>1, <3>1, LogFrameType
  <2>3. count \in Nat
    BY <1>8, <1>9
  <2> QED
    BY <2>2, <2>3
<1>12. p \in Polls /\ p.hello = poll.hello /\ p.loop = "build" /\ p.completed = poll.completed
  <2>1. poll.frames \o new \in Seq(DataFrames)
    BY <1>4, <1>11
  <2>2. poll.bytes + BytesOf(logs, count) \in Nat
    BY <1>4, <1>8, <1>9, BytesOfType
  <2>3. toobig \in BOOLEAN
    OBVIOUS
  <2> HIDE DEF new, toobig
  <2> QED
    BY <1>2, <1>3, <2>1, <2>2, <2>3 DEF Polls
<1>13. st \in ReplicaSlotState
  <2>1. (SlotState.needSnapshot \/ gap) \in BOOLEAN
    OBVIOUS
  <2> HIDE DEF gap
  <2> QED
    BY <1>6, <1>10, <2>1 DEF ReplicaSlotState
<1>14. resume \in Slots
  BY <1>2 DEF SessionRecords
<1>15. EndRound(p, st, poll.published, resume)
  BY DEF PollSendLogs, count, logs, sent
<1>16. st.acked = SlotState.acked
  BY <1>6 DEF ReplicaSlotState
<1>17. ASSUME NEW i \in 1 .. Len(p.frames)
       PROVE  \/ i \in 1 .. Len(poll.frames) /\ p.frames[i] = poll.frames[i]
              \/ Copied(p.frames[i])
  <2>1. p.frames = poll.frames \o new
    BY <1>2 DEF Polls
  <2>2. /\ Len(poll.frames) \in Nat /\ count \in Nat /\ Len(new) = count
        /\ Len(p.frames) = Len(poll.frames) + count
        /\ \A j \in 1 .. Len(poll.frames) : p.frames[j] = poll.frames[j]
        /\ \A j \in 1 .. count : p.frames[Len(poll.frames) + j] = new[j]
    <3>1. count \in Nat /\ Len(new) = count
      BY <1>8, <1>9
    <3> HIDE DEF new, p
    <3>2. /\ Len(poll.frames) \in Nat
          /\ Len(poll.frames \o new) = Len(poll.frames) + Len(new)
          /\ \A j \in 1 .. Len(poll.frames) : (poll.frames \o new)[j] = poll.frames[j]
      BY <1>4, <1>11
    <3>3. \A j \in 1 .. Len(new) : (poll.frames \o new)[Len(poll.frames) + j] = new[j]
      <4> SUFFICES ASSUME NEW j \in 1 .. Len(new)
                   PROVE  (poll.frames \o new)[Len(poll.frames) + j] = new[j]
        OBVIOUS
      <4>1. /\ Len(poll.frames) + j \in 1 .. Len(poll.frames) + Len(new)
            /\ ~(Len(poll.frames) + j <= Len(poll.frames))
            /\ (Len(poll.frames) + j) - Len(poll.frames) = j
        BY <3>1, <3>2
      <4> QED
        BY <1>4, <1>11, <4>1
    <3> QED
      BY <2>1, <3>1, <3>2, <3>3
  <2>3. ASSUME NEW j \in 1 .. count
        PROVE  Copied(new[j])
    <3>1. j \in 1 .. Len(logs) /\ new[j] = LogFrame(Session.session, PollSlot, logs[j])
      BY <1>8, <1>9, <2>3
    <3>2. CopiedAt(new[j], logs)
      BY <3>1 DEF CopiedAt
    <3>3. MaxBatchBytes - poll.bytes \in Int
      BY <1>4, LimitAssumption
    <3> HIDE DEF new, limit
    <3> QED
      BY <1>5, <3>2, <3>3 DEF Copied, logs, sent
  <2>4. CASE i \in 1 .. Len(poll.frames)
    BY <2>2, <2>4
  <2>5. CASE i \notin 1 .. Len(poll.frames)
    <3>1. PICK j \in 1 .. count : i = Len(poll.frames) + j
      <4>1. i - Len(poll.frames) \in 1 .. count /\ i = Len(poll.frames) + (i - Len(poll.frames))
        BY <2>2, <2>5
      <4> QED
        BY <4>1
    <3>2. p.frames[i] = new[j]
      BY <2>2, <3>1
    <3> QED
      BY <2>3, <3>2
  <2> QED
    BY <2>4, <2>5
<1> HIDE DEF p, st, resume
<1> QED
  BY <1>12, <1>13, <1>14, <1>15, <1>16, <1>17

(* Records go into the batch.                                              *)
LEMMA PollSendLogsType ==
    ASSUME MasterType, PollType, RoomInv, PollSendLogs
    PROVE  MasterType' /\ PollType'
<1>1. PICK p \in Polls, st \in ReplicaSlotState, resume \in Slots :
          /\ EndRound(p, st, poll.published, resume)
          /\ p.hello = poll.hello /\ p.loop = "build"
  BY PollSendLogsIs
<1>2. Polling /\ UNCHANGED <<slotVars, nextSession>>
  BY DEF PollSendLogs
<1>3. poll.published \in 0 .. MaxSeq
  BY <1>2, PollParts, PollFields
<1> QED
  BY <1>1, <1>2, <1>3, EndRoundType

-----------------------------------------------------------------------------
(* The other operations of the primary.                                    *)
LEMMA WriteSlotType ==
    ASSUME MasterType, PollType, NEW s \in Slots, WriteSlot(s)
    PROVE  MasterType' /\ PollType'
<1> DEFINE rec == [seq |-> seq[s] + 1, gen |-> gen, bytes |-> RecordBytes(s, seq[s] + 1)]
<1>1. seq[s] + 1 \in 1 .. MaxSeq
  BY SlotAssumption DEF MasterType, WriteSlot
<1>2. rec \in Records(gen)
  BY <1>1, LimitAssumption DEF Records
<1>3. seq' \in [Slots -> 0 .. MaxSeq]
  BY <1>1, SlotAssumption DEF MasterType, WriteSlot
<1>4. log' \in [Slots -> Seq(Records(gen))]
  <2>1. log' = [log EXCEPT ![s] = Append(@, rec)]
    BY DEF WriteSlot
  <2> HIDE DEF rec
  <2> QED
    BY <1>2, <2>1 DEF MasterType
<1>5. UNCHANGED <<gen, sessions, nextSession, poll>>
  BY DEF WriteSlot
<1>6. MasterType'
  BY <1>3, <1>4, <1>5 DEF MasterType
<1>7. PollType'
  BY <1>5 DEF PollType, Polling, Session, PollId, HelloPosition, PollSlot
<1> QED
  BY <1>6, <1>7

(* Poll begins with an old session or a new one.                           *)
LEMMA PollBeginType ==
    ASSUME MasterType, NEW hello \in Hellos, PollBegin(hello), nextSession' <= MaxSessions + 1
    PROVE  MasterType' /\ PollType' /\ Polling'
<1> DEFINE id == hello.id
           known == sessions[id] # NoReplica
           old == IF known THEN sessions[id] ELSE FreshSession
           reset == old.session = NoSession \/ hello.session # old.session
           name == IF reset THEN SessionId(gen, id, nextSession) ELSE old.session
           x == [old EXCEPT !.reset = reset, !.session = name]
<1>1. id \in ReplicaIds
  BY DEF Hellos
<1>2. /\ old.slots \in [Slots -> ReplicaSlotState] /\ old.nextSlot \in Slots
      /\ old \in [session : SessionsOf(gen) \cup {NoSession},
                  slots : [Slots -> ReplicaSlotState], nextSlot : Slots, reset : BOOLEAN]
  <2>1. CASE known
    BY <1>1, <2>1 DEF MasterType, SessionRecords
  <2>2. CASE ~known
    <3>1. [acked |-> 0, sent |-> 0, needSnapshot |-> FALSE] \in ReplicaSlotState
      BY SlotAssumption DEF ReplicaSlotState
    <3>2. 0 \in Slots
      BY SlotAssumption DEF Slots
    <3> QED
      BY <2>2, <3>1, <3>2 DEF FreshSession
  <2> QED
    BY <2>1, <2>2
<1>3. name \in SessionsOf(gen)
  <2>1. SessionId(gen, id, nextSession) \in SessionsOf(gen)
    BY <1>1, BoundAssumption DEF SessionId, SessionsOf, MasterType
  <2> HIDE DEF old
  <2> QED
    BY <1>2, <2>1
<1>4. x \in SessionRecords(gen)
  <2>1. reset \in BOOLEAN
    OBVIOUS
  <2> HIDE DEF old, name, reset
  <2> QED
    BY <1>2, <1>3, <2>1 DEF SessionRecords
<1>5. sessions' = [sessions EXCEPT ![id] = x]
  BY DEF PollBegin
<1>6. /\ poll' \in Polls /\ poll'.hello.id = id
      /\ poll'.loop = "hello" /\ poll'.step = "published"
  <2>1. 0 \in Slots /\ 0 \in 0 .. MaxSeq
    BY SlotAssumption DEF Slots
  <2>2. <<>> \in Seq(DataFrames)
    OBVIOUS
  <2>3. <<>> \in Completions
    <3>1. <<>> \in [{} -> 0 .. MaxSeq]
      OBVIOUS
    <3> QED
      BY <3>1 DEF Completions
  <2>4. StartPoll(hello) \in Polls
    BY <2>1, <2>2, <2>3 DEF StartPoll, Polls
  <2> QED
    BY <2>4 DEF PollBegin, StartPoll
<1> HIDE DEF x
<1>7. sessions' \in [ReplicaIds -> {NoReplica} \cup SessionRecords(gen)] /\ sessions'[id] = x
  BY <1>1, <1>4, <1>5 DEF MasterType
<1>8. nextSession' \in 1 .. MaxSessions + 1 /\ UNCHANGED slotVars
  BY BoundAssumption DEF PollBegin, MasterType
<1>9. MasterType'
  BY <1>6, <1>7, <1>8 DEF MasterType, slotVars
<1>10. Session' \in SessionRecords(gen')
  BY <1>4, <1>6, <1>7, <1>8 DEF Session, PollId, slotVars
<1> QED
  BY <1>6, <1>9, <1>10 DEF PollType, Polling

(* Poll ends.                                                              *)
LEMMA PollFinishType ==
    ASSUME MasterType, PollFinish
    PROVE  MasterType' /\ PollType'
BY DEF PollFinish, MasterType, PollType, Polling, NoPoll, slotVars

(* The smallest acknowledged position is a position.                       *)
LEMMA MinAckedType ==
    ASSUME MasterType, Known # {}, NEW s \in Slots
    PROVE  /\ MinAcked(s) \in 0 .. MaxSeq
           /\ \A id \in Known : MinAcked(s) <= sessions[id].slots[s].acked
<1> DEFINE T == {sessions[id].slots[s].acked : id \in Known}
<1>1. ASSUME NEW id \in Known
      PROVE  sessions[id].slots[s].acked \in 0 .. MaxSeq
  <2>1. sessions[id] \in SessionRecords(gen)
    BY DEF Known, MasterType
  <2>2. sessions[id].slots[s] \in ReplicaSlotState
    BY <2>1 DEF SessionRecords
  <2> QED
    BY <2>2 DEF ReplicaSlotState
<1>2. T \in SUBSET Nat /\ T # {}
  BY <1>1, SlotAssumption
<1>3. \E n \in T : \A m \in T : n <= m
  <2> HIDE DEF T
  <2> QED
    BY <1>2, LeastNumber
<1>4. \E n \in T : \A id \in Known : n <= sessions[id].slots[s].acked
  BY <1>3
<1>5. MinAcked(s) \in T /\ \A id \in Known : MinAcked(s) <= sessions[id].slots[s].acked
  BY <1>4 DEF MinAcked
<1> QED
  BY <1>1, <1>5

(* Garbage collection leaves logs.                                         *)
LEMMA MaintainType ==
    ASSUME MasterType, Maintain
    PROVE  MasterType' /\ PollType'
<1>1. CollectGarbage \in [Slots -> Seq(Records(gen))]
  <2>1. ASSUME NEW s \in Slots
        PROVE  (IF Known = {} THEN log[s] ELSE AckThrough(log[s], MinAcked(s))) \in Seq(Records(gen))
    <3>1. CASE Known = {}
      BY <3>1 DEF MasterType
    <3>2. CASE Known # {}
      <4>1. log[s] \in Seq(Records(gen)) /\ MinAcked(s) \in Nat
        BY <3>2, MinAckedType, SlotAssumption DEF MasterType
      <4> QED
        BY <3>2, <4>1, AckThroughType
    <3> QED
      BY <3>1, <3>2
  <2> QED
    BY <2>1 DEF CollectGarbage
<1>2. TotalBytes(CollectGarbage) \in Nat
  BY <1>1, TotalBytesType
<1>3. StartEviction(TotalBytes(CollectGarbage)) \in Evictions
  BY <1>2, SlotAssumption DEF StartEviction, Evictions, Slots
<1>4. poll' \in {NoPoll} \cup Evictions
  BY <1>3 DEF Maintain
<1>5. MasterType'
  BY <1>1, <1>4 DEF Maintain, MasterType
<1> QED
  BY <1>4, <1>5 DEF PollType, Polling, NoPoll, Evictions

(* Eviction empties a log and moves sent back to acked.                    *)
LEMMA EvictSlotType ==
    ASSUME MasterType, EvictSlot
    PROVE  MasterType' /\ PollType'
<1> DEFINE removed == RetainedBytes(log[poll.i])
           left == IF removed > poll.total THEN 0 ELSE poll.total - removed
<1>1. poll \in Evictions
  BY DEF EvictSlot, MasterType, Polls, NoPoll
<1>2. poll.i \in Slots /\ poll.total \in Nat /\ poll.i \in Nat
  BY <1>1 DEF Evictions, Slots
<1>3. log[poll.i] \in Seq(Records(gen))
  BY <1>2 DEF MasterType
<1>4. left \in Nat
  <2>1. removed \in Nat
    BY <1>3, BytesOfType DEF RetainedBytes
  <2> HIDE DEF removed
  <2> QED
    BY <1>2, <2>1
<1>5. log' \in [Slots -> Seq(Records(gen))]
  BY <1>2 DEF MasterType, EvictSlot
<1>6. sessions' \in [ReplicaIds -> {NoReplica} \cup SessionRecords(gen)]
  <2>1. ASSUME NEW id \in Known
        PROVE  EvictFrom(sessions[id], poll.i, MaxSeqOf(log[poll.i])) \in SessionRecords(gen)
    <3> DEFINE x == sessions[id]
    <3>1. x \in SessionRecords(gen)
      BY DEF Known, MasterType
    <3>2. x.slots \in [Slots -> ReplicaSlotState] /\ x.slots[poll.i] \in ReplicaSlotState
      BY <1>2, <3>1 DEF SessionRecords
    <3> DEFINE st == [x.slots[poll.i] EXCEPT !.needSnapshot = TRUE, !.sent = x.slots[poll.i].acked]
    <3>3. st \in ReplicaSlotState
      BY <3>2 DEF ReplicaSlotState
    <3>4. [x EXCEPT !.slots[poll.i] = st] \in SessionRecords(gen)
      <4> HIDE DEF st, x
      <4> QED
        BY <1>2, <3>1, <3>3, SessionUpdate
    <3>5. [x EXCEPT !.slots[poll.i].needSnapshot = TRUE, !.slots[poll.i].sent = x.slots[poll.i].acked]
              = [x EXCEPT !.slots[poll.i] = st]
      <4> HIDE DEF x
      <4> QED
        BY <1>2, <3>1, <3>2 DEF SessionRecords, ReplicaSlotState
    <3> QED
      BY <3>1, <3>4, <3>5 DEF EvictFrom
  <2> QED
    BY <2>1 DEF EvictSlot, MasterType, Known
<1>7. poll' \in {NoPoll} \cup Evictions
  <2>1. poll.i + 1 < SlotCount => poll.i + 1 \in Slots
    BY <1>2, SlotAssumption DEF Slots
  <2>2. poll' = IF poll.i + 1 < SlotCount /\ left > BinlogBudget
                THEN [poll EXCEPT !.i = @ + 1, !.total = left]
                ELSE NoPoll
    BY DEF EvictSlot
  <2> HIDE DEF left
  <2> QED
    BY <1>1, <1>4, <2>1, <2>2 DEF Evictions
<1>8. MasterType'
  BY <1>5, <1>6, <1>7 DEF EvictSlot, MasterType
<1> QED
  BY <1>7, <1>8 DEF PollType, Polling, NoPoll, Evictions

(* A restarted primary has nothing.                                        *)
LEMMA MasterRestartType ==
    ASSUME MasterType, gen < MaxGen, MasterRestart
    PROVE  MasterType' /\ PollType'
BY SlotAssumption, BoundAssumption
   DEF MasterRestart, MasterType, PollType, Polling, NoPoll

-----------------------------------------------------------------------------
(* The links.                                                              *)
LEMMA LinkParts ==
    ASSUME NEW k \in Links
    PROVE  /\ k.phase \in Phases
           /\ k.phase = "sent" => k.hello \in Hellos
           /\ k.phase \in {"reading", "started"} => k.frames \in Seq(Frames)
           /\ k.phase \in {"sent", "answering", "reading", "started"} => k.floor \in Floors
<1>1. CASE k \in {Idle} \cup [phase : {"lost"}]
  BY <1>1 DEF Idle, Phases
<1>2. CASE k \in [phase : {"sent"}, hello : Hellos, floor : Floors]
  BY <1>2 DEF Phases
<1>3. CASE k \in [phase : {"answering"}, floor : Floors]
  BY <1>3 DEF Phases
<1>4. CASE k \in [phase : {"reading", "started"}, frames : Seq(Frames), floor : Floors]
  BY <1>4 DEF Phases
<1> QED
  BY <1>1, <1>2, <1>3, <1>4 DEF Links

(* The links that steps make.                                              *)
LEMMA NewLinks ==
    ASSUME NEW floor \in Floors
    PROVE  /\ Idle \in Links /\ [phase |-> "lost"] \in Links
           /\ \A h \in Hellos : [phase |-> "sent", hello |-> h, floor |-> floor] \in Links
           /\ [phase |-> "answering", floor |-> floor] \in Links
           /\ \A fs \in Seq(Frames) :
                /\ [phase |-> "reading", frames |-> fs, floor |-> floor] \in Links
                /\ [phase |-> "started", frames |-> fs, floor |-> floor] \in Links
BY DEF Links

(* The HELLO a replica sends is well-formed.                               *)
LEMMA HelloType ==
    ASSUME NEW R \in ReplicaRecords, NEW id \in ReplicaIds
    PROVE  HelloFrame(id, R.session, ReportedPositions(R)) \in Hellos
<1>1. R.session \in SessionIds \cup {NoSession} /\ R.slots \in [Slots -> SlotApplyState]
  BY DEF ReplicaRecords
<1>2. \A s \in Slots : R.slots[s].applied \in 0 .. MaxSeq
  BY <1>1 DEF SlotApplyState
<1>3. ReportedPositions(R) \in [Slots -> Positions]
  BY <1>2, SlotAssumption DEF ReportedPositions, Positions, NoPosition
<1> QED
  BY <1>1, <1>3 DEF HelloFrame, Hellos

(* A finished batch: BEGIN, the frames built and DONE.                     *)
LEMMA BatchType ==
    ASSUME MasterType, PollType, Polling
    PROVE  /\ Batch \in Seq(Frames)
           /\ EndsWithDone(Batch)
           /\ \A i \in 1 .. Len(Batch) :
                Batch[i].type = "DONE" => Batch[i].completed = poll.completed
<1> DEFINE b == BeginFrame(Session.session, Session.reset)
           d == DoneFrame(Session.session, poll.completed)
<1>1. Session.session \in SessionIds /\ Session.reset \in BOOLEAN
  BY PollParts DEF SessionRecords, SessionsOf, SessionIds, MasterType
<1>2. poll.frames \in Seq(DataFrames) /\ poll.completed \in Completions
  BY PollParts, PollFields
<1>3. /\ poll.frames \in Seq(Frames)
      /\ \A j \in 1 .. Len(poll.frames) : poll.frames[j].type # "DONE"
  <2>1. \A j \in 1 .. Len(poll.frames) : poll.frames[j] \in DataFrames
    BY <1>2
  <2>2. \A j \in 1 .. Len(poll.frames) : poll.frames[j].type # "DONE"
    BY <2>1 DEF DataFrames, SnapshotFrames, LogFrames
  <2>3. \A j \in 1 .. Len(poll.frames) : poll.frames[j] \in Frames
    BY <2>1 DEF Frames
  <2> QED
    BY <1>2, <2>2, <2>3
<1>4. b \in Frames /\ b.type = "BEGIN"
  BY <1>1 DEF BeginFrame, BeginFrames, Frames
<1>5. d \in Frames /\ d.type = "DONE" /\ d.completed = poll.completed
  BY <1>1, <1>2 DEF DoneFrame, DoneFrames, Frames
<1> HIDE DEF b, d
<1> DEFINE c == <<b>> \o poll.frames
<1>6. c \in Seq(Frames) /\ Len(c) = Len(poll.frames) + 1 /\ c[1] = b
      /\ \A j \in 2 .. Len(c) : c[j] = poll.frames[j - 1]
  BY <1>4, <1>3
<1>7. Batch = c \o <<d>>
  BY DEF Batch, b, d
<1> HIDE DEF c
<1>8. Batch \in Seq(Frames) /\ Len(Batch) = Len(c) + 1 /\ Batch[Len(c) + 1] = d
      /\ \A j \in 1 .. Len(c) : Batch[j] = c[j]
  BY <1>5, <1>6, <1>7
<1>9. EndsWithDone(Batch)
  BY <1>5, <1>6, <1>8 DEF EndsWithDone
<1>10. ASSUME NEW i \in 1 .. Len(Batch), Batch[i].type = "DONE"
       PROVE  Batch[i].completed = poll.completed
  <2>1. CASE i = Len(c) + 1
    BY <1>5, <1>8, <2>1
  <2>2. CASE i = 1
    BY <1>2, <1>4, <1>6, <1>8, <1>10, <2>2
  <2>3. CASE i \in 2 .. Len(c)
    <3>1. i - 1 \in 1 .. Len(poll.frames) /\ Batch[i] = poll.frames[i - 1]
      BY <1>2, <1>6, <1>8, <2>3
    <3> QED
      BY <1>10, <1>3, <3>1
  <2> QED
    BY <1>2, <1>6, <1>8, <2>1, <2>2, <2>3
<1> QED
  BY <1>8, <1>9, <1>10

-----------------------------------------------------------------------------
(* The invariant holds initially and every step keeps it.                  *)
LEMMA InitInv == Init => TypeInv /\ RoomInv
<1> SUFFICES ASSUME Init PROVE TypeInv /\ RoomInv
  OBVIOUS
<1>1. MasterType
  BY SlotAssumption, BoundAssumption DEF Init, MasterInit, MasterType
<1>2. poll.loop = "none"
  BY DEF Init, MasterInit, NoPoll
<1>3. PollType /\ RoomInv
  BY <1>2 DEF PollType, RoomInv, NoBudgetUnderflow, Polling
<1>4. LinkType
  <2>1. rep \in [Replicas -> ReplicaRecords]
    BY FreshReplicaType DEF Init
  <2>2. link \in [Replicas -> Links]
    BY DEF Init, Links
  <2>3. BagToSet(stale) \subseteq Hellos /\ faults \in 0 .. MaxFaults
    BY EmptyBagType, BoundAssumption DEF Init
  <2> QED
    BY <2>1, <2>2, <2>3 DEF LinkType
<1>5. BatchesEnd
  BY DEF Init, BatchesEnd, Idle
<1> QED
  BY <1>1, <1>3, <1>4, <1>5 DEF TypeInv

(* A step that leaves the primary alone.                                   *)
LEMMA MasterUnchanged ==
    ASSUME MasterType, PollType, UNCHANGED masterVars
    PROVE  MasterType' /\ PollType'
BY DEF masterVars, MasterType, PollType, Polling, Session, PollId, HelloPosition, PollSlot

(* Every step keeps the types of the primary.                              *)
LEMMA MasterStep ==
    ASSUME TypeInv, RoomInv, Next
    PROVE  MasterType' /\ PollType'
<1> USE DEF TypeInv
<1>1. ASSUME NEW s \in Slots, Write(s)
      PROVE  MasterType' /\ PollType'
  BY <1>1, WriteSlotType DEF Write
<1>2. CASE Maintenance
  BY <1>2, MaintainType, EvictSlotType DEF Maintenance
<1>3. ASSUME NEW r \in Replicas, ServeHello(r)
      PROVE  MasterType' /\ PollType'
  <2>1. link[r].hello \in Hellos
    BY <1>3, LinkParts DEF ServeHello, LinkType
  <2> QED
    BY <1>3, <2>1, PollBeginType DEF ServeHello
<1>4. CASE ServeStaleHello
  BY <1>4, PollBeginType DEF ServeStaleHello, LinkType
<1>5. CASE PollStep
  BY <1>5, PollReadPublishedType, PollReadMinType, PollReadMaxType, PollEmptyLogType,
     PollSendSnapshotType, PollSendLogsType DEF PollStep
<1>6. CASE Answer
  BY <1>6, PollFinishType DEF Answer
<1>7. CASE RestartMaster
  BY <1>7, MasterRestartType DEF RestartMaster
<1>8. ASSUME NEW r \in Replicas,
             SendHello(r) \/ Receive(r) \/ GiveUp(r) \/ Disconnect(r) \/ RestartReplica(r)
      PROVE  MasterType' /\ PollType'
  BY <1>8, MasterUnchanged DEF SendHello, Receive, GiveUp, Disconnect, RestartReplica
<1> QED
  BY <1>1, <1>2, <1>3, <1>4, <1>5, <1>6, <1>7, <1>8 DEF Next

(* An abandoned HELLO joins the stale ones.                                *)
LEMMA AbandonType ==
    ASSUME LinkType, BatchesEnd, NEW r \in Replicas, Abandon(r)
    PROVE  /\ link' \in [Replicas -> Links]
           /\ BagToSet(stale') \subseteq Hellos
           /\ BatchesEnd'
<1>1. link \in [Replicas -> Links] /\ link[r] \in Links
  BY DEF LinkType
<1>2. Idle \in Links
  BY DEF Links
<1>3. link' \in [Replicas -> Links] /\ \A q \in Replicas : link'[q] = IF q = r THEN Idle ELSE link[q]
  BY <1>1, <1>2 DEF Abandon
<1>4. BagToSet(stale') \subseteq Hellos
  <2>1. link[r].phase = "sent" => link[r].hello \in Hellos
    BY <1>1, LinkParts
  <2>2. BagToSet(stale (+) SetToBag({link[r].hello})) = BagToSet(stale) \cup {link[r].hello}
    BY BagType
  <2> QED
    BY <2>1, <2>2 DEF Abandon, LinkType
<1>5. BatchesEnd'
  BY <1>3 DEF BatchesEnd, Idle
<1> QED
  BY <1>3, <1>4, <1>5

(* The next frame of a batch, and the batch without it.                    *)
LEMMA NextFrame ==
    ASSUME NEW fs \in Seq(Frames), EndsWithDone(fs)
    PROVE  /\ Head(fs) \in Frames
           /\ Head(fs) = fs[1] /\ 1 \in 1 .. Len(fs)
           /\ Tail(fs) \in Seq(Frames)
           /\ \A i \in 1 .. Len(Tail(fs)) : i + 1 \in 1 .. Len(fs) /\ Tail(fs)[i] = fs[i + 1]
           /\ Head(fs).type # "DONE" => EndsWithDone(Tail(fs))
<1>1. fs # <<>> /\ fs[Len(fs)].type = "DONE"
  BY DEF EndsWithDone
<1>2. /\ Head(fs) \in Frames /\ Head(fs) = fs[1] /\ Len(fs) \in Nat \ {0}
      /\ Tail(fs) \in Seq(Frames) /\ Len(Tail(fs)) = Len(fs) - 1
      /\ \A i \in 1 .. Len(Tail(fs)) : i + 1 \in 1 .. Len(fs) /\ Tail(fs)[i] = fs[i + 1]
  BY <1>1
<1>3. ASSUME Head(fs).type # "DONE"
      PROVE  EndsWithDone(Tail(fs))
  <2>1. Len(fs) # 1
    BY <1>1, <1>2, <1>3
  <2>2. Len(Tail(fs)) \in 1 .. Len(Tail(fs)) /\ Tail(fs)[Len(Tail(fs))] = fs[Len(fs)]
    BY <1>2, <2>1
  <2>3. Tail(fs) # <<>>
    <3>1. Len(Tail(fs)) # 0
      BY <1>2, <2>1
    <3>2. Len(<<>>) = 0
      OBVIOUS
    <3> QED
      BY <3>1, <3>2, Zenon
  <2> QED
    BY <1>1, <2>2, <2>3 DEF EndsWithDone
<1> QED
  BY <1>2, <1>3

(* Every step keeps the types of replicas and connections.                 *)
LEMMA LinkStep ==
    ASSUME TypeInv, Next
    PROVE  LinkType' /\ BatchesEnd'
<1>1. /\ rep \in [Replicas -> ReplicaRecords] /\ link \in [Replicas -> Links]
      /\ BagToSet(stale) \subseteq Hellos /\ faults \in 0 .. MaxFaults
      /\ BatchesEnd /\ MasterType /\ PollType
  BY DEF TypeInv, LinkType
<1>2. ASSUME UNCHANGED <<rep, link, stale, faults>>
      PROVE  LinkType' /\ BatchesEnd'
  BY <1>1, <1>2 DEF LinkType, BatchesEnd
<1>3. CASE (\E s \in Slots : Write(s)) \/ Maintenance \/ PollStep
  BY <1>2, <1>3 DEF Write, Maintenance, PollStep
<1>4. ASSUME NEW r \in Replicas, SendHello(r)
      PROVE  LinkType' /\ BatchesEnd'
  <2> DEFINE h == HelloFrame(IdOf[r], rep[r].session, ReportedPositions(rep[r]))
             k == [phase |-> "sent", hello |-> h, floor |-> seq]
  <2>1. h \in Hellos
    BY <1>1, HelloType, ReplicaAssumption
  <2>2. k \in Links
    <3> HIDE DEF h
    <3>1. seq \in Floors
      BY <1>1 DEF MasterType, Floors
    <3> QED
      BY <2>1, <3>1, NewLinks
  <2>3. k.phase = "sent"
    OBVIOUS
  <2>4. link' = [link EXCEPT ![r] = k] /\ UNCHANGED <<rep, stale, faults>>
    BY <1>4 DEF SendHello
  <2> HIDE DEF k
  <2>5. /\ link' \in [Replicas -> Links]
        /\ \A q \in Replicas : link'[q] = IF q = r THEN k ELSE link[q]
    BY <1>1, <2>2, <2>4
  <2> QED
    BY <1>1, <2>3, <2>4, <2>5 DEF LinkType, BatchesEnd
<1>5. ASSUME NEW r \in Replicas, ServeHello(r)
      PROVE  LinkType' /\ BatchesEnd'
  <2> DEFINE k == [phase |-> "answering", floor |-> link[r].floor]
  <2>1. k \in Links /\ k.phase = "answering"
    <3>1. link[r].floor \in Floors
      BY <1>1, <1>5, LinkParts DEF ServeHello
    <3> QED
      BY <3>1, NewLinks
  <2>2. link' = [link EXCEPT ![r] = k] /\ UNCHANGED <<rep, stale, faults>>
    BY <1>5 DEF ServeHello
  <2> HIDE DEF k
  <2>3. /\ link' \in [Replicas -> Links]
        /\ \A q \in Replicas : link'[q] = IF q = r THEN k ELSE link[q]
    BY <1>1, <2>1, <2>2
  <2> QED
    BY <1>1, <2>1, <2>2, <2>3 DEF LinkType, BatchesEnd
<1>6. CASE ServeStaleHello
  <2>1. UNCHANGED <<rep, link, faults>> /\ BagToSet(stale') \subseteq BagToSet(stale)
    BY <1>6, BagType DEF ServeStaleHello
  <2> QED
    BY <1>1, <2>1 DEF LinkType, BatchesEnd
<1>7. CASE Answer
  <2>1. Polling /\ UNCHANGED <<rep, stale, faults>>
    BY <1>7 DEF Answer, PollFinish
  <2>2. Batch \in Seq(Frames) /\ EndsWithDone(Batch)
    BY <1>1, <2>1, BatchType
  <2> DEFINE Read(r) == IF link[r].phase = "answering"
                        THEN [phase |-> "reading", frames |-> Batch, floor |-> link[r].floor]
                        ELSE link[r]
  <2>3. ASSUME NEW r \in Replicas
        PROVE  /\ Read(r) \in Links
               /\ Read(r).phase \in {"reading", "started"} => EndsWithDone(Read(r).frames)
    <3>1. CASE link[r].phase = "answering"
      <4>1. link[r].floor \in Floors
        BY <1>1, <3>1, LinkParts
      <4> QED
        BY <2>2, <3>1, <4>1, NewLinks
    <3>2. CASE link[r].phase # "answering"
      BY <1>1, <3>2 DEF BatchesEnd
    <3> QED
      BY <3>1, <3>2
  <2>4. link' = [r \in Replicas |-> Read(r)]
    BY <1>7 DEF Answer
  <2> HIDE DEF Read
  <2> QED
    BY <1>1, <2>1, <2>3, <2>4 DEF LinkType, BatchesEnd
<1>8. ASSUME NEW r \in Replicas, Receive(r)
      PROVE  LinkType' /\ BatchesEnd'
  <2> DEFINE fs == link[r].frames
             frame == Head(fs)
             inPlace == (frame.type = "BEGIN") = (link[r].phase = "reading")
             result == EnqueueFrame(rep[r], frame)
             goesOn == inPlace /\ result.ok /\ frame.type # "DONE"
             k == IF goesOn
                  THEN [phase |-> "started", frames |-> Tail(fs), floor |-> link[r].floor]
                  ELSE Idle
  <2>1. link[r].phase \in {"reading", "started"} /\ UNCHANGED <<stale, faults>>
    BY <1>8 DEF Receive
  <2>2. fs \in Seq(Frames) /\ EndsWithDone(fs) /\ link[r].floor \in Floors
    BY <1>1, <2>1, LinkParts DEF BatchesEnd
  <2>3. frame \in Frames /\ Tail(fs) \in Seq(Frames)
        /\ (frame.type # "DONE" => EndsWithDone(Tail(fs)))
    BY <2>2, NextFrame
  <2>4. result.replica \in ReplicaRecords
    <3> HIDE DEF frame
    <3> QED
      BY <1>1, <2>3, EnqueueFrameType
  <2>5. /\ rep' = IF inPlace THEN [rep EXCEPT ![r] = result.replica] ELSE rep
        /\ link' = [link EXCEPT ![r] = k]
    <3>1. rep' = IF inPlace THEN [rep EXCEPT ![r] = result.replica] ELSE rep
      BY <1>8 DEF Receive
    <3>2. link' = [link EXCEPT ![r] = k]
      BY <1>8 DEF Receive
    <3> QED
      BY <3>1, <3>2
  <2>6. k \in Links /\ (k.phase \in {"reading", "started"} => EndsWithDone(k.frames))
    <3>1. CASE goesOn
      BY <2>2, <2>3, <3>1, NewLinks
    <3>2. CASE ~goesOn
      BY <3>2 DEF Links, Idle
    <3> QED
      BY <3>1, <3>2
  <2> HIDE DEF result, inPlace, k
  <2>7. /\ rep' \in [Replicas -> ReplicaRecords]
        /\ link' \in [Replicas -> Links]
        /\ \A q \in Replicas : link'[q] = IF q = r THEN k ELSE link[q]
    BY <1>1, <2>4, <2>5, <2>6
  <2> QED
    BY <1>1, <2>1, <2>6, <2>7 DEF LinkType, BatchesEnd
<1>9. ASSUME NEW r \in Replicas, GiveUp(r) \/ Disconnect(r) \/ RestartReplica(r)
      PROVE  LinkType' /\ BatchesEnd'
  <2>1. Abandon(r)
    BY <1>9 DEF GiveUp, Disconnect, RestartReplica
  <2>2. faults' \in 0 .. MaxFaults
    BY <1>1, <1>9, BoundAssumption DEF GiveUp, Disconnect, RestartReplica
  <2>3. rep' \in [Replicas -> ReplicaRecords]
    BY <1>1, <1>9, FreshReplicaType DEF GiveUp, Disconnect, RestartReplica
  <2> QED
    BY <2>1, <2>2, <2>3, AbandonType DEF LinkType, TypeInv
<1>10. CASE RestartMaster
  <2>1. UNCHANGED rep /\ stale' = EmptyBag /\ faults' \in 0 .. MaxFaults
    BY <1>1, <1>10, BoundAssumption DEF RestartMaster
  <2>2. BagToSet(stale') \subseteq Hellos
    BY <2>1, EmptyBagType
  <2>3. [phase |-> "lost"] \in Links
    BY DEF Links
  <2>4. /\ link' \in [Replicas -> Links]
        /\ \A r \in Replicas : link'[r] = [phase |-> "lost"] \/ link'[r] = link[r]
    BY <1>1, <1>10, <2>3 DEF RestartMaster
  <2> QED
    BY <1>1, <2>1, <2>2, <2>4 DEF LinkType, BatchesEnd
<1> QED
  BY <1>3, <1>4, <1>5, <1>6, <1>7, <1>8, <1>9, <1>10 DEF Next

(* The end of a round leaves room, or notes that the batch is full.        *)
LEMMA EndRoundRoom ==
    ASSUME MasterType, PollType, Polling, NEW p \in Polls, p.loop = "build",
           NEW st \in ReplicaSlotState, NEW target \in 0 .. MaxSeq, NEW resume,
           EndRound(p, st, target, resume)
    PROVE  RoomInv'
<1> DEFINE filled == ~p.full /\ AtLimit(p)
           q == [p EXCEPT !.full = @ \/ filled,
                          !.completed = IF st.needSnapshot THEN @
                                        ELSE AddCompleted(@, PollSlot, target)]
<1>1. poll' = NextPollSlot(q)
  BY DEF EndRound
<1>2. q \in Polls /\ q.loop = "build" /\ q.bytes = p.bytes /\ q.full = (p.full \/ filled)
  <2>1. p.completed \in Completions /\ AddCompleted(p.completed, PollSlot, target) \in Completions
    BY PollFields, PollParts, CompletionType
  <2>2. (p.full \/ filled) \in BOOLEAN
    OBVIOUS
  <2> HIDE DEF filled
  <2> QED
    BY <2>1, <2>2 DEF Polls
<1>3. p.bytes \in Nat
  BY PollFields
<1>4. ~q.full => q.bytes < MaxBatchBytes
  <2> HIDE DEF q
  <2>1. ~(p.full \/ filled) => ~(p.bytes >= MaxBatchBytes)
    BY DEF AtLimit
  <2>2. ~(p.bytes >= MaxBatchBytes) => q.bytes < MaxBatchBytes
    BY <1>2, <1>3, LimitAssumption
  <2> QED
    BY <1>2, <2>1, <2>2, Zenon
<1>5. Session.nextSlot \in Slots
  BY PollParts DEF SessionRecords
<1> HIDE DEF q
<1>6. /\ poll'.loop = "build" /\ poll'.step \in {"published", "finish"}
      /\ ~poll'.full => poll'.bytes < MaxBatchBytes
  BY <1>1, <1>2, <1>4, <1>5, NextPollSlotType
<1> QED
  BY <1>6 DEF RoomInv, NoBudgetUnderflow

(* A step of the HELLO loop builds no frame.                               *)
LEMMA SetHelloSlotRoom ==
    ASSUME MasterType, PollType, RoomInv, poll.loop = "hello",
           NEW position, NEW need, SetHelloSlot(position, need)
    PROVE  RoomInv'
<1>1. Polling
  BY DEF Polling
<1>2. poll \in Polls /\ Session.nextSlot \in Slots
  BY <1>1, PollParts DEF SessionRecords
<1>3. /\ poll'.frames = <<>> /\ poll'.bytes = 0
      /\ poll'.step \in {"published", "finish"}
  BY <1>2, NextPollSlotType DEF SetHelloSlot, RoomInv
<1> QED
  BY <1>3, LimitAssumption DEF RoomInv, NoBudgetUnderflow

(* A step that reads something adds no frame.                              *)
LEMMA ReadRoom ==
    ASSUME RoomInv, poll'.loop = poll.loop, poll'.frames = poll.frames,
           poll'.bytes = poll.bytes, poll'.full = poll.full,
           poll.loop = "build" =>
               poll.bytes < MaxBatchBytes /\ Len(poll.frames) < MaxFrames
    PROVE  RoomInv'
BY DEF RoomInv, NoBudgetUnderflow

(* The decision between log and snapshot takes no room.                    *)
LEMMA UseBacklogRoom ==
    ASSUME MasterType, PollType, RoomInv, Polling, poll.step \in {"max", "empty"}, NEW found,
           UseBacklog(found)
    PROVE  RoomInv'
<1>1. CASE poll.loop = "hello"
  BY <1>1, SetHelloSlotRoom DEF UseBacklog
<1>2. CASE poll.loop # "hello"
  <2>1. poll \in Polls /\ poll.loop = "build"
    BY <1>2, PollParts, PollFields
  <2>2. /\ poll'.loop = poll.loop /\ poll'.frames = poll.frames
        /\ poll'.bytes = poll.bytes /\ poll'.full = poll.full
    BY <1>2, <2>1 DEF UseBacklog, Polls
  <2> QED
    BY <2>1, <2>2, ReadRoom DEF RoomInv, NoBudgetUnderflow, Polling
<1> QED
  BY <1>1, <1>2

(* Every step of Poll keeps the batch within its limits.                   *)
LEMMA PollRoom ==
    ASSUME MasterType, PollType, RoomInv, PollStep
    PROVE  RoomInv'
<1>1. Polling
  BY DEF PollStep, PollReadPublished, PollReadMin, PollReadMax, PollEmptyLog,
         PollSendSnapshot, PollSendLogs
<1>2. /\ poll \in Polls /\ Session.nextSlot \in Slots /\ SlotState \in ReplicaSlotState
      /\ PollSlot \in Slots /\ seq[PollSlot] \in 0 .. MaxSeq /\ poll.published \in 0 .. MaxSeq
  BY <1>1, PollParts, PollFields DEF SessionRecords, MasterType
<1>3. CASE PollReadPublished
  <2> DEFINE p == [poll EXCEPT !.published = seq[PollSlot]]
  <2>1. /\ p \in Polls /\ p.loop = poll.loop /\ p.frames = poll.frames
        /\ p.bytes = poll.bytes /\ p.full = poll.full
    BY <1>2 DEF Polls
  <2> HIDE DEF p
  <2>2. CASE poll.loop = "hello" /\ SetHelloSlot(0, TRUE)
    BY <2>2, SetHelloSlotRoom
  <2>3. CASE poll.loop = "hello" /\ poll' = [p EXCEPT !.step = "min"]
    <3>1. /\ poll'.loop = poll.loop /\ poll'.frames = poll.frames
          /\ poll'.bytes = poll.bytes /\ poll'.full = poll.full
      BY <2>1, <2>3 DEF Polls
    <3> QED
      BY <2>3, <3>1, ReadRoom
  <2>4. CASE /\ poll.loop = "build"
             /\ EndRound(p, SlotState, seq[PollSlot], Session.nextSlot)
    BY <1>1, <1>2, <2>1, <2>4, EndRoundRoom
  <2>5. CASE /\ poll.loop = "build"
             /\ ~poll.full
             /\ Len(poll.frames) < MaxFrames
             /\ poll' = [p EXCEPT !.step = IF SlotState.needSnapshot THEN "snapshot" ELSE "min"]
    <3>1. /\ poll'.loop = poll.loop /\ poll'.frames = poll.frames
          /\ poll'.bytes = poll.bytes /\ poll'.full = poll.full
      BY <2>1, <2>5 DEF Polls
    <3> QED
      BY <2>5, <3>1, ReadRoom DEF RoomInv
  <2> QED
    BY <1>3, <2>2, <2>3, <2>4, <2>5 DEF PollReadPublished, p
<1>4. CASE PollReadMin
  <2>1. /\ poll'.loop = poll.loop /\ poll'.frames = poll.frames
        /\ poll'.bytes = poll.bytes /\ poll'.full = poll.full
    BY <1>2, <1>4 DEF PollReadMin, Polls
  <2> QED
    BY <1>1, <1>4, <2>1, ReadRoom DEF PollReadMin, RoomInv, NoBudgetUnderflow
<1>5. CASE PollReadMax
  <2>1. CASE poll' = [poll EXCEPT !.step = "empty"]
    <3>1. /\ poll'.loop = poll.loop /\ poll'.frames = poll.frames
          /\ poll'.bytes = poll.bytes /\ poll'.full = poll.full
      BY <1>2, <2>1 DEF Polls
    <3> QED
      BY <1>1, <1>5, <3>1, ReadRoom DEF PollReadMax, RoomInv, NoBudgetUnderflow
  <2>2. ASSUME UseBacklog(poll.min <= Wanted /\ Wanted <= MaxSeqOf(log[PollSlot]) + 1)
        PROVE  RoomInv'
    BY <1>1, <1>5, <2>2, UseBacklogRoom DEF PollReadMax
  <2> QED
    BY <1>5, <2>1, <2>2 DEF PollReadMax
<1>6. CASE PollEmptyLog
  BY <1>6, UseBacklogRoom DEF PollEmptyLog
<1>7. CASE PollSendSnapshot
  <2> DEFINE frame == BuildSnapshotFrame(Session.session, PollSlot)
             size == SnapshotBytes(PollSlot, Len(frame.content))
  <2>1. poll.loop = "build"
    BY <1>2, <1>7, PollFields DEF PollSendSnapshot, PollType
  <2>2. Session.session \in SessionsOf(gen)
    BY <1>1, PollParts DEF SessionRecords
  <2>3. frame \in DataFrames /\ frame.base \in 0 .. MaxSeq /\ size \in Nat
    BY <1>2, <2>2, SnapshotFrameType
  <2> HIDE DEF size, frame
  <2>4. CASE EndRound([poll EXCEPT !.frames = Append(@, frame), !.bytes = @ + size],
                      [SlotState EXCEPT !.sent = frame.base, !.needSnapshot = FALSE],
                      frame.base, Session.nextSlot)
    <3> DEFINE p == [poll EXCEPT !.frames = Append(@, frame), !.bytes = @ + size]
               st == [SlotState EXCEPT !.sent = frame.base, !.needSnapshot = FALSE]
    <3>1. Append(poll.frames, frame) \in Seq(DataFrames) /\ poll.bytes + size \in Nat
      BY <1>2, <2>3, PollFields
    <3>2. p \in Polls /\ p.loop = "build"
      BY <1>2, <2>1, <3>1 DEF Polls
    <3>3. st \in ReplicaSlotState
      BY <1>2, <2>3 DEF ReplicaSlotState
    <3> HIDE DEF p, st
    <3> QED
      BY <1>1, <2>3, <2>4, <3>2, <3>3, EndRoundRoom DEF p, st
  <2>5. CASE EndRound([poll EXCEPT !.full = TRUE], SlotState, poll.published, PollSlot)
    <3> DEFINE p == [poll EXCEPT !.full = TRUE]
    <3>1. p \in Polls /\ p.loop = "build"
      BY <1>2, <2>1 DEF Polls
    <3> HIDE DEF p
    <3> QED
      BY <1>1, <1>2, <2>5, <3>1, EndRoundRoom DEF p
  <2> QED
    BY <1>7, <2>4, <2>5 DEF PollSendSnapshot, frame, size
<1>8. CASE PollSendLogs
  <2>1. PICK p \in Polls, st \in ReplicaSlotState, resume \in Slots :
            EndRound(p, st, poll.published, resume) /\ p.loop = "build"
    BY <1>8, PollSendLogsIs
  <2> QED
    BY <1>1, <1>2, <2>1, EndRoundRoom
<1> QED
  BY <1>3, <1>4, <1>5, <1>6, <1>7, <1>8 DEF PollStep

(* So does every other step.                                               *)
LEMMA RoomStep ==
    ASSUME TypeInv, RoomInv, Next
    PROVE  RoomInv'
<1> USE DEF TypeInv
<1>1. CASE PollStep
  BY <1>1, PollRoom
<1>2. ASSUME poll'.loop \in {"none", "evict"}
      PROVE  RoomInv'
  BY <1>2 DEF RoomInv, NoBudgetUnderflow, Polling
<1>3. CASE Maintenance
  <2>1. poll'.loop \in {"none", "evict"}
    <3>1. CASE Maintain
      BY <3>1 DEF Maintain, StartEviction, NoPoll
    <3>2. CASE EvictSlot
      <4>1. poll \in Evictions
        BY <3>2 DEF EvictSlot, MasterType, Polls, NoPoll
      <4> QED
        BY <3>2, <4>1 DEF EvictSlot, NoPoll, Evictions
    <3> QED
      BY <1>3, <3>1, <3>2 DEF Maintenance
  <2> QED
    BY <1>2, <2>1
<1>4. CASE Answer \/ RestartMaster
  BY <1>2, <1>4 DEF Answer, RestartMaster, PollFinish, MasterRestart, NoPoll
<1>5. ASSUME NEW hello, PollBegin(hello)
      PROVE  RoomInv'
  BY <1>5 DEF PollBegin, StartPoll, RoomInv, NoBudgetUnderflow, Polling
<1>6. CASE ServeStaleHello \/ \E r \in Replicas : ServeHello(r)
  BY <1>5, <1>6 DEF ServeStaleHello, ServeHello
<1>7. ASSUME UNCHANGED poll
      PROVE  RoomInv'
  BY <1>7 DEF RoomInv, NoBudgetUnderflow, Polling
<1>8. CASE \E s \in Slots : Write(s)
  BY <1>7, <1>8 DEF Write, WriteSlot
<1>9. ASSUME NEW r \in Replicas,
             SendHello(r) \/ Receive(r) \/ GiveUp(r) \/ Disconnect(r) \/ RestartReplica(r)
      PROVE  RoomInv'
  BY <1>7, <1>9 DEF SendHello, Receive, GiveUp, Disconnect, RestartReplica, masterVars
<1> QED
  BY <1>1, <1>3, <1>4, <1>6, <1>8, <1>9 DEF Next

-----------------------------------------------------------------------------
(* Every step keeps both invariants.                                       *)
LEMMA InvStep ==
    TypeInv /\ RoomInv /\ [Next]_vars => TypeInv' /\ RoomInv'
<1> SUFFICES ASSUME TypeInv, RoomInv, [Next]_vars PROVE TypeInv' /\ RoomInv'
  OBVIOUS
<1>1. CASE Next
  BY <1>1, MasterStep, LinkStep, RoomStep DEF TypeInv
<1>2. CASE UNCHANGED vars
  <2>1. MasterType' /\ PollType'
    BY <1>2, MasterUnchanged DEF TypeInv, vars
  <2>2. LinkType' /\ BatchesEnd'
    BY <1>2 DEF TypeInv, LinkType, BatchesEnd, vars
  <2>3. RoomInv'
    BY <1>2 DEF RoomInv, NoBudgetUnderflow, Polling, vars, masterVars
  <2> QED
    BY <2>1, <2>2, <2>3 DEF TypeInv
<1> QED
  BY <1>1, <1>2

(* TypeInv and RoomInv are invariants of every behaviour.                  *)
LEMMA InvAlways == Spec => [](TypeInv /\ RoomInv)
<1>1. Init => TypeInv /\ RoomInv
  BY InitInv
<1>2. TypeInv /\ RoomInv /\ [Next]_vars => (TypeInv /\ RoomInv)'
  BY InvStep
<1> QED
  BY <1>1, <1>2, PTL DEF Spec

(* Positions, sequence numbers, sessions and cursors stay in their ranges  *)
(* at every point of Poll, Maintain and EnqueueFrame, for every number of  *)
(* slots, replicas, writes and faults and for every limit of a batch.      *)
THEOREM TypesAreKept == Spec => []TypeOK
<1>1. TypeInv => TypeOK
  <2> SUFFICES ASSUME TypeInv PROVE TypeOK
    OBVIOUS
  <2>1. /\ gen \in 1 .. MaxGen /\ seq \in [Slots -> 0 .. MaxSeq]
        /\ nextSession \in 1 .. MaxSessions + 1 /\ faults \in 0 .. MaxFaults
    BY DEF TypeInv, MasterType, LinkType
  <2>2. \A s \in Slots : log[s] \in Seq([seq : 1 .. MaxSeq, gen : {gen}, bytes : Nat])
    BY DEF TypeInv, MasterType, Records
  <2>3. \A id \in ReplicaIds : sessions[id] # NoReplica =>
            sessions[id].slots \in [Slots -> ReplicaSlotState] /\ sessions[id].nextSlot \in Slots
    BY DEF TypeInv, MasterType, SessionRecords
  <2>4. Polling => /\ poll.published \in 0 .. MaxSeq
                   /\ poll.start \in Slots
                   /\ DOMAIN poll.completed \subseteq Slots
    BY PollParts, PollFields DEF TypeInv, Completions
  <2>5. \A r \in Replicas : /\ rep[r].slots \in [Slots -> SlotApplyState]
                            /\ link[r].phase \in Phases
    BY LinkParts DEF TypeInv, LinkType, ReplicaRecords
  <2> QED
    BY <2>1, <2>2, <2>3, <2>4, <2>5 DEF TypeOK
<1> QED
  BY <1>1, InvAlways, PTL

(* The bytes and frames a batch may still take never wrap around, in the   *)
(* unsigned subtractions of BuildFrames, whatever the sizes of records and *)
(* snapshots are.                                                          *)
THEOREM BudgetNeverUnderflows == Spec => []NoBudgetUnderflow
<1>1. RoomInv => NoBudgetUnderflow
  BY DEF RoomInv
<1> QED
  BY <1>1, InvAlways, PTL

-----------------------------------------------------------------------------
(* What EnqueueFrame does to a slot.  A frame changes the content of a     *)
(* slot and hides it, or it changes no content; only DONE makes a slot     *)
(* readable; and the content stays what the writes up to the slot's        *)
(* position produced.                                                      *)
PrefixRecord(R) ==
    R.session # NoSession =>
        \A s \in Slots : R.content[s] = Prefix(R.session[1], R.slots[s].applied)

HidesChanges(R, Q) ==
    \A s \in Slots : Q.content[s] # R.content[s] => Q.slots[s].state # "Online"

OpensOnlyBy(R, Q, f) ==
    \A s \in Slots : R.slots[s].state # "Online" /\ Q.slots[s].state = "Online" =>
        /\ f.type = "DONE"
        /\ s \in DOMAIN f.completed
        /\ Q.slots[s].applied >= f.completed[s]

Correct(R, Q, f) ==
    /\ PrefixRecord(R) => PrefixRecord(Q)
    /\ HidesChanges(R, Q)
    /\ OpensOnlyBy(R, Q, f)

(* A frame that changes nothing.                                           *)
LEMMA SameIsCorrect ==
    ASSUME NEW R, NEW f
    PROVE  Correct(R, R, f)
BY DEF Correct, HidesChanges, OpensOnlyBy

(* BEGIN.                                                                  *)
LEMMA ApplyBeginCorrect ==
    ASSUME NEW R \in ReplicaRecords, NEW f \in Frames, f.type = "BEGIN"
    PROVE  Correct(R, ApplyBegin(R, f).replica, f)
<1> DEFINE Q == [FreshReplica EXCEPT !.session = f.session]
<1>1. /\ Q.session = f.session
      /\ \A s \in Slots : /\ Q.content[s] = <<>>
                          /\ Q.slots[s].applied = 0
                          /\ Q.slots[s].state = "Offline"
  BY DEF FreshReplica, FreshSlot
<1>2. f.session[1] \in Nat
  BY FrameParts, SessionsAreReal
<1> HIDE DEF Q
<1>3. PrefixRecord(Q)
  BY <1>1, <1>2, PrefixType DEF PrefixRecord
<1>4. Correct(R, Q, f)
  BY <1>1, <1>3 DEF Correct, HidesChanges, OpensOnlyBy
<1> QED
  BY <1>4, SameIsCorrect DEF ApplyBegin, Accept, Reject, Q

(* LOG.                                                                    *)
LEMMA ApplyLogCorrect ==
    ASSUME NEW R \in ReplicaRecords, NEW f \in Frames, f.type = "LOG",
           R.session # NoSession, f.session = R.session
    PROVE  Correct(R, ApplyLog(R, f).replica, f)
<1> DEFINE P == [R EXCEPT !.slots[f.slot].needSnapshot = TRUE, !.slots[f.slot].state = "Offline"]
           Q == [R EXCEPT !.slots[f.slot].applied = f.record.seq,
                          !.slots[f.slot].state = "CatchingUp",
                          !.content[f.slot] = Append(@, <<f.record.gen, f.record.seq>>)]
<1>1. /\ f.slot \in Slots /\ f.record.seq \in 1 .. MaxSeq /\ f.record.gen = R.session[1]
      /\ R.session[1] \in Nat
  BY FrameParts, SessionsAreReal
<1>2. /\ R.slots \in [Slots -> SlotApplyState] /\ R.content \in [Slots -> Contents]
      /\ R \in [session : SessionIds \cup {NoSession}, slots : [Slots -> SlotApplyState],
                content : [Slots -> Contents]]
  BY DEF ReplicaRecords
<1>3. R.slots[f.slot] \in SlotApplyState /\ R.slots[f.slot].applied \in Nat
  BY <1>1, <1>2, SlotAssumption DEF SlotApplyState
<1>4. /\ P.session = R.session /\ P.content = R.content
      /\ \A s \in Slots : /\ P.slots[s].applied = R.slots[s].applied
                          /\ P.slots[s].state = IF s = f.slot THEN "Offline" ELSE R.slots[s].state
  BY <1>1, <1>2, <1>3 DEF SlotApplyState
<1>5. Correct(R, P, f)
  <2> HIDE DEF P
  <2> QED
    BY <1>4 DEF Correct, PrefixRecord, HidesChanges, OpensOnlyBy
<1>6. /\ Q.session = R.session
      /\ \A s \in Slots :
            /\ s # f.slot => Q.slots[s] = R.slots[s] /\ Q.content[s] = R.content[s]
            /\ s = f.slot => /\ Q.slots[s].applied = f.record.seq
                             /\ Q.slots[s].state = "CatchingUp"
                             /\ Q.content[s] = Append(R.content[s], <<f.record.gen, f.record.seq>>)
  BY <1>1, <1>2, <1>3 DEF SlotApplyState
<1>7. ASSUME f.record.seq = R.slots[f.slot].applied + 1
      PROVE  Correct(R, Q, f)
  <2> HIDE DEF Q
  <2>1. ASSUME PrefixRecord(R), NEW s \in Slots
        PROVE  Q.content[s] = Prefix(Q.session[1], Q.slots[s].applied)
    <3>1. R.content[s] = Prefix(R.session[1], R.slots[s].applied)
      BY <2>1 DEF PrefixRecord
    <3>2. CASE s = f.slot
      <4>1. Append(Prefix(R.session[1], R.slots[s].applied), <<R.session[1], R.slots[s].applied + 1>>)
                = Prefix(R.session[1], R.slots[s].applied + 1)
        BY <1>1, <1>3, <3>2, PrefixType
      <4> QED
        BY <1>1, <1>6, <1>7, <3>1, <3>2, <4>1
    <3>3. CASE s # f.slot
      BY <1>6, <3>1, <3>3
    <3> QED
      BY <3>2, <3>3
  <2> QED
    BY <1>6, <2>1 DEF Correct, PrefixRecord, HidesChanges, OpensOnlyBy
<1> HIDE DEF P, Q
<1> QED
  BY <1>5, <1>7, SameIsCorrect DEF ApplyLog, Accept, Reject, P, Q

(* SNAPSHOT.                                                               *)
LEMMA ApplySnapshotCorrect ==
    ASSUME NEW R \in ReplicaRecords, NEW f \in Frames, f.type = "SNAPSHOT",
           f.session = R.session
    PROVE  Correct(R, ApplySnapshot(R, f).replica, f)
<1> DEFINE P == [R EXCEPT !.slots[f.slot].state = "Offline", !.slots[f.slot].needSnapshot = TRUE]
           Q == [R EXCEPT !.slots[f.slot] = [state |-> "CatchingUp", applied |-> f.base,
                                             needSnapshot |-> FALSE],
                          !.content[f.slot] = f.content]
<1>1. f.slot \in Slots /\ f.content = Prefix(R.session[1], f.base)
  BY FrameParts
<1>2. /\ R.slots \in [Slots -> SlotApplyState] /\ R.content \in [Slots -> Contents]
      /\ R \in [session : SessionIds \cup {NoSession}, slots : [Slots -> SlotApplyState],
                content : [Slots -> Contents]]
  BY DEF ReplicaRecords
<1>3. R.slots[f.slot] \in SlotApplyState
  BY <1>1, <1>2
<1>4. /\ P.session = R.session /\ P.content = R.content
      /\ \A s \in Slots : /\ P.slots[s].applied = R.slots[s].applied
                          /\ P.slots[s].state = IF s = f.slot THEN "Offline" ELSE R.slots[s].state
  BY <1>1, <1>2, <1>3 DEF SlotApplyState
<1>5. Correct(R, P, f)
  <2> HIDE DEF P
  <2> QED
    BY <1>4 DEF Correct, PrefixRecord, HidesChanges, OpensOnlyBy
<1>6. /\ Q.session = R.session
      /\ \A s \in Slots :
            /\ s # f.slot => Q.slots[s] = R.slots[s] /\ Q.content[s] = R.content[s]
            /\ s = f.slot => /\ Q.slots[s].applied = f.base
                             /\ Q.slots[s].state = "CatchingUp"
                             /\ Q.content[s] = f.content
  BY <1>1, <1>2
<1>7. Correct(R, Q, f)
  <2> HIDE DEF Q
  <2> QED
    BY <1>1, <1>6 DEF Correct, PrefixRecord, HidesChanges, OpensOnlyBy
<1> HIDE DEF P, Q
<1> QED
  BY <1>5, <1>7 DEF ApplySnapshot, Accept, Reject, P, Q

(* DONE.                                                                   *)
LEMMA ApplyDoneCorrect ==
    ASSUME NEW R \in ReplicaRecords, NEW f \in Frames, f.type = "DONE"
    PROVE  Correct(R, ApplyDone(R, f).replica, f)
<1> DEFINE slots == [s \in Slots |->
              IF s \in DOMAIN f.completed /\ ~R.slots[s].needSnapshot
              THEN [R.slots[s] EXCEPT !.state =
                      IF R.slots[s].applied >= f.completed[s] THEN "Online" ELSE "CatchingUp"]
              ELSE R.slots[s]]
           Q == [R EXCEPT !.slots = slots]
<1>1. /\ R.slots \in [Slots -> SlotApplyState]
      /\ R \in [session : SessionIds \cup {NoSession}, slots : [Slots -> SlotApplyState],
                content : [Slots -> Contents]]
  BY DEF ReplicaRecords
<1>2. ASSUME NEW s \in Slots
      PROVE  /\ slots[s].applied = R.slots[s].applied
             /\ slots[s].state = "Online" =>
                    \/ R.slots[s].state = "Online"
                    \/ s \in DOMAIN f.completed /\ R.slots[s].applied >= f.completed[s]
  <2>1. R.slots[s] \in SlotApplyState
    BY <1>1
  <2> QED
    BY <2>1 DEF SlotApplyState
<1>3. Q.session = R.session /\ Q.content = R.content /\ Q.slots = slots
  <2> HIDE DEF slots
  <2> QED
    BY <1>1
<1> HIDE DEF slots, Q
<1>4. Correct(R, Q, f)
  BY <1>2, <1>3 DEF Correct, PrefixRecord, HidesChanges, OpensOnlyBy
<1> QED
  BY <1>4 DEF ApplyDone, Accept, Q, slots

(* Every frame.                                                            *)
LEMMA EnqueueFrameCorrect ==
    ASSUME NEW R \in ReplicaRecords, NEW f \in Frames
    PROVE  Correct(R, EnqueueFrame(R, f).replica, f)
BY FrameParts, SameIsCorrect, ApplyBeginCorrect, ApplyLogCorrect, ApplySnapshotCorrect,
   ApplyDoneCorrect DEF EnqueueFrame, Reject

(* A step leaves a replica alone, restarts it, or hands it the next frame  *)
(* of the batch it is reading.                                             *)
LEMMA ReplicaStep ==
    ASSUME TypeInv, [Next]_vars, NEW r \in Replicas
    PROVE  \/ rep'[r] = rep[r]
           \/ rep'[r] = FreshReplica
           \/ /\ link[r].phase \in {"reading", "started"}
              /\ link[r].frames[1] \in Frames /\ 1 \in 1 .. Len(link[r].frames)
              /\ rep'[r] = EnqueueFrame(rep[r], link[r].frames[1]).replica
<1>1. rep \in [Replicas -> ReplicaRecords] /\ link \in [Replicas -> Links]
  BY DEF TypeInv, LinkType
<1>2. ASSUME NEW q \in Replicas, Receive(q), q = r, rep'[r] # rep[r]
      PROVE  /\ link[r].phase \in {"reading", "started"}
             /\ link[r].frames[1] \in Frames /\ 1 \in 1 .. Len(link[r].frames)
             /\ rep'[r] = EnqueueFrame(rep[r], link[r].frames[1]).replica
  <2>1. link[r].phase \in {"reading", "started"}
    BY <1>2 DEF Receive
  <2>2. link[r].frames \in Seq(Frames) /\ EndsWithDone(link[r].frames)
    BY <1>1, <2>1, LinkParts DEF TypeInv, BatchesEnd
  <2>3. /\ Head(link[r].frames) = link[r].frames[1] /\ link[r].frames[1] \in Frames
        /\ 1 \in 1 .. Len(link[r].frames)
    BY <2>2, NextFrame
  <2> DEFINE inPlace == (Head(link[r].frames).type = "BEGIN") = (link[r].phase = "reading")
             new == EnqueueFrame(rep[r], Head(link[r].frames)).replica
  <2>4. rep' = IF inPlace THEN [rep EXCEPT ![r] = new] ELSE rep
    BY <1>2 DEF Receive
  <2> HIDE DEF inPlace, new
  <2>5. rep'[r] = new
    BY <1>1, <1>2, <2>4
  <2> QED
    BY <2>1, <2>3, <2>5 DEF new
<1>3. ASSUME NEW q \in Replicas, Receive(q) \/ RestartReplica(q), q # r
      PROVE  rep'[r] = rep[r]
  BY <1>1, <1>3 DEF Receive, RestartReplica
<1>4. ASSUME RestartReplica(r)
      PROVE  rep'[r] = FreshReplica
  BY <1>1, <1>4 DEF RestartReplica
<1>5. ASSUME NEW q \in Replicas,
             SendHello(q) \/ ServeHello(q) \/ GiveUp(q) \/ Disconnect(q)
      PROVE  rep' = rep
  BY <1>5 DEF SendHello, ServeHello, GiveUp, Disconnect
<1>6. CASE \/ (\E s \in Slots : Write(s)) \/ Maintenance \/ ServeStaleHello
           \/ PollStep \/ Answer \/ RestartMaster \/ UNCHANGED vars
  BY <1>6 DEF Write, Maintenance, ServeStaleHello, PollStep, Answer, RestartMaster, vars
<1> QED
  BY <1>2, <1>3, <1>4, <1>5, <1>6 DEF Next

(* Whatever is lost, repeated or interrupted, the content of every slot of *)
(* a replica is what the first applied_seq writes of the process it        *)
(* follows produced.                                                       *)
THEOREM ReplicasHoldPrefixes == Spec => []ReplicaIsPrefix
<1>1. Init => ReplicaIsPrefix
  BY DEF Init, ReplicaIsPrefix, FreshReplica
<1>2. TypeInv /\ ReplicaIsPrefix /\ [Next]_vars => ReplicaIsPrefix'
  <2> SUFFICES ASSUME TypeInv, ReplicaIsPrefix, [Next]_vars, NEW r \in Replicas
               PROVE  PrefixRecord(rep'[r])
    BY DEF ReplicaIsPrefix, PrefixRecord, Generation
  <2>1. rep[r] \in ReplicaRecords /\ PrefixRecord(rep[r])
    BY DEF TypeInv, LinkType, ReplicaIsPrefix, PrefixRecord, Generation
  <2>2. CASE rep'[r] = rep[r]
    BY <2>1, <2>2
  <2>3. CASE rep'[r] = FreshReplica
    BY <2>3 DEF PrefixRecord, FreshReplica
  <2>4. ASSUME link[r].frames[1] \in Frames,
               rep'[r] = EnqueueFrame(rep[r], link[r].frames[1]).replica
        PROVE  PrefixRecord(rep'[r])
    BY <2>1, <2>4, EnqueueFrameCorrect DEF Correct
  <2> QED
    BY <2>2, <2>3, <2>4, ReplicaStep
<1> QED
  BY <1>1, <1>2, InvAlways, PTL DEF Spec

(* No frame changes what a readable slot holds: whatever changes the       *)
(* content of a slot leaves it hidden until a DONE.                        *)
THEOREM PartialStaysHidden == Spec => PartialIsHidden
<1>1. ASSUME TypeInv, [Next]_vars, NEW r \in Replicas, NEW s \in Slots,
             rep'[r].content[s] # rep[r].content[s]
      PROVE  rep'[r].slots[s].state # "Online"
  <2>1. CASE rep'[r] = FreshReplica
    BY <2>1 DEF FreshReplica, FreshSlot
  <2>2. ASSUME link[r].frames[1] \in Frames,
               rep'[r] = EnqueueFrame(rep[r], link[r].frames[1]).replica
        PROVE  rep'[r].slots[s].state # "Online"
    <3>1. rep[r] \in ReplicaRecords
      BY <1>1 DEF TypeInv, LinkType
    <3> QED
      BY <1>1, <2>2, <3>1, EnqueueFrameCorrect DEF Correct, HidesChanges
  <2> QED
    BY <1>1, <2>1, <2>2, ReplicaStep
<1>2. TypeInv /\ [Next]_vars =>
        [\A r \in Replicas : \A s \in Slots :
            rep'[r].content[s] # rep[r].content[s] => rep'[r].slots[s].state # "Online"]_vars
  BY <1>1
<1> QED
  BY <1>2, InvAlways, PTL DEF Spec, PartialIsHidden

-----------------------------------------------------------------------------
(* What a Poll will report covers the floor of the replica it works for.   *)
LEMMA EndRoundFloor ==
    ASSUME MasterType, PollType, Polling, NEW p \in Polls, p.loop = "build",
           p.completed = poll.completed,
           NEW st \in ReplicaSlotState, NEW target \in 0 .. MaxSeq, NEW resume,
           EndRound(p, st, target, resume),
           NEW floor \in Floors, CoversFloor(poll.completed, floor), target >= floor[PollSlot]
    PROVE  PollCovers(poll', floor)
<1> DEFINE filled == ~p.full /\ AtLimit(p)
           done == IF st.needSnapshot THEN p.completed
                   ELSE AddCompleted(p.completed, PollSlot, target)
           q == [p EXCEPT !.full = @ \/ filled, !.completed = done]
<1>1. poll' = NextPollSlot(q)
  BY DEF EndRound
<1>2. done \in Completions
  BY PollFields, PollParts, CompletionType
<1>3. q \in Polls /\ q.loop = "build" /\ q.completed = done
  <2>1. (p.full \/ filled) \in BOOLEAN
    OBVIOUS
  <2> HIDE DEF filled, done
  <2> QED
    BY <1>2, <2>1 DEF Polls
<1>4. CoversFloor(done, floor)
  BY DEF CoversFloor, AddCompleted
<1>5. Session.nextSlot \in Slots
  BY PollParts DEF SessionRecords
<1> HIDE DEF q, done
<1>6. /\ poll'.loop = "build" /\ poll'.step \in {"published", "finish"}
      /\ poll'.completed = done
  BY <1>1, <1>3, <1>5, NextPollSlotType
<1> QED
  BY <1>4, <1>6 DEF Polling, PollSlot, SlotAt, PollCovers, Reading

(* A round of the HELLO loop reports nothing yet.                          *)
LEMMA SetHelloSlotFloor ==
    ASSUME MasterType, PollType, poll.loop = "hello",
           NEW position, NEW need, SetHelloSlot(position, need),
           NEW floor, CoversFloor(poll.completed, floor)
    PROVE  PollCovers(poll', floor)
<1>1. poll \in Polls /\ Session.nextSlot \in Slots
  BY PollParts DEF SessionRecords, Polling
<1>2. /\ poll' \in Polls /\ poll'.completed = poll.completed
      /\ poll'.step \in {"published", "finish"}
  BY <1>1, NextPollSlotType DEF SetHelloSlot
<1>3. poll'.loop \in {"hello", "build"}
  BY <1>2 DEF Polls
<1> QED
  BY <1>2, <1>3 DEF Polling, PollSlot, SlotAt, PollCovers, Reading

(* A read that stays at its slot.                                          *)
LEMMA ReadFloor ==
    ASSUME Polling, poll'.loop = poll.loop, poll'.i = poll.i, poll'.start = poll.start,
           poll'.completed = poll.completed,
           NEW floor, CoversFloor(poll.completed, floor),
           poll.loop = "build" => poll'.published >= floor[PollSlot]
    PROVE  PollCovers(poll', floor)
<1>1. PollSlot' = PollSlot /\ Polling'
  BY DEF PollSlot, Polling
<1> QED
  BY <1>1 DEF Polling, PollSlot, SlotAt, PollCovers, Reading

(* The decision between log and snapshot keeps the target.                 *)
LEMMA UseBacklogFloor ==
    ASSUME MasterType, PollType, poll.step \in {"max", "empty"}, NEW found, UseBacklog(found),
           NEW floor, PollCovers(poll, floor)
    PROVE  PollCovers(poll', floor)
<1>1. Polling /\ CoversFloor(poll.completed, floor)
  BY DEF Polling, PollSlot, SlotAt, PollCovers
<1>2. CASE poll.loop = "hello"
  BY <1>1, <1>2, SetHelloSlotFloor DEF UseBacklog
<1>3. CASE poll.loop # "hello"
  <2>1. poll \in Polls /\ poll.loop = "build"
    BY <1>1, <1>3, PollParts, PollFields
  <2>2. /\ poll'.loop = poll.loop /\ poll'.i = poll.i /\ poll'.start = poll.start
        /\ poll'.completed = poll.completed /\ poll'.published = poll.published
    BY <1>3, <2>1 DEF UseBacklog, Polls
  <2> QED
    BY <1>1, <2>1, <2>2, ReadFloor DEF Polling, PollSlot, SlotAt, PollCovers, Reading
<1> QED
  BY <1>2, <1>3

(* Every step of Poll keeps the targets above the floor.                   *)
LEMMA PollFloor ==
    ASSUME MasterType, PollType, RoomInv, PollStep,
           NEW floor \in Floors, \A s \in Slots : floor[s] <= seq[s], PollCovers(poll, floor)
    PROVE  PollCovers(poll', floor)
<1>1. Polling /\ CoversFloor(poll.completed, floor)
  BY DEF Polling, PollSlot, SlotAt, PollCovers
<1>2. /\ poll \in Polls /\ Session.nextSlot \in Slots /\ SlotState \in ReplicaSlotState
      /\ PollSlot \in Slots /\ seq[PollSlot] \in 0 .. MaxSeq /\ poll.published \in 0 .. MaxSeq
  BY <1>1, PollParts, PollFields DEF SessionRecords, MasterType
<1>3. floor[PollSlot] \in 0 .. MaxSeq /\ seq[PollSlot] >= floor[PollSlot]
  BY <1>2, SlotAssumption DEF Floors
<1>4. CASE PollReadPublished
  <2> DEFINE p == [poll EXCEPT !.published = seq[PollSlot]]
  <2>1. /\ p \in Polls /\ p.loop = poll.loop /\ p.i = poll.i /\ p.start = poll.start
        /\ p.completed = poll.completed /\ p.published = seq[PollSlot]
    BY <1>2 DEF Polls
  <2> HIDE DEF p
  <2>2. CASE poll.loop = "hello" /\ SetHelloSlot(0, TRUE)
    BY <1>1, <2>2, SetHelloSlotFloor
  <2>3. ASSUME NEW step, poll' = [p EXCEPT !.step = step]
        PROVE  PollCovers(poll', floor)
    <3>1. /\ poll'.loop = poll.loop /\ poll'.i = poll.i /\ poll'.start = poll.start
          /\ poll'.completed = poll.completed /\ poll'.published = seq[PollSlot]
      BY <2>1, <2>3 DEF Polls
    <3> QED
      BY <1>1, <1>3, <3>1, ReadFloor
  <2>4. CASE /\ poll.loop = "build"
             /\ EndRound(p, SlotState, seq[PollSlot], Session.nextSlot)
    BY <1>1, <1>2, <1>3, <2>1, <2>4, EndRoundFloor
  <2> QED
    BY <1>4, <2>2, <2>3, <2>4 DEF PollReadPublished, p
<1>5. CASE PollReadMin
  <2>1. /\ poll'.loop = poll.loop /\ poll'.i = poll.i /\ poll'.start = poll.start
        /\ poll'.completed = poll.completed /\ poll'.published = poll.published
    BY <1>2, <1>5 DEF PollReadMin, Polls
  <2> QED
    BY <1>1, <1>5, <2>1, ReadFloor DEF PollReadMin, PollCovers, Reading, PollSlot, SlotAt, Polling
<1>6. CASE PollReadMax
  <2>1. CASE poll' = [poll EXCEPT !.step = "empty"]
    <3>1. /\ poll'.loop = poll.loop /\ poll'.i = poll.i /\ poll'.start = poll.start
          /\ poll'.completed = poll.completed /\ poll'.published = poll.published
      BY <1>2, <2>1 DEF Polls
    <3> QED
      BY <1>1, <1>6, <3>1, ReadFloor DEF PollReadMax, PollCovers, Reading, PollSlot, SlotAt, Polling
  <2>2. ASSUME UseBacklog(poll.min <= Wanted /\ Wanted <= MaxSeqOf(log[PollSlot]) + 1)
        PROVE  PollCovers(poll', floor)
    BY <1>6, <2>2, UseBacklogFloor DEF PollReadMax
  <2> QED
    BY <1>6, <2>1, <2>2 DEF PollReadMax
<1>7. CASE PollEmptyLog
  BY <1>7, UseBacklogFloor DEF PollEmptyLog
<1>8. ASSUME poll.step \in {"snapshot", "copy"}
      PROVE  poll.loop = "build" /\ poll.published >= floor[PollSlot]
  BY <1>1, <1>2, <1>8, PollFields DEF PollType, PollCovers, Reading, PollSlot, SlotAt
<1>9. CASE PollSendSnapshot
  <2> DEFINE frame == BuildSnapshotFrame(Session.session, PollSlot)
             size == SnapshotBytes(PollSlot, Len(frame.content))
  <2>1. poll.loop = "build" /\ poll.published >= floor[PollSlot]
    BY <1>8, <1>9 DEF PollSendSnapshot
  <2>2. Session.session \in SessionsOf(gen)
    BY <1>1, PollParts DEF SessionRecords
  <2>3. frame \in DataFrames /\ frame.base = seq[PollSlot] /\ size \in Nat
    BY <1>2, <2>2, SnapshotFrameType
  <2> HIDE DEF size, frame
  <2>4. CASE EndRound([poll EXCEPT !.frames = Append(@, frame), !.bytes = @ + size],
                      [SlotState EXCEPT !.sent = frame.base, !.needSnapshot = FALSE],
                      frame.base, Session.nextSlot)
    <3> DEFINE p == [poll EXCEPT !.frames = Append(@, frame), !.bytes = @ + size]
               st == [SlotState EXCEPT !.sent = frame.base, !.needSnapshot = FALSE]
    <3>1. Append(poll.frames, frame) \in Seq(DataFrames) /\ poll.bytes + size \in Nat
      BY <1>2, <2>3, PollFields
    <3>2. p \in Polls /\ p.loop = "build" /\ p.completed = poll.completed
      BY <1>2, <2>1, <3>1 DEF Polls
    <3>3. st \in ReplicaSlotState
      BY <1>2, <2>3 DEF ReplicaSlotState
    <3> HIDE DEF p, st
    <3> QED
      BY <1>1, <1>2, <1>3, <2>3, <2>4, <3>2, <3>3, EndRoundFloor DEF p, st
  <2>5. CASE EndRound([poll EXCEPT !.full = TRUE], SlotState, poll.published, PollSlot)
    <3> DEFINE p == [poll EXCEPT !.full = TRUE]
    <3>1. p \in Polls /\ p.loop = "build" /\ p.completed = poll.completed
      BY <1>2, <2>1 DEF Polls
    <3> HIDE DEF p
    <3> QED
      BY <1>1, <1>2, <2>1, <2>5, <3>1, EndRoundFloor DEF p
  <2> QED
    BY <1>9, <2>4, <2>5 DEF PollSendSnapshot, frame, size
<1>10. CASE PollSendLogs
  <2>1. PICK p \in Polls, st \in ReplicaSlotState, resume \in Slots :
            /\ EndRound(p, st, poll.published, resume)
            /\ p.loop = "build" /\ p.completed = poll.completed
    BY <1>10, PollSendLogsIs
  <2>2. poll.published >= floor[PollSlot]
    BY <1>8, <1>10 DEF PollSendLogs
  <2> QED
    BY <1>1, <1>2, <2>1, <2>2, EndRoundFloor
<1> QED
  BY <1>4, <1>5, <1>6, <1>7, <1>9, <1>10 DEF PollStep

(* Every step keeps the floors of all connections.                         *)
LEMMA FloorStep ==
    ASSUME TypeInv, RoomInv, FloorInv, [Next]_vars
    PROVE  FloorInv'
<1>1. /\ MasterType /\ PollType /\ link \in [Replicas -> Links] /\ seq \in [Slots -> 0 .. MaxSeq]
      /\ \A r \in Replicas : LinkFloor(link[r], seq, poll)
  BY DEF TypeInv, MasterType, LinkType, FloorInv
<1>2. SUFFICES ASSUME NEW r \in Replicas PROVE LinkFloor(link'[r], seq', poll')
  BY DEF FloorInv
<1>3. /\ link[r] \in Links /\ LinkFloor(link[r], seq, poll)
      /\ link[r].phase = "sent" => link[r].phase # "answering"
  BY <1>1
<1>4. LinkFloor(Idle, seq', poll') /\ LinkFloor([phase |-> "lost"], seq', poll')
  BY DEF LinkFloor, Idle
<1>5. ASSUME link'[r] = link[r], link[r].phase \notin {"sent", "answering"}
      PROVE  LinkFloor(link'[r], seq', poll')
  BY <1>3, <1>5 DEF LinkFloor
<1>6. ASSUME link'[r] = link[r], \A s \in Slots : seq'[s] >= seq[s] /\ seq'[s] \in Nat,
             link[r].phase = "answering" => PollCovers(poll', link[r].floor)
      PROVE  LinkFloor(link'[r], seq', poll')
  <2>1. ASSUME link[r].phase \in {"sent", "answering"}, NEW s \in Slots
        PROVE  link[r].floor[s] <= seq'[s]
    <3>1. link[r].floor \in Floors
      BY <1>3, <2>1, LinkParts
    <3>2. link[r].floor[s] \in Nat /\ link[r].floor[s] <= seq[s] /\ seq[s] \in Nat
      BY <1>1, <1>3, <2>1, <3>1, SlotAssumption DEF LinkFloor, Floors
    <3> QED
      BY <1>6, <3>2
  <2> QED
    BY <1>3, <1>6, <2>1 DEF LinkFloor
<1>7. ASSUME UNCHANGED seq
      PROVE  \A s \in Slots : seq'[s] >= seq[s] /\ seq'[s] \in Nat
  BY <1>1, <1>7, SlotAssumption
<1>8. ASSUME MutexFree \/ poll.loop = "evict"
      PROVE  link[r].phase # "answering"
  BY <1>3, <1>8 DEF LinkFloor, PollCovers, Polling, MutexFree
<1>9. ASSUME NEW s \in Slots, Write(s)
      PROVE  LinkFloor(link'[r], seq', poll')
  <2>1. \A x \in Slots : seq'[x] >= seq[x] /\ seq'[x] \in Nat
    BY <1>1, <1>9, SlotAssumption DEF Write, WriteSlot
  <2>2. UNCHANGED poll /\ UNCHANGED link
    BY <1>9 DEF Write, WriteSlot
  <2>3. link[r].phase = "answering" => PollCovers(poll', link[r].floor)
    BY <1>3, <2>2 DEF LinkFloor, PollCovers, Polling, PollSlot, SlotAt
  <2> QED
    BY <1>6, <2>1, <2>2, <2>3
<1>10. CASE Maintenance \/ ServeStaleHello
  <2>1. MutexFree \/ poll.loop = "evict"
    BY <1>10 DEF Maintenance, ServeStaleHello, Maintain, EvictSlot, PollBegin
  <2>2. UNCHANGED seq /\ UNCHANGED link
    BY <1>10 DEF Maintenance, ServeStaleHello, Maintain, EvictSlot, PollBegin, slotVars
  <2> QED
    BY <1>6, <1>7, <1>8, <2>1, <2>2
<1>11. ASSUME NEW q \in Replicas, UNCHANGED masterVars,
              q # r => link'[r] = link[r], q = r => LinkFloor(link'[r], seq', poll')
       PROVE  LinkFloor(link'[r], seq', poll')
  <2>1. UNCHANGED seq /\ UNCHANGED poll
    BY <1>11 DEF masterVars
  <2>2. link[r].phase = "answering" => PollCovers(poll', link[r].floor)
    BY <1>3, <2>1 DEF LinkFloor, PollCovers, Polling, PollSlot, SlotAt
  <2> QED
    BY <1>6, <1>7, <1>11, <2>1, <2>2
<1>12. ASSUME NEW q \in Replicas, SendHello(q)
       PROVE  LinkFloor(link'[r], seq', poll')
  <2> DEFINE k == [phase |-> "sent",
                   hello |-> HelloFrame(IdOf[q], rep[q].session, ReportedPositions(rep[q])),
                   floor |-> seq]
  <2>1. link' = [link EXCEPT ![q] = k] /\ UNCHANGED masterVars
    BY <1>12 DEF SendHello
  <2>2. k.phase = "sent" /\ k.floor = seq
    OBVIOUS
  <2> HIDE DEF k
  <2>3. q # r => link'[r] = link[r]
    BY <1>1, <2>1
  <2>4. ASSUME q = r PROVE LinkFloor(link'[r], seq', poll')
    <3>1. link'[r] = k /\ seq' = seq
      BY <1>1, <2>1, <2>4 DEF masterVars
    <3> QED
      BY <1>1, <2>2, <3>1, SlotAssumption DEF LinkFloor
  <2> QED
    BY <1>11, <2>1, <2>3, <2>4
<1>13. ASSUME NEW q \in Replicas, ServeHello(q)
       PROVE  LinkFloor(link'[r], seq', poll')
  <2> DEFINE k == [phase |-> "answering", floor |-> link[q].floor]
  <2>1. link' = [link EXCEPT ![q] = k] /\ MutexFree /\ UNCHANGED seq /\ link[q].phase = "sent"
    BY <1>13 DEF ServeHello, PollBegin, slotVars
  <2>2. k.phase = "answering" /\ k.floor = link[q].floor
    OBVIOUS
  <2> HIDE DEF k
  <2>3. CASE q # r
    <3>1. link'[r] = link[r]
      BY <1>1, <2>1, <2>3
    <3> QED
      BY <1>6, <1>7, <1>8, <2>1, <3>1
  <2>4. CASE q = r
    <3>1. link'[r] = k
      BY <1>1, <2>1, <2>4
    <3>2. PollCovers(poll', k.floor)
      <4>1. poll'.loop = "hello" /\ poll'.completed = <<>>
        BY <1>13 DEF ServeHello, PollBegin, StartPoll
      <4>2. DOMAIN <<>> = {}
        OBVIOUS
      <4> QED
        BY <4>1, <4>2 DEF Polling, PollSlot, SlotAt, PollCovers, CoversFloor, Reading
    <3>3. \A s \in Slots : k.floor[s] <= seq'[s]
      BY <1>3, <2>1, <2>2, <2>4 DEF LinkFloor
    <3> QED
      BY <2>2, <3>1, <3>2, <3>3 DEF LinkFloor
  <2> QED
    BY <2>3, <2>4
<1>14. CASE PollStep
  <2>1. UNCHANGED seq /\ UNCHANGED link
    BY <1>14 DEF PollStep, PollReadPublished, PollReadMin, PollReadMax, PollEmptyLog,
                 PollSendSnapshot, PollSendLogs, slotVars
  <2>2. ASSUME link[r].phase = "answering"
        PROVE  PollCovers(poll', link[r].floor)
    <3>1. link[r].floor \in Floors
      BY <1>3, <2>2, LinkParts
    <3>2. PollCovers(poll, link[r].floor) /\ \A s \in Slots : link[r].floor[s] <= seq[s]
      BY <1>3, <2>2 DEF LinkFloor
    <3> QED
      BY <1>1, <1>14, <3>1, <3>2, PollFloor
  <2> QED
    BY <1>6, <1>7, <2>1, <2>2
<1>15. CASE Answer
  <2>1. Polling /\ UNCHANGED seq
    BY <1>15 DEF Answer, PollFinish, slotVars
  <2>2. CASE link[r].phase = "answering"
    <3>1. /\ link'[r].phase = "reading" /\ link'[r].frames = Batch
          /\ link'[r].floor = link[r].floor
      BY <1>15, <2>2 DEF Answer
    <3>2. BatchCovers(Batch, link[r].floor)
      BY <1>1, <1>3, <2>1, <2>2, BatchType DEF LinkFloor, PollCovers, BatchCovers
    <3> QED
      BY <3>1, <3>2 DEF LinkFloor
  <2>3. CASE link[r].phase # "answering"
    <3>1. link'[r] = link[r]
      BY <1>15, <2>3 DEF Answer
    <3> QED
      BY <1>6, <1>7, <2>1, <2>3, <3>1
  <2> QED
    BY <2>2, <2>3
<1>16. ASSUME NEW q \in Replicas, Receive(q)
       PROVE  LinkFloor(link'[r], seq', poll')
  <2> DEFINE k == [phase |-> "started", frames |-> Tail(link[q].frames), floor |-> link[q].floor]
  <2>1. PICK goesOn \in BOOLEAN : link' = [link EXCEPT ![q] = IF goesOn THEN k ELSE Idle]
    BY <1>16 DEF Receive
  <2>2. UNCHANGED masterVars /\ link[q].phase \in {"reading", "started"}
    BY <1>16 DEF Receive
  <2>3. q # r => link'[r] = link[r]
    BY <1>1, <2>1
  <2>4. ASSUME q = r PROVE LinkFloor(link'[r], seq', poll')
    <3>1. link[r].frames \in Seq(Frames) /\ EndsWithDone(link[r].frames)
      BY <1>3, <2>2, <2>4, LinkParts DEF TypeInv, BatchesEnd
    <3>2. BatchCovers(link[r].frames, link[r].floor)
      BY <1>3, <2>2, <2>4 DEF LinkFloor
    <3>3. BatchCovers(Tail(link[r].frames), link[r].floor)
      BY <3>1, <3>2, NextFrame DEF BatchCovers
    <3>4. LinkFloor(k, seq', poll')
      BY <2>4, <3>3, <2>1 DEF LinkFloor
    <3>5. link'[r] = k \/ link'[r] = Idle
      BY <1>1, <2>1, <2>4
    <3> QED
      BY <1>4, <3>4, <3>5
  <2> QED
    BY <1>11, <2>2, <2>3, <2>4
<1>17. ASSUME NEW q \in Replicas, GiveUp(q) \/ Disconnect(q) \/ RestartReplica(q)
       PROVE  LinkFloor(link'[r], seq', poll')
  <2>1. link' = [link EXCEPT ![q] = Idle] /\ UNCHANGED masterVars
    BY <1>17 DEF GiveUp, Disconnect, RestartReplica, Abandon
  <2>2. (q # r => link'[r] = link[r]) /\ (q = r => link'[r] = Idle)
    BY <1>1, <2>1
  <2> QED
    BY <1>4, <1>11, <2>1, <2>2
<1>18. CASE RestartMaster
  <2>1. CASE link[r].phase \in {"sent", "answering"}
    <3>1. link'[r] = [phase |-> "lost"]
      BY <1>18, <2>1 DEF RestartMaster
    <3> QED
      BY <1>4, <3>1
  <2>2. CASE link[r].phase \notin {"sent", "answering"}
    <3>1. link'[r] = link[r]
      BY <1>18, <2>2 DEF RestartMaster
    <3> QED
      BY <1>5, <2>2, <3>1
  <2> QED
    BY <2>1, <2>2
<1>19. CASE UNCHANGED vars
  BY <1>3, <1>19 DEF LinkFloor, PollCovers, Polling, PollSlot, SlotAt, vars, masterVars
<1> QED
  BY <1>9, <1>10, <1>12, <1>13, <1>14, <1>15, <1>16, <1>17, <1>18, <1>19 DEF Next

(* A slot becomes readable only with every write that was published when   *)
(* the HELLO of this exchange was sent.                                    *)
THEOREM OnlineSlotsAreFresh == Spec => OnlineIsFresh
<1>1. Init => FloorInv
  BY DEF Init, FloorInv, LinkFloor, Idle
<1>2. TypeInv /\ RoomInv /\ FloorInv /\ [Next]_vars => FloorInv'
  BY FloorStep
<1>3. ASSUME TypeInv, FloorInv, [Next]_vars, NEW r \in Replicas, NEW s \in Slots,
             rep[r].slots[s].state # "Online", rep'[r].slots[s].state = "Online"
      PROVE  rep'[r].slots[s].applied >= link[r].floor[s]
  <2> DEFINE f == link[r].frames[1]
             Q == EnqueueFrame(rep[r], f).replica
  <2>1. rep'[r] # FreshReplica
    BY <1>3 DEF FreshReplica, FreshSlot
  <2>2. /\ link[r].phase \in {"reading", "started"} /\ f \in Frames
        /\ 1 \in 1 .. Len(link[r].frames) /\ rep'[r] = Q
    BY <1>3, <2>1, ReplicaStep
  <2>3. rep[r] \in ReplicaRecords /\ Q \in ReplicaRecords
    <3>1. rep[r] \in ReplicaRecords
      BY <1>3 DEF TypeInv, LinkType
    <3> HIDE DEF f
    <3> QED
      BY <2>2, <3>1, EnqueueFrameType
  <2>4. /\ f.type = "DONE" /\ s \in DOMAIN f.completed
        /\ Q.slots[s].applied >= f.completed[s]
    <3>1. OpensOnlyBy(rep[r], Q, f)
      BY <2>2, <2>3, EnqueueFrameCorrect DEF Correct
    <3> HIDE DEF f, Q
    <3> QED
      BY <1>3, <2>2, <3>1 DEF OpensOnlyBy
  <2>5. f.completed[s] >= link[r].floor[s]
    BY <1>3, <2>2, <2>4 DEF FloorInv, LinkFloor, BatchCovers, CoversFloor
  <2>6. Q.slots[s].applied \in Nat
    BY <2>3, SlotAssumption DEF ReplicaRecords, SlotApplyState
  <2>7. f.completed[s] \in Nat
    BY <2>2, <2>4, FrameParts, SlotAssumption DEF Completions
  <2>8. link[r].floor[s] \in Nat
    <3>1. link[r].floor \in Floors
      BY <1>3, <2>2, LinkParts DEF TypeInv, LinkType
    <3> QED
      BY <3>1, SlotAssumption DEF Floors
  <2> HIDE DEF f, Q
  <2> QED
    BY <2>2, <2>4, <2>5, <2>6, <2>7, <2>8
<1>4. TypeInv /\ FloorInv /\ [Next]_vars =>
        [\A r \in Replicas : \A s \in Slots :
            (rep[r].slots[s].state # "Online" /\ rep'[r].slots[s].state = "Online")
                => rep'[r].slots[s].applied >= link[r].floor[s]]_vars
  BY <1>3
<1> QED
  BY <1>1, <1>2, <1>4, InvAlways, PTL DEF Spec, OnlineIsFresh

-----------------------------------------------------------------------------
(* Garbage collection never drops a record that a replica of the current   *)
(* session still needs.                                                    *)

(* The records of a slot up to this number are no longer in its log.       *)
Low(s) == seq[s] - Len(log[s])

(* The HELLO a replica would send now.                                     *)
HelloOf(r) == HelloFrame(IdOf[r], rep[r].session, ReportedPositions(rep[r]))

Master(r) == sessions[IdOf[r]]

(* A batch under way, or being built, will make the replica start over.    *)
ResetsOnReading(k) ==
    /\ k.phase = "reading"
    /\ Head(k.frames).type = "BEGIN"
    /\ Head(k.frames).reset

Resetting(r) ==
    \/ ResetsOnReading(link[r])
    \/ link[r].phase = "answering" /\ Session.reset

(* The state that the data frames under way will be applied to.            *)
ResetTo(session) == [FreshReplica EXCEPT !.session = session]

View(r) ==
    IF ResetsOnReading(link[r]) THEN ResetTo(Head(link[r].frames).session)
    ELSE IF link[r].phase = "answering" /\ Session.reset THEN ResetTo(Session.session)
    ELSE rep[r]

FramesIn(fs) == {fs[i] : i \in 1 .. Len(fs)}

UnderWay(r) ==
    IF link[r].phase \in {"reading", "started"} THEN FramesIn(link[r].frames)
    ELSE IF link[r].phase = "answering" THEN FramesIn(poll.frames)
    ELSE {}

(* The HELLOs that Poll works on or may still work on, and those of them   *)
(* that carry the session of the replica.                                  *)
AllHellos == BagToSet(stale) \cup {h \in {poll.hello} : Polling}

HellosOf(r) == {h \in AllHellos : h.session = View(r).session}

(* The acknowledged position of a slot; a HELLO loop that resets has not   *)
(* come to the later slots yet.                                            *)
Acked(id, s) ==
    IF poll.loop = "hello" /\ PollId = id /\ Session.reset /\ s >= poll.i
    THEN 0 ELSE sessions[id].slots[s].acked

Tracked(r) == Master(r) # NoReplica /\ View(r).session = Master(r).session

-----------------------------------------------------------------------------
(* The invariant for one slot: nothing acknowledged, no position reported  *)
(* in a HELLO and, for a slot with data, nothing dropped from the log is   *)
(* beyond the position of the replica, and none will be once the frames    *)
(* under way have arrived.                                                 *)
Below(h, s, n) == h.pos[s] = NoPosition \/ h.pos[s] <= n

ImageFits(f, hellos, s, acked, low, last) ==
    /\ low <= f.base /\ f.base <= last /\ acked <= f.base
    /\ \A h \in hellos : Below(h, s, f.base)

RecordFits(f, st, low, last) ==
    /\ low <= f.record.seq \/ low <= st.applied
    /\ f.record.seq <= last

FrameFits(f, st, hellos, s, acked, low, last) ==
    /\ f.type = "SNAPSHOT" /\ f.slot = s => ImageFits(f, hellos, s, acked, low, last)
    /\ f.type = "LOG" /\ f.slot = s => RecordFits(f, st, low, last)

GoodSlot(st, frames, hellos, s, acked, low, last) ==
    /\ acked <= st.applied /\ st.applied <= last
    /\ \A h \in hellos : Below(h, s, st.applied)
    /\ st.applied > 0 /\ ~st.needSnapshot => low <= st.applied
    /\ \A f \in frames : FrameFits(f, st, hellos, s, acked, low, last)

Good(r) ==
    Tracked(r) => \A s \in Slots :
        GoodSlot(View(r).slots[s], UnderWay(r), HellosOf(r), s, Acked(IdOf[r], s), Low(s), seq[s])

GoodInv == \A r \in Replicas : Good(r)

(* The rest of the invariant.  Logs have no gap.                           *)
LogInv == \A s \in Slots : Gapless(log[s], seq[s]) /\ Len(log[s]) <= seq[s]

(* A HELLO that is on its way or being answered is what its replica would  *)
(* send again, and at most one replica is being answered.                  *)
LinkInv ==
    /\ \A r \in Replicas : link[r].phase = "sent" => link[r].hello = HelloOf(r)
    /\ \A r \in Replicas : link[r].phase = "answering" => Polling /\ poll.hello = HelloOf(r)
    /\ \A r, q \in Replicas :
         link[r].phase = "answering" /\ link[q].phase = "answering" => r = q
    /\ Polling /\ ~Session.reset => poll.hello.session = Session.session

(* No session that anybody knows of will be opened again.                  *)
Issued(x) == x = NoSession \/ x[1] < gen \/ (x[1] = gen /\ x[3] < nextSession)

IssuedInv ==
    /\ \A r \in Replicas : Issued(rep[r].session) /\ Issued(View(r).session)
    /\ \A h \in AllHellos : Issued(h.session)
    /\ \A id \in ReplicaIds : sessions[id] # NoReplica => Issued(sessions[id].session)

(* A session belongs to one replica, whose frames carry it, and a replica  *)
(* that will start over does not follow the current session.               *)
Apart(r, q) ==
    \A x \in {rep[r].session, View(r).session} :
        x # NoSession => x # rep[q].session /\ x # View(q).session

TokenInv ==
    /\ \A r \in Replicas : \A f \in UnderWay(r) : f.session = View(r).session
    /\ \A r, q \in Replicas : r # q => Apart(r, q)
    /\ \A r \in Replicas : Resetting(r) => ~Current(r)
    /\ Polling => \A f \in FramesIn(poll.frames) : f.session = Session.session

BacklogInv == LogInv /\ LinkInv /\ IssuedInv /\ TokenInv /\ GoodInv

-----------------------------------------------------------------------------
(* One slot.  Frames and HELLOs may go, the acknowledged position may be   *)
(* set to what a HELLO reports, and the log may be cut up to it.           *)
LEMMA GoodSlotKept ==
    ASSUME NEW s \in Slots, NEW st \in SlotApplyState,
           NEW F1, NEW F2, F2 \subseteq F1, F1 \subseteq Frames,
           NEW H1, NEW H2, H2 \subseteq H1, H1 \subseteq Hellos,
           NEW a1 \in Nat, NEW a2 \in Nat, NEW l1 \in Int, NEW l2 \in Int,
           NEW n1 \in Nat, NEW n2 \in Nat,
           a2 <= a1 \/ \E h \in H1 : h.pos[s] # NoPosition /\ a2 = h.pos[s],
           l2 <= l1 \/ l2 <= a1, n1 <= n2,
           GoodSlot(st, F1, H1, s, a1, l1, n1)
    PROVE  GoodSlot(st, F2, H2, s, a2, l2, n2)
<1>1. st.applied \in Nat /\ st.needSnapshot \in BOOLEAN
  BY SlotAssumption DEF SlotApplyState
<1>2. \A h \in H1 : h.pos[s] \in Nat
  <2>1. \A h \in H1 : h.pos \in [Slots -> Positions]
    BY DEF Hellos
  <2> QED
    BY <2>1, SlotAssumption DEF Positions, NoPosition
<1>3. /\ a1 <= st.applied /\ st.applied <= n1
      /\ \A h \in H1 : Below(h, s, st.applied)
      /\ st.applied > 0 /\ ~st.needSnapshot => l1 <= st.applied
      /\ \A f \in F1 : FrameFits(f, st, H1, s, a1, l1, n1)
  BY DEF GoodSlot
<1>4. a2 <= st.applied /\ st.applied <= n2
  BY <1>1, <1>2, <1>3 DEF Below
<1>5. ASSUME NEW f \in F2
      PROVE  FrameFits(f, st, H2, s, a2, l2, n2)
  <2>1. f \in Frames /\ FrameFits(f, st, H1, s, a1, l1, n1)
    BY <1>3
  <2>2. /\ f.type = "SNAPSHOT" => f.base \in Nat
        /\ f.type = "LOG" => f.record.seq \in Nat
    BY <2>1, FrameParts, SlotAssumption
  <2>3. ASSUME f.type = "SNAPSHOT", f.slot = s
        PROVE  ImageFits(f, H2, s, a2, l2, n2)
    <3>1. ImageFits(f, H1, s, a1, l1, n1)
      BY <2>1, <2>3 DEF FrameFits
    <3> QED
      BY <1>2, <2>2, <2>3, <3>1 DEF ImageFits, Below
  <2>4. ASSUME f.type = "LOG", f.slot = s
        PROVE  RecordFits(f, st, l2, n2)
    <3>1. RecordFits(f, st, l1, n1)
      BY <2>1, <2>4 DEF FrameFits
    <3> QED
      BY <1>1, <1>3, <2>2, <2>4, <3>1 DEF RecordFits
  <2> QED
    BY <2>3, <2>4 DEF FrameFits
<1>6. st.applied > 0 /\ ~st.needSnapshot => l2 <= st.applied
  BY <1>1, <1>3
<1> QED
  BY <1>3, <1>4, <1>5, <1>6 DEF GoodSlot

(* A frame that was under way arrives: it changes neither position nor     *)
(* image, or takes the slot to the image's base, or to the next record.    *)
Advances(st, next, frames, s) ==
    \/ next.applied = st.applied /\ (next.needSnapshot \/ next.needSnapshot = st.needSnapshot)
    \/ \E f \in frames : f.type = "SNAPSHOT" /\ f.slot = s /\ next.applied = f.base
    \/ \E f \in frames : /\ f.type = "LOG" /\ f.slot = s
                         /\ next.applied = f.record.seq /\ f.record.seq = st.applied + 1

(* A slot that a frame under way advances stays good.                      *)
LEMMA GoodSlotAdvances ==
    ASSUME NEW s \in Slots, NEW st \in SlotApplyState, NEW next \in SlotApplyState,
           NEW F, F \subseteq Frames, NEW H, H \subseteq Hellos,
           NEW a \in Nat, NEW l \in Int, NEW n \in Nat,
           GoodSlot(st, F, H, s, a, l, n), Advances(st, next, F, s)
    PROVE  GoodSlot(next, F, H, s, a, l, n)
<1>1. /\ st.applied \in Nat /\ st.needSnapshot \in BOOLEAN
      /\ next.applied \in Nat /\ next.needSnapshot \in BOOLEAN
  BY SlotAssumption DEF SlotApplyState
<1>2. \A h \in H : h.pos[s] \in Nat
  <2>1. \A h \in H : h.pos \in [Slots -> Positions]
    BY DEF Hellos
  <2> QED
    BY <2>1, SlotAssumption DEF Positions, NoPosition
<1>3. /\ a <= st.applied /\ st.applied <= n
      /\ \A h \in H : Below(h, s, st.applied)
      /\ st.applied > 0 /\ ~st.needSnapshot => l <= st.applied
      /\ \A f \in F : FrameFits(f, st, H, s, a, l, n)
  BY DEF GoodSlot
<1>4. \A f \in F : /\ f.type = "SNAPSHOT" => f.base \in Nat
                   /\ f.type = "LOG" => f.record.seq \in Nat
  BY FrameParts, SlotAssumption
<1>5. ASSUME a <= next.applied, next.applied <= n,
             \A h \in H : Below(h, s, next.applied),
             next.applied > 0 /\ ~next.needSnapshot => l <= next.applied,
             st.applied <= next.applied \/ l <= next.applied
      PROVE  GoodSlot(next, F, H, s, a, l, n)
  <2>1. ASSUME NEW f \in F
        PROVE  FrameFits(f, next, H, s, a, l, n)
    <3>1. FrameFits(f, st, H, s, a, l, n)
      BY <1>3
    <3>2. ASSUME f.type = "LOG", f.slot = s
          PROVE  RecordFits(f, next, l, n)
      BY <1>1, <1>4, <1>5, <3>1, <3>2 DEF FrameFits, RecordFits
    <3> QED
      BY <3>1, <3>2 DEF FrameFits
  <2> QED
    BY <1>5, <2>1 DEF GoodSlot
<1>6. CASE next.applied = st.applied /\ (next.needSnapshot \/ next.needSnapshot = st.needSnapshot)
  BY <1>1, <1>3, <1>5, <1>6
<1>7. ASSUME NEW f \in F, f.type = "SNAPSHOT", f.slot = s, next.applied = f.base
      PROVE  GoodSlot(next, F, H, s, a, l, n)
  <2>1. ImageFits(f, H, s, a, l, n)
    BY <1>3, <1>7 DEF FrameFits
  <2> QED
    BY <1>1, <1>5, <1>7, <2>1 DEF ImageFits
<1>8. ASSUME NEW f \in F, f.type = "LOG", f.slot = s, next.applied = f.record.seq,
             f.record.seq = st.applied + 1
      PROVE  GoodSlot(next, F, H, s, a, l, n)
  <2>1. RecordFits(f, st, l, n)
    BY <1>3, <1>8 DEF FrameFits
  <2>2. /\ a <= next.applied /\ next.applied <= n /\ st.applied <= next.applied
        /\ l <= next.applied
    BY <1>1, <1>3, <1>8, <2>1 DEF RecordFits
  <2>3. \A h \in H : Below(h, s, next.applied)
    BY <1>1, <1>2, <1>3, <2>2 DEF Below
  <2> QED
    BY <1>5, <2>2, <2>3
<1> QED
  BY <1>6, <1>7, <1>8 DEF Advances

(* What EnqueueFrame does to a slot.                                       *)
LEMMA EnqueueAdvances ==
    ASSUME NEW R \in ReplicaRecords, NEW F, F \subseteq Frames, NEW f \in F, f.type # "BEGIN",
           NEW s \in Slots
    PROVE  /\ EnqueueFrame(R, f).replica.session = R.session
           /\ Advances(R.slots[s], EnqueueFrame(R, f).replica.slots[s], F, s)
<1> DEFINE Moved(Q) == Q.session = R.session /\ Advances(R.slots[s], Q.slots[s], F, s)
<1> USE DEF Accept, Reject
<1>1. /\ R \in [session : SessionIds \cup {NoSession}, slots : [Slots -> SlotApplyState],
                content : [Slots -> Contents]]
      /\ R.slots[s] \in SlotApplyState
      /\ R.slots \in [Slots -> SlotApplyState]
  BY DEF ReplicaRecords
<1>2. Moved(R)
  BY DEF Advances
<1>3. ASSUME f.type = "SNAPSHOT"
      PROVE  Moved(ApplySnapshot(R, f).replica)
  <2> DEFINE P == [R EXCEPT !.slots[f.slot].state = "Offline", !.slots[f.slot].needSnapshot = TRUE]
             Q == [R EXCEPT !.slots[f.slot] = [state |-> "CatchingUp", applied |-> f.base,
                                               needSnapshot |-> FALSE],
                            !.content[f.slot] = f.content]
  <2>1. f.slot \in Slots /\ R.slots[f.slot] \in SlotApplyState
    BY <1>1, <1>3, FrameParts
  <2>2. /\ P.session = R.session
        /\ P.slots[s].applied = R.slots[s].applied
        /\ P.slots[s].needSnapshot \/ P.slots[s].needSnapshot = R.slots[s].needSnapshot
    BY <1>1, <2>1 DEF SlotApplyState
  <2>3. /\ Q.session = R.session
        /\ s # f.slot => Q.slots[s] = R.slots[s]
        /\ s = f.slot => Q.slots[s].applied = f.base
    BY <1>1, <2>1
  <2> HIDE DEF P, Q
  <2>4. Moved(P)
    BY <2>2 DEF Advances
  <2>5. Moved(Q)
    BY <1>3, <2>3 DEF Advances
  <2> QED
    BY <2>4, <2>5 DEF ApplySnapshot, P, Q
<1>4. ASSUME f.type = "LOG"
      PROVE  Moved(ApplyLog(R, f).replica)
  <2> DEFINE P == [R EXCEPT !.slots[f.slot].needSnapshot = TRUE, !.slots[f.slot].state = "Offline"]
             Q == [R EXCEPT !.slots[f.slot].applied = f.record.seq,
                            !.slots[f.slot].state = "CatchingUp",
                            !.content[f.slot] = Append(@, <<f.record.gen, f.record.seq>>)]
  <2>1. f.slot \in Slots /\ R.slots[f.slot] \in SlotApplyState
    BY <1>1, <1>4, FrameParts
  <2>2. /\ P.session = R.session
        /\ P.slots[s].applied = R.slots[s].applied
        /\ P.slots[s].needSnapshot \/ P.slots[s].needSnapshot = R.slots[s].needSnapshot
    BY <1>1, <2>1 DEF SlotApplyState
  <2>3. /\ Q.session = R.session
        /\ s # f.slot => Q.slots[s] = R.slots[s]
        /\ s = f.slot => Q.slots[s].applied = f.record.seq
    BY <1>1, <2>1 DEF SlotApplyState
  <2> HIDE DEF P, Q
  <2>4. Moved(P)
    BY <2>2 DEF Advances
  <2>5. ASSUME f.record.seq = R.slots[f.slot].applied + 1
        PROVE  Moved(Q)
    BY <1>4, <2>3, <2>5 DEF Advances
  <2> HIDE DEF Moved
  <2> QED
    BY <1>2, <2>4, <2>5 DEF ApplyLog, P, Q
<1>5. ASSUME f.type = "DONE"
      PROVE  Moved(ApplyDone(R, f).replica)
  <2>1. ApplyDone(R, f).replica.session = R.session
    BY <1>1 DEF ApplyDone
  <2>2. ApplyDone(R, f).replica.slots[s] =
            IF s \in DOMAIN f.completed /\ ~R.slots[s].needSnapshot
            THEN [R.slots[s] EXCEPT !.state =
                    IF R.slots[s].applied >= f.completed[s] THEN "Online" ELSE "CatchingUp"]
            ELSE R.slots[s]
    BY <1>1 DEF ApplyDone
  <2>3. /\ ApplyDone(R, f).replica.slots[s].applied = R.slots[s].applied
        /\ ApplyDone(R, f).replica.slots[s].needSnapshot = R.slots[s].needSnapshot
    BY <1>1, <2>2 DEF SlotApplyState
  <2> QED
    BY <2>1, <2>3 DEF Advances
<1>6. f.type \in {"SNAPSHOT", "LOG", "DONE"}
  BY FrameParts
<1> HIDE DEF Moved
<1>7. Moved(EnqueueFrame(R, f).replica)
  BY <1>2, <1>3, <1>4, <1>5, <1>6 DEF EnqueueFrame
<1> QED
  BY <1>7 DEF Moved

(* A replica sends its HELLO again.                                        *)
LEMMA GoodSlotReported ==
    ASSUME NEW s \in Slots, NEW st \in SlotApplyState, NEW H1, NEW H2,
           NEW a, NEW l, NEW n, GoodSlot(st, {}, H1, s, a, l, n),
           \A h \in H2 : h \in H1 \/ h.pos[s] = IF st.needSnapshot THEN NoPosition ELSE st.applied
    PROVE  GoodSlot(st, {}, H2, s, a, l, n)
<1>1. st.applied \in Nat /\ st.applied <= st.applied
  BY SlotAssumption DEF SlotApplyState
<1> QED
  BY <1>1 DEF GoodSlot, Below

-----------------------------------------------------------------------------
(* The types of what the invariant is about.                               *)
LEMMA ViewType ==
    ASSUME TypeInv, LinkInv, NEW r \in Replicas
    PROVE  /\ View(r) \in ReplicaRecords
           /\ View(r).session \in SessionIds \cup {NoSession}
           /\ View(r).slots \in [Slots -> SlotApplyState]
           /\ UnderWay(r) \subseteq Frames
           /\ HellosOf(r) \subseteq Hellos
<1> USE DEF TypeInv
<1>1. rep[r] \in ReplicaRecords /\ link[r] \in Links
  BY DEF LinkType
<1>2. \A x \in SessionIds : ResetTo(x) \in ReplicaRecords
  BY FreshReplicaType DEF ResetTo, ReplicaRecords
<1>3. ASSUME link[r].phase \in {"reading", "started"}
      PROVE  link[r].frames \in Seq(Frames) /\ link[r].frames # <<>> /\ Head(link[r].frames) \in Frames
  BY <1>1, <1>3, LinkParts DEF BatchesEnd, EndsWithDone
<1>4. ASSUME Polling
      PROVE  Session.session \in SessionIds /\ poll.frames \in Seq(Frames) /\ poll.hello \in Hellos
  <2>1. poll.frames \in Seq(DataFrames) /\ Session \in SessionRecords(gen) /\ poll.hello \in Hellos
    BY <1>4, PollParts, PollFields
  <2>2. poll.frames \in Seq(Frames)
    <3>1. \A i \in 1 .. Len(poll.frames) : poll.frames[i] \in Frames
      BY <2>1 DEF Frames
    <3> QED
      BY <2>1, <3>1
  <2> QED
    BY <2>1, <2>2 DEF SessionRecords, SessionsOf, SessionIds, MasterType
<1>5. View(r) \in ReplicaRecords
  BY <1>1, <1>2, <1>3, <1>4, FrameParts DEF View, ResetsOnReading, LinkInv
<1>6. UnderWay(r) \subseteq Frames
  BY <1>3, <1>4 DEF UnderWay, FramesIn, LinkInv
<1>7. HellosOf(r) \subseteq Hellos
  BY <1>4 DEF HellosOf, AllHellos, LinkType
<1> QED
  BY <1>5, <1>6, <1>7 DEF ReplicaRecords

(* Positions are numbers.                                                  *)
LEMMA PositionTypes ==
    ASSUME TypeInv, NEW s \in Slots
    PROVE  /\ Low(s) \in Int /\ seq[s] \in Nat /\ Len(log[s]) \in Nat
           /\ \A id \in ReplicaIds : sessions[id] # NoReplica => Acked(id, s) \in Nat
<1>1. Low(s) \in Int /\ seq[s] \in Nat /\ Len(log[s]) \in Nat
  BY SlotAssumption DEF TypeInv, MasterType, Low
<1>2. ASSUME NEW id \in ReplicaIds, sessions[id] # NoReplica
      PROVE  Acked(id, s) \in Nat
  <2>1. sessions[id] \in SessionRecords(gen)
    BY <1>2 DEF TypeInv, MasterType
  <2>2. sessions[id].slots[s] \in ReplicaSlotState
    BY <2>1 DEF SessionRecords
  <2> QED
    BY <2>2, SlotAssumption DEF ReplicaSlotState, Acked
<1> QED
  BY <1>1, <1>2

(* A step that leaves the view of a replica alone keeps it good: frames    *)
(* may go, or come if they fit; a position may be acknowledged that a      *)
(* HELLO reports; and the log may be cut up to what was acknowledged.      *)
MayJoin(r, f) ==
    \A s \in Slots : FrameFits(f, View(r).slots[s], HellosOf(r), s, Acked(IdOf[r], s), Low(s), seq[s])

HellosKept(r) ==
    \/ HellosOf(r)' \subseteq HellosOf(r)
    \/ /\ View(r) = rep[r] /\ UnderWay(r) = {} /\ UnderWay(r)' = {}
       /\ HellosOf(r)' \subseteq HellosOf(r) \cup {HelloOf(r)}

PositionsKept(r, s) ==
    /\ Acked(IdOf[r], s)' \in Nat /\ Low(s)' \in Int /\ seq'[s] \in Nat
    /\ \/ Acked(IdOf[r], s)' <= Acked(IdOf[r], s)
       \/ \E h \in HellosOf(r) : h.pos[s] # NoPosition /\ Acked(IdOf[r], s)' = h.pos[s]
    /\ Low(s)' <= Low(s) \/ Low(s)' <= Acked(IdOf[r], s)
    /\ seq[s] <= seq'[s]

(* Such a step keeps the invariant of the replica.                         *)
LEMMA GoodKept ==
    ASSUME TypeInv, LinkInv, NEW r \in Replicas, Good(r), Tracked(r),
           View(r)' = View(r), UnderWay(r)' \subseteq Frames,
           \A f \in UnderWay(r)' : f \in UnderWay(r) \/ MayJoin(r, f),
           HellosKept(r),
           \A s \in Slots : PositionsKept(r, s)
    PROVE  Good(r)'
<1> SUFFICES ASSUME NEW s \in Slots
             PROVE  GoodSlot(View(r).slots[s], UnderWay(r)', HellosOf(r)', s,
                             Acked(IdOf[r], s)', Low(s)', seq'[s])
  BY DEF Good
<1> DEFINE st == View(r).slots[s]
           F == UnderWay(r) \cup UnderWay(r)'
           a == Acked(IdOf[r], s)
<1>1. /\ st \in SlotApplyState /\ F \subseteq Frames /\ HellosOf(r) \subseteq Hellos
      /\ View(r) \in ReplicaRecords
  BY ViewType
<1>2. Low(s) \in Int /\ seq[s] \in Nat /\ a \in Nat
  BY PositionTypes, ReplicaAssumption DEF Tracked, Master
<1>3. GoodSlot(st, UnderWay(r), HellosOf(r), s, a, Low(s), seq[s])
  BY DEF Good
<1>4. \A f \in F : FrameFits(f, st, HellosOf(r), s, a, Low(s), seq[s])
  BY <1>3 DEF GoodSlot, MayJoin
<1>5. GoodSlot(st, F, HellosOf(r), s, a, Low(s), seq[s])
  BY <1>3, <1>4 DEF GoodSlot
<1>6. PositionsKept(r, s)
  OBVIOUS
<1> HIDE DEF F, st, a
<1>7. ASSUME NEW H, H \subseteq HellosOf(r), NEW F2, F2 \subseteq F
      PROVE  GoodSlot(st, F2, H, s, Acked(IdOf[r], s)', Low(s)', seq'[s])
  <2>1. /\ Acked(IdOf[r], s)' \in Nat /\ Low(s)' \in Int /\ seq'[s] \in Nat
        /\ \/ Acked(IdOf[r], s)' <= a
           \/ \E h \in HellosOf(r) : h.pos[s] # NoPosition /\ Acked(IdOf[r], s)' = h.pos[s]
        /\ Low(s)' <= Low(s) \/ Low(s)' <= a
        /\ seq[s] <= seq'[s]
    BY <1>6 DEF PositionsKept, a
  <2> QED
    BY <1>1, <1>2, <1>5, <1>7, <2>1, GoodSlotKept
<1>8. CASE HellosOf(r)' \subseteq HellosOf(r)
  <2>1. UnderWay(r)' \subseteq F
    BY DEF F
  <2> QED
    BY <1>7, <1>8, <2>1 DEF st
<1>9. CASE /\ View(r) = rep[r] /\ UnderWay(r) = {} /\ UnderWay(r)' = {}
           /\ HellosOf(r)' \subseteq HellosOf(r) \cup {HelloOf(r)}
  <2>1. GoodSlot(st, {}, HellosOf(r), s, Acked(IdOf[r], s)', Low(s)', seq'[s])
    BY <1>7
  <2>2. HelloOf(r).pos[s] = IF st.needSnapshot THEN NoPosition ELSE st.applied
    BY <1>9 DEF HelloOf, HelloFrame, ReportedPositions, st
  <2>3. \A h \in HellosOf(r)' : \/ h \in HellosOf(r)
                                \/ h.pos[s] = IF st.needSnapshot THEN NoPosition ELSE st.applied
    BY <1>9, <2>2
  <2>4. GoodSlot(st, {}, HellosOf(r)', s, Acked(IdOf[r], s)', Low(s)', seq'[s])
    BY <1>1, <2>1, <2>3, GoodSlotReported
  <2> QED
    BY <1>9, <2>4 DEF st
<1> QED
  BY <1>8, <1>9 DEF HellosKept

-----------------------------------------------------------------------------
(* Logs without a gap: appending and cutting.                              *)
LEMMA LogGrows ==
    ASSUME NEW g, NEW lg \in Seq(Records(g)), NEW n \in Nat, Gapless(lg, n), Len(lg) <= n,
           NEW x \in Records(g), x.seq = n + 1
    PROVE  Gapless(Append(lg, x), n + 1) /\ Len(Append(lg, x)) = Len(lg) + 1
<1>1. /\ Len(lg) \in Nat /\ Len(Append(lg, x)) = Len(lg) + 1
      /\ \A i \in 1 .. Len(lg) : Append(lg, x)[i] = lg[i] /\ lg[i].seq = n - Len(lg) + i
      /\ Append(lg, x)[Len(lg) + 1] = x
  BY DEF Gapless
<1>2. ASSUME NEW i \in 1 .. Len(lg) + 1
      PROVE  Append(lg, x)[i].seq = (n + 1) - (Len(lg) + 1) + i
  <2>1. CASE i = Len(lg) + 1
    BY <1>1, <2>1
  <2>2. CASE i # Len(lg) + 1
    BY <1>1, <2>2
  <2> QED
    BY <2>1, <2>2
<1> QED
  BY <1>1, <1>2 DEF Gapless

(* A log that is cut has no gap and keeps what was not acknowledged.       *)
LEMMA LogIsCut ==
    ASSUME NEW g, NEW lg \in Seq(Records(g)), NEW last \in Nat, Gapless(lg, last), Len(lg) <= last,
           NEW n \in Nat
    PROVE  /\ Gapless(AckThrough(lg, n), last)
           /\ Len(AckThrough(lg, n)) \in Nat /\ Len(AckThrough(lg, n)) <= last
           /\ \/ last - Len(AckThrough(lg, n)) <= last - Len(lg)
              \/ last - Len(AckThrough(lg, n)) <= n
<1> DEFINE c == AckCount(lg, n)
<1>0. c \in 0 .. Len(lg) /\ \A i \in 1 .. c : lg[i].seq <= n
  BY AckCountIs, Zenon
<1>1. c \in 0 .. Len(lg) /\ Len(lg) \in Nat /\ \A i \in 1 .. c : lg[i].seq <= n
  BY <1>0
<1> HIDE DEF c
<1>2. AckThrough(lg, n) = SubSeq(lg, c + 1, Len(lg))
  BY DEF AckThrough, c
<1>3. /\ Len(SubSeq(lg, c + 1, Len(lg))) = Len(lg) - c
      /\ \A i \in 1 .. Len(lg) - c : SubSeq(lg, c + 1, Len(lg))[i] = lg[c + i]
  BY <1>1
<1>4. \A i \in 1 .. Len(lg) : lg[i].seq = last - Len(lg) + i
  BY DEF Gapless
<1>5. Gapless(AckThrough(lg, n), last)
  <2> SUFFICES ASSUME NEW i \in 1 .. Len(lg) - c
               PROVE  lg[c + i].seq = last - (Len(lg) - c) + i
    BY <1>2, <1>3 DEF Gapless
  <2>1. c + i \in 1 .. Len(lg)
    BY <1>1
  <2> QED
    BY <1>1, <1>4, <2>1
<1>6. c = 0 \/ last - (Len(lg) - c) <= n
  <2>1. CASE c # 0
    <3>1. c \in 1 .. c /\ c \in 1 .. Len(lg)
      BY <1>1, <2>1
    <3> QED
      BY <1>1, <1>4, <3>1
  <2> QED
    BY <2>1
<1> QED
  BY <1>1, <1>2, <1>3, <1>5, <1>6

(* What of a log is copied are records of it.                              *)
LEMMA CopyIsOfLog ==
    ASSUME NEW g, NEW lg \in Seq(Records(g)), NEW last \in Nat, Gapless(lg, last), Len(lg) <= last,
           NEW n \in Nat, NEW limit \in Nat, NEW maxBytes,
           NEW i \in 1 .. Len(CopyAfter(lg, n, limit, maxBytes))
    PROVE  LET x == CopyAfter(lg, n, limit, maxBytes)[i].seq
           IN  last - Len(lg) <= x /\ x <= last
<1> DEFINE cut == AckThrough(lg, n)
           copy == CopyAfter(lg, n, limit, maxBytes)
<1>1. /\ Gapless(cut, last) /\ Len(cut) \in Nat /\ Len(cut) <= last
      /\ cut \in Seq(Records(g)) /\ Len(cut) <= Len(lg) /\ Len(lg) \in Nat
  <2>1. AckCount(lg, n) \in 0 .. Len(lg)
    BY AckCountIs
  <2>2. Len(cut) <= Len(lg) /\ Len(lg) \in Nat
    BY <2>1 DEF AckThrough
  <2> QED
    BY <2>2, LogIsCut, AckThroughType
<1>2. Begins(copy, cut)
  BY CopyAfterIs
<1> HIDE DEF cut, copy
<1>3. PICK m \in 0 .. Len(cut) : copy = SubSeq(cut, 1, m)
  BY <1>2 DEF Begins
<1>4. i \in 1 .. Len(cut) /\ copy[i] = cut[i]
  <2>1. Len(copy) = m /\ \A j \in 1 .. m : copy[j] = cut[j]
    BY <1>1, <1>3
  <2>2. i \in 1 .. m
    BY <2>1 DEF copy
  <2> QED
    BY <1>1, <2>1, <2>2
<1>5. cut[i].seq = last - Len(cut) + i
  BY <1>1, <1>4 DEF Gapless
<1>6. last - Len(lg) <= copy[i].seq /\ copy[i].seq <= last
  BY <1>1, <1>4, <1>5
<1> QED
  BY <1>6 DEF copy

-----------------------------------------------------------------------------
(* Steps of the slots: a write, or a cut of the logs.                      *)
LEMMA SlotStep ==
    ASSUME TypeInv, BacklogInv, LogInv',
           UNCHANGED <<rep, link, stale, sessions, poll, gen, nextSession>>,
           \A s \in Slots : /\ Low(s)' \in Int /\ seq'[s] \in Nat /\ seq[s] <= seq'[s]
                            /\ \/ Low(s)' <= Low(s)
                               \/ \A id \in Known : Low(s)' <= Acked(id, s)
    PROVE  BacklogInv'
<1> USE DEF BacklogInv
<1>1. Session' = Session /\ PollId' = PollId /\ Polling' = Polling
  BY DEF Session, PollId, Polling
<1>2. \A r \in Replicas : /\ View(r)' = View(r) /\ UnderWay(r)' = UnderWay(r)
                          /\ HellosOf(r)' = HellosOf(r) /\ HelloOf(r)' = HelloOf(r)
                          /\ Resetting(r)' = Resetting(r)
                          /\ Current(r)' = Current(r)
                          /\ Master(r)' = Master(r) /\ Tracked(r)' = Tracked(r)
  BY <1>1 DEF View, UnderWay, HellosOf, AllHellos, HelloOf, Resetting, Current, Master, Tracked
<1>3. \A id, s : Acked(id, s)' = Acked(id, s)
  BY <1>1 DEF Acked
<1>4. LinkInv'
  BY <1>1, <1>2 DEF LinkInv
<1>5. IssuedInv'
  BY <1>1, <1>2 DEF IssuedInv, Issued, AllHellos
<1>6. TokenInv'
  BY <1>1, <1>2 DEF TokenInv, Apart
<1>7. ASSUME NEW r \in Replicas
      PROVE  Good(r)'
  <2>1. CASE Tracked(r)
    <3>1. IdOf[r] \in Known /\ IdOf[r] \in ReplicaIds
      BY <2>1, ReplicaAssumption DEF Tracked, Master, Known
    <3>2. \A s \in Slots : Acked(IdOf[r], s) \in Nat
      BY <3>1, PositionTypes DEF Known
    <3>3. \A s \in Slots : PositionsKept(r, s)
      BY <1>3, <3>1, <3>2 DEF PositionsKept
    <3>4. UnderWay(r)' \subseteq Frames /\ HellosKept(r)
      BY <1>2, ViewType DEF HellosKept
    <3>5. Good(r) /\ LinkInv /\ View(r)' = View(r) /\ UnderWay(r)' = UnderWay(r)
      BY <1>2 DEF GoodInv
    <3> QED
      BY <2>1, <3>3, <3>4, <3>5, GoodKept
  <2>2. CASE ~Tracked(r)
    BY <1>2, <2>2 DEF Good
  <2> QED
    BY <2>1, <2>2
<1> QED
  BY <1>4, <1>5, <1>6, <1>7 DEF GoodInv

(* A client write makes the log longer.                                    *)
LEMMA WriteRetains ==
    ASSUME TypeInv, BacklogInv, NEW s \in Slots, Write(s)
    PROVE  BacklogInv'
<1> DEFINE x == [seq |-> seq[s] + 1, gen |-> gen, bytes |-> RecordBytes(s, seq[s] + 1)]
<1>1. /\ log \in [Slots -> Seq(Records(gen))] /\ seq \in [Slots -> 0 .. MaxSeq]
      /\ seq[s] < MaxSeq
      /\ seq' = [seq EXCEPT ![s] = @ + 1] /\ log' = [log EXCEPT ![s] = Append(@, x)]
      /\ UNCHANGED <<rep, link, stale, sessions, poll, gen, nextSession>>
  BY DEF TypeInv, MasterType, Write, WriteSlot
<1>2. seq[s] \in Nat /\ seq[s] + 1 \in 1 .. MaxSeq
  BY <1>1, SlotAssumption
<1>3. x \in Records(gen) /\ x.seq = seq[s] + 1
  BY <1>2, LimitAssumption DEF Records
<1> HIDE DEF x
<1>4. Gapless(log[s], seq[s]) /\ Len(log[s]) <= seq[s] /\ log[s] \in Seq(Records(gen))
  BY <1>1 DEF BacklogInv, LogInv
<1>5. /\ Gapless(Append(log[s], x), seq[s] + 1)
      /\ Len(Append(log[s], x)) = Len(log[s]) + 1 /\ Len(log[s]) \in Nat
  BY <1>2, <1>3, <1>4, LogGrows
<1>6. ASSUME NEW q \in Slots
      PROVE  /\ Gapless(log'[q], seq'[q]) /\ Len(log'[q]) <= seq'[q]
             /\ Low(q)' \in Int /\ seq'[q] \in Nat /\ seq[q] <= seq'[q] /\ Low(q)' <= Low(q)
  <2>1. Low(q) \in Int /\ seq[q] \in Nat /\ Len(log[q]) \in Nat
    BY PositionTypes
  <2>2. CASE q = s
    BY <1>1, <1>2, <1>4, <1>5, <2>1, <2>2 DEF Low
  <2>3. CASE q # s
    <3>1. log'[q] = log[q] /\ seq'[q] = seq[q]
      BY <1>1, <2>3
    <3> QED
      BY <2>1, <3>1 DEF Low, BacklogInv, LogInv
  <2> QED
    BY <2>2, <2>3
<1> QED
  BY <1>1, <1>6, SlotStep DEF LogInv

(* Garbage collection cuts the logs up to what every known replica has.    *)
LEMMA MaintainRetains ==
    ASSUME TypeInv, BacklogInv, Maintenance, poll.loop # "evict", poll'.loop # "evict"
    PROVE  BacklogInv'
<1>1. Maintain /\ UNCHANGED <<rep, link, stale>>
  BY DEF Maintenance, EvictSlot
<1>2. poll = NoPoll
  BY <1>1 DEF Maintain, MutexFree, TypeInv, MasterType, Polls, Evictions
<1>3. poll' = NoPoll
  BY <1>1 DEF Maintain, StartEviction
<1>4. /\ log \in [Slots -> Seq(Records(gen))] /\ seq \in [Slots -> 0 .. MaxSeq]
      /\ log' = CollectGarbage
      /\ UNCHANGED <<rep, link, stale, sessions, poll, gen, nextSession, seq>>
  BY <1>1, <1>2, <1>3 DEF TypeInv, MasterType, Maintain
<1>5. ASSUME NEW s \in Slots
      PROVE  /\ Gapless(log'[s], seq'[s]) /\ Len(log'[s]) <= seq'[s]
             /\ Low(s)' \in Int /\ seq'[s] \in Nat /\ seq[s] <= seq'[s]
             /\ Low(s)' <= Low(s) \/ \A id \in Known : Low(s)' <= Acked(id, s)
  <2>1. Low(s) \in Int /\ seq[s] \in Nat /\ Len(log[s]) \in Nat
    BY PositionTypes
  <2>2. Gapless(log[s], seq[s]) /\ Len(log[s]) <= seq[s] /\ log[s] \in Seq(Records(gen))
    BY <1>4 DEF BacklogInv, LogInv
  <2>3. CASE Known = {}
    <3>1. log'[s] = log[s]
      BY <1>4, <2>3 DEF CollectGarbage
    <3> QED
      BY <1>4, <2>1, <2>2, <3>1 DEF Low
  <2>4. CASE Known # {}
    <3>1. log'[s] = AckThrough(log[s], MinAcked(s))
      BY <1>4, <2>4 DEF CollectGarbage
    <3>2. /\ MinAcked(s) \in Nat
          /\ \A id \in Known : MinAcked(s) <= sessions[id].slots[s].acked
      BY <2>4, MinAckedType, SlotAssumption DEF TypeInv
    <3>3. \A id \in Known : /\ Acked(id, s) = sessions[id].slots[s].acked
                            /\ Acked(id, s) \in Nat
      BY <1>2, PositionTypes DEF Acked, NoPoll, Known
    <3>4. /\ Gapless(AckThrough(log[s], MinAcked(s)), seq[s])
          /\ Len(AckThrough(log[s], MinAcked(s))) \in Nat
          /\ Len(AckThrough(log[s], MinAcked(s))) <= seq[s]
          /\ \/ seq[s] - Len(AckThrough(log[s], MinAcked(s))) <= seq[s] - Len(log[s])
             \/ seq[s] - Len(AckThrough(log[s], MinAcked(s))) <= MinAcked(s)
      BY <2>1, <2>2, <3>2, LogIsCut
    <3>5. Low(s)' = seq[s] - Len(AckThrough(log[s], MinAcked(s)))
      BY <1>4, <3>1 DEF Low
    <3>6. Low(s)' \in Int /\ (Low(s)' <= Low(s) \/ Low(s)' <= MinAcked(s))
      BY <2>1, <3>4, <3>5 DEF Low
    <3>7. Low(s)' <= MinAcked(s) => \A id \in Known : Low(s)' <= Acked(id, s)
      BY <3>2, <3>3, <3>6
    <3> QED
      BY <1>4, <2>1, <3>1, <3>4, <3>6, <3>7
  <2> QED
    BY <2>3, <2>4
<1> QED
  BY <1>4, <1>5, SlotStep DEF LogInv

-----------------------------------------------------------------------------
(* Steps of one replica.  It may go on with its session, or forget it, and *)
(* leave its HELLO behind.                                                 *)
LEMMA TrackedIsReal ==
    ASSUME TypeInv, NEW r \in Replicas, Tracked(r)
    PROVE  View(r).session # NoSession /\ IdOf[r] \in ReplicaIds /\ Master(r) \in SessionRecords(gen)
<1>1. IdOf[r] \in ReplicaIds /\ Master(r) \in SessionRecords(gen)
  BY ReplicaAssumption DEF Tracked, Master, TypeInv, MasterType
<1>2. Master(r).session \in SessionIds
  BY <1>1 DEF SessionRecords, SessionsOf, SessionIds, TypeInv, MasterType
<1> QED
  BY <1>1, <1>2, SessionsAreReal DEF Tracked

(* What a step of one replica has to keep.                                 *)
LEMMA ReplicaMoves ==
    ASSUME TypeInv, BacklogInv, NEW r \in Replicas, UNCHANGED masterVars,
           \A q \in Replicas : q # r => link'[q] = link[q] /\ rep'[q] = rep[q],
           AllHellos' \subseteq AllHellos \cup {HelloOf(r)},
           link'[r].phase # "answering",
           link'[r].phase = "sent" => link'[r].hello = HelloOf(r)',
           rep'[r].session \in {rep[r].session, View(r).session, NoSession},
           View(r)'.session \in {rep[r].session, View(r).session, NoSession},
           \A f \in UnderWay(r)' : f.session = View(r)'.session,
           Resetting(r)' => Resetting(r) /\ rep'[r] = rep[r],
           Good(r)'
    PROVE  BacklogInv'
<1> USE DEF BacklogInv
<1>1. /\ Session' = Session /\ PollId' = PollId /\ Polling' = Polling
      /\ UNCHANGED <<gen, seq, log, sessions, nextSession, poll>>
  BY DEF Session, PollId, Polling, masterVars
<1>2. \A q \in Replicas : q # r =>
          /\ View(q)' = View(q) /\ UnderWay(q)' = UnderWay(q)
          /\ HelloOf(q)' = HelloOf(q)
          /\ Resetting(q)' = Resetting(q)
          /\ Current(q)' = Current(q)
          /\ Master(q)' = Master(q) /\ Tracked(q)' = Tracked(q)
  BY <1>1 DEF View, UnderWay, HelloOf, Resetting, Current, Master, Tracked
<1>3. \A id, s : Acked(id, s)' = Acked(id, s)
  BY <1>1 DEF Acked
<1>4. LogInv'
  BY <1>1 DEF LogInv
<1>5. LinkInv'
  BY <1>1, <1>2 DEF LinkInv
<1>6. IssuedInv'
  <2>1. \A x : Issued(x)' = Issued(x)
    BY <1>1 DEF Issued
  <2>2. Issued(NoSession) /\ HelloOf(r).session = rep[r].session
    BY DEF Issued, HelloOf, HelloFrame
  <2>3. \A q \in Replicas : Issued(rep'[q].session) /\ Issued(View(q)'.session)
    BY <1>2, <2>2 DEF IssuedInv
  <2>4. \A h \in AllHellos' : Issued(h.session)
    BY <2>2 DEF IssuedInv
  <2> QED
    BY <1>1, <2>1, <2>3, <2>4 DEF IssuedInv
<1>7. TokenInv'
  <2>1. \A q \in Replicas : \A f \in UnderWay(q)' : f.session = View(q)'.session
    BY <1>2 DEF TokenInv
  <2>2. ASSUME NEW p \in Replicas, NEW q \in Replicas, p # q
        PROVE  Apart(p, q)'
    <3>1. Apart(p, q) /\ Apart(q, p)
      BY <2>2 DEF TokenInv
    <3>2. CASE p # r /\ q # r
      BY <1>2, <3>1, <3>2 DEF Apart
    <3>3. CASE p = r
      <4>1. View(q)' = View(q) /\ rep'[q] = rep[q]
        BY <1>2, <2>2, <3>3
      <4> QED
        BY <3>1, <3>3, <4>1 DEF Apart
    <3>4. CASE q = r
      <4>1. View(p)' = View(p) /\ rep'[p] = rep[p]
        BY <1>2, <2>2, <3>4
      <4> QED
        BY <3>1, <3>4, <4>1 DEF Apart
    <3> QED
      BY <3>2, <3>3, <3>4
  <2>3. \A q \in Replicas : Resetting(q)' => ~Current(q)'
    <3>1. Resetting(r)' => ~Current(r)'
      BY <1>1 DEF TokenInv, Current
    <3> QED
      BY <1>2, <3>1 DEF TokenInv
  <2> QED
    BY <1>1, <2>1, <2>2, <2>3 DEF TokenInv
<1>8. ASSUME NEW q \in Replicas, q # r
      PROVE  Good(q)'
  <2>1. CASE Tracked(q)
    <3>1. View(q).session # NoSession /\ IdOf[q] \in ReplicaIds /\ sessions[IdOf[q]] # NoReplica
      BY <2>1, TrackedIsReal DEF Tracked, Master
    <3>2. HelloOf(r).session # View(q).session
      BY <1>8, <3>1 DEF TokenInv, Apart, HelloOf, HelloFrame
    <3>3. HellosKept(q)
      BY <1>2, <1>8, <3>2 DEF HellosKept, HellosOf
    <3>4. \A s \in Slots : PositionsKept(q, s)
      <4> SUFFICES ASSUME NEW s \in Slots PROVE PositionsKept(q, s)
        OBVIOUS
      <4>1. Acked(IdOf[q], s) \in Nat /\ Low(s) \in Int /\ seq[s] \in Nat
        BY <3>1, PositionTypes
      <4>2. Low(s)' = Low(s)
        BY <1>1 DEF Low
      <4> QED
        BY <1>1, <1>3, <4>1, <4>2 DEF PositionsKept
    <3>5. Good(q) /\ LinkInv /\ View(q)' = View(q) /\ UnderWay(q)' = UnderWay(q)
      BY <1>2, <1>8 DEF GoodInv
    <3>6. UnderWay(q)' \subseteq Frames
      BY <3>5, ViewType
    <3> QED
      BY <2>1, <3>3, <3>4, <3>5, <3>6, GoodKept
  <2>2. CASE ~Tracked(q)
    BY <1>2, <1>8, <2>2 DEF Good
  <2> QED
    BY <2>1, <2>2
<1> QED
  BY <1>4, <1>5, <1>6, <1>7, <1>8 DEF GoodInv

(* A replica whose view and positions stay as they are.                    *)
LEMMA ReplicaStays ==
    ASSUME TypeInv, BacklogInv, NEW r \in Replicas, UNCHANGED masterVars,
           View(r)' = View(r), UnderWay(r)' \subseteq UnderWay(r), HellosKept(r)
    PROVE  Good(r)'
<1> USE DEF BacklogInv
<1>1. /\ Session' = Session /\ PollId' = PollId
      /\ UNCHANGED <<gen, seq, log, sessions, nextSession, poll>>
  BY DEF Session, PollId, masterVars
<1>2. Tracked(r)' = Tracked(r)
  BY <1>1 DEF Tracked, Master
<1>3. CASE Tracked(r)
  <2>1. IdOf[r] \in ReplicaIds /\ sessions[IdOf[r]] # NoReplica
    BY <1>3, TrackedIsReal DEF Tracked, Master
  <2>2. \A s \in Slots : PositionsKept(r, s)
    <3> SUFFICES ASSUME NEW s \in Slots PROVE PositionsKept(r, s)
      OBVIOUS
    <3>1. Acked(IdOf[r], s) \in Nat /\ Low(s) \in Int /\ seq[s] \in Nat
      BY <2>1, PositionTypes
    <3>2. Low(s)' = Low(s) /\ Acked(IdOf[r], s)' = Acked(IdOf[r], s)
      BY <1>1 DEF Low, Acked
    <3> QED
      BY <1>1, <3>1, <3>2 DEF PositionsKept
  <2>3. Good(r) /\ LinkInv /\ UnderWay(r)' \subseteq Frames
    BY ViewType DEF GoodInv
  <2> QED
    BY <1>3, <2>2, <2>3, GoodKept
<1>4. CASE ~Tracked(r)
  BY <1>2, <1>4 DEF Good
<1> QED
  BY <1>3, <1>4

(* A replica sends its HELLO.                                              *)
LEMMA SendHelloRetains ==
    ASSUME TypeInv, BacklogInv, NEW r \in Replicas, SendHello(r)
    PROVE  BacklogInv'
<1>1. /\ UNCHANGED masterVars /\ UNCHANGED rep /\ UNCHANGED stale
      /\ link[r].phase = "idle" /\ link \in [Replicas -> Links]
      /\ link'[r].phase = "sent" /\ link'[r].hello = HelloOf(r)
      /\ \A q \in Replicas : q # r => link'[q] = link[q]
  BY DEF SendHello, TypeInv, LinkType, HelloOf
<1>2. HelloOf(r)' = HelloOf(r) /\ AllHellos' = AllHellos
  BY <1>1 DEF HelloOf, AllHellos, Polling, masterVars
<1>3. View(r)' = View(r) /\ View(r) = rep[r] /\ UnderWay(r)' = {} /\ UnderWay(r) = {}
  BY <1>1 DEF View, UnderWay, ResetsOnReading
<1>4. ~Resetting(r)'
  BY <1>1 DEF Resetting, ResetsOnReading
<1>5. HellosKept(r)
  BY <1>2, <1>3 DEF HellosKept, HellosOf
<1>6. Good(r)'
  BY <1>1, <1>3, <1>5, ReplicaStays
<1> QED
  BY <1>1, <1>2, <1>3, <1>4, <1>6, ReplicaMoves

(* An abandoned connection leaves at most the HELLO of its replica behind. *)
LEMMA Abandoned ==
    ASSUME TypeInv, BacklogInv, NEW r \in Replicas, Abandon(r), UNCHANGED masterVars
    PROVE  /\ AllHellos' \subseteq AllHellos \cup {HelloOf(r)}
           /\ link[r].phase # "sent" => AllHellos' = AllHellos
           /\ link'[r].phase = "idle" /\ \A q \in Replicas : q # r => link'[q] = link[q]
           /\ View(r)' = rep'[r] /\ UnderWay(r)' = {} /\ ~Resetting(r)'
<1>1. /\ link \in [Replicas -> Links]
      /\ link'[r] = Idle /\ \A q \in Replicas : q # r => link'[q] = link[q]
  BY DEF TypeInv, LinkType, Abandon
<1>2. link'[r].phase = "idle"
  BY <1>1 DEF Idle
<1>3. View(r)' = rep'[r] /\ UnderWay(r)' = {} /\ ~Resetting(r)'
  BY <1>2 DEF View, UnderWay, Resetting, ResetsOnReading
<1>4. UNCHANGED poll
  BY DEF masterVars
<1>5. CASE link[r].phase = "sent"
  <2>1. BagToSet(stale') = BagToSet(stale) \cup {HelloOf(r)}
    BY <1>5, BagType DEF Abandon, BacklogInv, LinkInv
  <2> QED
    BY <1>1, <1>2, <1>3, <1>4, <1>5, <2>1 DEF AllHellos, Polling
<1>6. CASE link[r].phase # "sent"
  <2>1. stale' = stale
    BY <1>6 DEF Abandon
  <2> QED
    BY <1>1, <1>2, <1>3, <1>4, <1>6, <2>1 DEF AllHellos, Polling
<1> QED
  BY <1>5, <1>6

(* A replica gives up, loses its connection or restarts.                   *)
LEMMA AbandonRetains ==
    ASSUME TypeInv, BacklogInv, NEW r \in Replicas, GiveUp(r) \/ Disconnect(r) \/ RestartReplica(r)
    PROVE  BacklogInv'
<1>1. /\ UNCHANGED masterVars /\ Abandon(r) /\ rep \in [Replicas -> ReplicaRecords]
      /\ \A q \in Replicas : q # r => rep'[q] = rep[q]
      /\ rep'[r] = rep[r] \/ rep'[r] = FreshReplica
  BY DEF GiveUp, Disconnect, RestartReplica, TypeInv, LinkType
<1>2. /\ AllHellos' \subseteq AllHellos \cup {HelloOf(r)}
      /\ link[r].phase # "sent" => AllHellos' = AllHellos
      /\ link'[r].phase = "idle" /\ \A q \in Replicas : q # r => link'[q] = link[q]
      /\ View(r)' = rep'[r] /\ UnderWay(r)' = {} /\ ~Resetting(r)'
  BY <1>1, Abandoned
<1>3. FreshReplica.session = NoSession
  BY DEF FreshReplica
<1>4. Good(r)'
  <2>1. CASE rep'[r] = FreshReplica
    <3>1. ~Tracked(r)'
      <4>1. sessions' = sessions /\ Master(r)' = Master(r)
        BY <1>1 DEF masterVars, Master
      <4>2. Master(r) # NoReplica => Master(r).session \in SessionIds
        BY ReplicaAssumption
           DEF Master, TypeInv, MasterType, SessionRecords, SessionsOf, SessionIds
      <4> QED
        BY <1>2, <1>3, <2>1, <4>1, <4>2, SessionsAreReal DEF Tracked
    <3> QED
      BY <3>1 DEF Good
  <2>2. CASE rep'[r] = rep[r] /\ Resetting(r)
    <3>1. ~Current(r)
      BY <2>2 DEF BacklogInv, TokenInv
    <3>2. ~Tracked(r)'
      BY <1>1, <1>2, <2>2, <3>1 DEF Tracked, Current, Master, masterVars
    <3> QED
      BY <3>2 DEF Good
  <2>3. CASE rep'[r] = rep[r] /\ ~Resetting(r)
    <3>1. View(r) = rep[r] /\ View(r)' = View(r)
      BY <1>2, <2>3 DEF View, Resetting
    <3>2. CASE link[r].phase # "sent"
      <4>1. HellosKept(r)
        BY <1>2, <3>1, <3>2 DEF HellosKept, HellosOf
      <4> QED
        BY <1>1, <1>2, <3>1, <4>1, ReplicaStays
    <3>3. CASE link[r].phase = "sent"
      <4>1. UnderWay(r) = {}
        BY <3>3 DEF UnderWay
      <4>2. HellosKept(r)
        BY <1>2, <3>1, <4>1 DEF HellosKept, HellosOf
      <4> QED
        BY <1>1, <1>2, <3>1, <4>2, ReplicaStays
    <3> QED
      BY <3>2, <3>3
  <2> QED
    BY <1>1, <2>1, <2>2, <2>3
<1> QED
  BY <1>1, <1>2, <1>3, <1>4, ReplicaMoves

(* The frames left after the first one.                                    *)
LEMMA TailOfBatch ==
    ASSUME NEW fs \in Seq(Frames), fs # <<>>
    PROVE  Head(fs) \in FramesIn(fs) /\ FramesIn(Tail(fs)) \subseteq FramesIn(fs)
<1>1. Head(fs) \in FramesIn(fs)
  <2>1. Head(fs) = fs[1] /\ 1 \in 1 .. Len(fs)
    OBVIOUS
  <2> QED
    BY <2>1 DEF FramesIn
<1>2. ASSUME NEW i \in 1 .. Len(Tail(fs))
      PROVE  Tail(fs)[i] \in FramesIn(fs)
  <2>1. Tail(fs)[i] = fs[i + 1] /\ i + 1 \in 1 .. Len(fs)
    BY <1>2
  <2> QED
    BY <2>1 DEF FramesIn
<1> QED
  BY <1>1, <1>2 DEF FramesIn

(* A replica applies the next frame of a batch.                            *)
LEMMA ReceiveRetains ==
    ASSUME TypeInv, BacklogInv, NEW r \in Replicas, Receive(r)
    PROVE  BacklogInv'
<1> DEFINE fs == link[r].frames
           f == Head(fs)
           inPlace == (f.type = "BEGIN") = (link[r].phase = "reading")
           result == EnqueueFrame(rep[r], f)
<1>1. /\ UNCHANGED masterVars /\ UNCHANGED stale
      /\ link[r].phase \in {"reading", "started"}
      /\ link \in [Replicas -> Links] /\ rep \in [Replicas -> ReplicaRecords]
      /\ \A q \in Replicas : q # r => link'[q] = link[q] /\ rep'[q] = rep[q]
      /\ rep'[r] = IF inPlace THEN result.replica ELSE rep[r]
  BY DEF Receive, TypeInv, LinkType
<1>2. \/ link'[r] = Idle
      \/ link'[r] = [phase |-> "started", frames |-> Tail(fs), floor |-> link[r].floor]
  BY <1>1 DEF Receive
<1>3. fs \in Seq(Frames) /\ fs # <<>>
  BY <1>1, LinkParts DEF TypeInv, BatchesEnd, EndsWithDone
<1>4. f \in FramesIn(fs) /\ FramesIn(Tail(fs)) \subseteq FramesIn(fs) /\ UnderWay(r) = FramesIn(fs)
  BY <1>1, <1>3, TailOfBatch DEF UnderWay
<1>5. link'[r].phase \in {"idle", "started"}
  BY <1>2 DEF Idle
<1>6. View(r)' = rep'[r] /\ ~Resetting(r)'
  BY <1>5 DEF View, Resetting, ResetsOnReading
<1>7. UnderWay(r)' \subseteq UnderWay(r)
  <2>1. CASE link'[r] = Idle
    BY <2>1 DEF Idle, UnderWay
  <2>2. CASE link'[r] = [phase |-> "started", frames |-> Tail(fs), floor |-> link[r].floor]
    BY <1>4, <2>2 DEF UnderWay
  <2> QED
    BY <1>2, <2>1, <2>2
<1>8. AllHellos' = AllHellos /\ poll' = poll
  BY <1>1 DEF AllHellos, Polling, masterVars
<1>9. rep[r] \in ReplicaRecords /\ f \in Frames /\ UnderWay(r) \subseteq Frames
  BY <1>1, <1>3, ViewType DEF BacklogInv
<1>10. \A x \in UnderWay(r)' : x.session = View(r).session
  BY <1>7 DEF BacklogInv, TokenInv
<1>11. Resetting(r) <=> link[r].phase = "reading" /\ f.type = "BEGIN" /\ f.reset
  BY <1>1 DEF Resetting, ResetsOnReading
<1>12. View(r) = IF Resetting(r) THEN ResetTo(f.session) ELSE rep[r]
  BY <1>1, <1>11 DEF View, ResetsOnReading
<1> HIDE DEF f, fs
<1>13. ASSUME rep'[r] = View(r)
       PROVE  BacklogInv'
  <2>1. HellosKept(r)
    BY <1>6, <1>8, <1>13 DEF HellosKept, HellosOf
  <2>2. Good(r)'
    BY <1>1, <1>6, <1>7, <1>13, <2>1, ReplicaStays
  <2> QED
    BY <1>1, <1>5, <1>6, <1>8, <1>10, <1>13, <2>2, ReplicaMoves
<1>14. CASE ~inPlace
  BY <1>1, <1>11, <1>12, <1>13, <1>14
<1>15. CASE inPlace /\ f.type = "BEGIN"
  <2>1. result = ApplyBegin(rep[r], f)
    BY <1>15 DEF EnqueueFrame
  <2>2. result.replica = View(r)
    BY <1>11, <1>12, <1>15, <2>1 DEF ApplyBegin, Accept, Reject, ResetTo
  <2> QED
    BY <1>1, <1>13, <1>15, <2>2
<1>16. CASE inPlace /\ f.type # "BEGIN"
  <2>1. View(r) = rep[r] /\ rep'[r] = result.replica
    BY <1>1, <1>11, <1>12, <1>16
  <2>2. /\ result.replica \in ReplicaRecords
        /\ result.replica.session = rep[r].session
        /\ \A s \in Slots : Advances(rep[r].slots[s], result.replica.slots[s], UnderWay(r), s)
    <3>1. \E s : s \in Slots
      BY SlotAssumption DEF Slots
    <3> QED
      BY <1>4, <1>9, <1>16, <3>1, EnqueueFrameType, EnqueueAdvances
  <2> HIDE DEF result
  <2>3. Good(r)'
    <3>1. /\ Session' = Session /\ PollId' = PollId
          /\ UNCHANGED <<gen, seq, log, sessions, nextSession, poll>>
      BY <1>1 DEF Session, PollId, masterVars
    <3>2. HellosOf(r)' = HellosOf(r) /\ Tracked(r)' = Tracked(r)
      BY <1>6, <1>8, <2>1, <2>2, <3>1 DEF HellosOf, Tracked, Master
    <3>3. ASSUME Tracked(r), NEW s \in Slots
          PROVE  GoodSlot(View(r)'.slots[s], UnderWay(r)', HellosOf(r)', s,
                          Acked(IdOf[r], s)', Low(s)', seq'[s])
      <4>1. IdOf[r] \in ReplicaIds /\ sessions[IdOf[r]] # NoReplica
        BY <3>3, TrackedIsReal DEF Tracked, Master
      <4>2. Acked(IdOf[r], s) \in Nat /\ Low(s) \in Int /\ seq[s] \in Nat
        BY <4>1, PositionTypes
      <4>3. Low(s)' = Low(s) /\ Acked(IdOf[r], s)' = Acked(IdOf[r], s)
        BY <3>1 DEF Low, Acked
      <4>4. rep[r].slots[s] \in SlotApplyState /\ result.replica.slots[s] \in SlotApplyState
        BY <1>9, <2>2 DEF ReplicaRecords
      <4>5. GoodSlot(rep[r].slots[s], UnderWay(r), HellosOf(r), s, Acked(IdOf[r], s), Low(s), seq[s])
        BY <2>1, <3>3 DEF BacklogInv, GoodInv, Good
      <4>6. HellosOf(r) \subseteq Hellos
        BY ViewType DEF BacklogInv
      <4>7. GoodSlot(result.replica.slots[s], UnderWay(r), HellosOf(r), s,
                     Acked(IdOf[r], s), Low(s), seq[s])
        BY <1>9, <2>2, <4>2, <4>4, <4>5, <4>6, GoodSlotAdvances
      <4>8. GoodSlot(result.replica.slots[s], UnderWay(r)', HellosOf(r), s,
                     Acked(IdOf[r], s), Low(s), seq[s])
        BY <1>7, <4>7 DEF GoodSlot
      <4> QED
        BY <1>6, <2>1, <3>1, <3>2, <4>3, <4>8
    <3> QED
      BY <3>2, <3>3 DEF Good
  <2> QED
    BY <1>1, <1>5, <1>6, <1>8, <1>10, <2>1, <2>2, <2>3, ReplicaMoves
<1> QED
  BY <1>14, <1>15, <1>16

-----------------------------------------------------------------------------
(* A finished batch: its first frame and what it holds besides the frames  *)
(* that were built.                                                        *)
LEMMA BatchHas ==
    ASSUME TypeInv, Polling
    PROVE  /\ Batch \in Seq(Frames) /\ FramesIn(Batch) \subseteq Frames
           /\ Head(Batch) = BeginFrame(Session.session, Session.reset)
           /\ \A f \in FramesIn(Batch) :
                \/ f \in FramesIn(poll.frames)
                \/ f.type \in {"BEGIN", "DONE"} /\ f.session = Session.session
<1> DEFINE b == BeginFrame(Session.session, Session.reset)
           d == DoneFrame(Session.session, poll.completed)
<1>1. Batch \in Seq(Frames)
  BY BatchType DEF TypeInv
<1>2. poll.frames \in Seq(DataFrames)
  BY PollParts, PollFields DEF TypeInv
<1>3. /\ b.type = "BEGIN" /\ b.session = Session.session
      /\ d.type = "DONE" /\ d.session = Session.session
  BY DEF BeginFrame, DoneFrame
<1>4. Batch = <<b>> \o poll.frames \o <<d>>
  BY DEF Batch
<1> HIDE DEF b, d
<1> DEFINE c == <<b>> \o poll.frames
<1>5. /\ c \in Seq(DataFrames \cup {b}) /\ Len(c) = Len(poll.frames) + 1 /\ c[1] = b
      /\ Len(poll.frames) \in Nat
      /\ \A j \in 2 .. Len(c) : c[j] = poll.frames[j - 1]
  BY <1>2
<1>6. Batch = c \o <<d>>
  BY <1>4
<1> HIDE DEF c
<1>7. Len(Batch) = Len(c) + 1 /\ Batch[Len(c) + 1] = d /\ \A j \in 1 .. Len(c) : Batch[j] = c[j]
  <2> DEFINE S == DataFrames \cup {b} \cup {d}
  <2>1. c \in Seq(S) /\ d \in S
    <3>1. \A j \in 1 .. Len(c) : c[j] \in S
      BY <1>5
    <3> QED
      BY <1>5, <3>1
  <2> HIDE DEF S
  <2>2. /\ Len(c \o <<d>>) = Len(c) + 1 /\ (c \o <<d>>)[Len(c) + 1] = d
        /\ \A j \in 1 .. Len(c) : (c \o <<d>>)[j] = c[j]
    BY <2>1
  <2> QED
    BY <1>6, <2>2
<1>8. Head(Batch) = b
  <2>1. Head(Batch) = Batch[1]
    BY <1>1, <1>5, <1>7
  <2> QED
    BY <1>5, <1>7, <2>1
<1>9. ASSUME NEW i \in 1 .. Len(Batch)
      PROVE  \/ Batch[i] \in FramesIn(poll.frames)
             \/ Batch[i].type \in {"BEGIN", "DONE"} /\ Batch[i].session = Session.session
  <2>1. CASE i = Len(c) + 1
    BY <1>3, <1>7, <2>1
  <2>2. CASE i = 1
    BY <1>3, <1>5, <1>7, <2>2
  <2>3. CASE i \in 2 .. Len(c)
    <3>1. i - 1 \in 1 .. Len(poll.frames) /\ Batch[i] = poll.frames[i - 1]
      BY <1>5, <1>7, <2>3
    <3> QED
      BY <3>1 DEF FramesIn
  <2> QED
    BY <1>5, <1>7, <2>1, <2>2, <2>3
<1>10. FramesIn(Batch) \subseteq Frames
  BY <1>1 DEF FramesIn
<1> QED
  BY <1>1, <1>8, <1>9, <1>10, SMTT(30) DEF FramesIn, b

(* The frames being built are meant for the session in view.               *)
LEMMA AnsweredSession ==
    ASSUME LinkInv, NEW q \in Replicas, link[q].phase = "answering"
    PROVE  View(q).session = Session.session
<1>1. CASE Session.reset
  BY <1>1 DEF View, ResetsOnReading, ResetTo, FreshReplica
<1>2. CASE ~Session.reset
  <2>1. View(q) = rep[q]
    BY <1>2 DEF View, ResetsOnReading
  <2>2. poll.hello = HelloOf(q)
    BY DEF LinkInv
  <2>3. poll.hello.session = Session.session /\ HelloOf(q).session = rep[q].session
    BY <1>2 DEF LinkInv, HelloOf, HelloFrame
  <2> QED
    BY <2>1, <2>2, <2>3
<1> QED
  BY <1>1, <1>2

(* The batch is sent, or dropped if nobody waits for it.                   *)
LEMMA AnswerRetains ==
    ASSUME TypeInv, BacklogInv, Answer
    PROVE  BacklogInv'
<1> USE DEF BacklogInv
<1>1. /\ Polling /\ poll.step = "finish" /\ poll' = NoPoll /\ ~Polling'
      /\ UNCHANGED <<gen, seq, log, sessions, nextSession, rep, stale>>
  BY DEF Answer, PollFinish, slotVars, Polling, NoPoll
<1>2. poll.loop = "build"
  BY <1>1, PollParts, PollFields DEF TypeInv, PollType
<1>3. \A q \in Replicas : /\ link[q].phase # "answering" => link'[q] = link[q]
                          /\ link[q].phase = "answering" =>
                                /\ link'[q].phase = "reading"
                                /\ link'[q].frames = Batch
  BY DEF Answer
<1>4. /\ Batch \in Seq(Frames) /\ FramesIn(Batch) \subseteq Frames
      /\ Head(Batch) = BeginFrame(Session.session, Session.reset)
      /\ \A f \in FramesIn(Batch) :
            \/ f \in FramesIn(poll.frames)
            \/ f.type \in {"BEGIN", "DONE"} /\ f.session = Session.session
  BY <1>1, BatchHas
<1>5. /\ Head(Batch).type = "BEGIN" /\ Head(Batch).reset = Session.reset
      /\ Head(Batch).session = Session.session
  BY <1>4 DEF BeginFrame
<1> HIDE DEF BacklogInv
<1>6. ASSUME NEW q \in Replicas
      PROVE  /\ View(q)' = View(q) /\ (Resetting(q)' <=> Resetting(q))
             /\ link'[q].phase # "answering"
             /\ link'[q].phase = "sent" => link'[q] = link[q]
             /\ \A f \in UnderWay(q)' :
                    \/ f \in UnderWay(q)
                    \/ /\ link[q].phase = "answering" /\ f \in FramesIn(Batch)
                       /\ f.type \in {"BEGIN", "DONE"} /\ f.session = Session.session
  <2>1. CASE link[q].phase = "answering"
    BY <1>1, <1>3, <1>4, <1>5, <2>1 DEF View, Resetting, ResetsOnReading, UnderWay
  <2>2. CASE link[q].phase # "answering"
    BY <1>1, <1>3, <2>2 DEF View, Resetting, ResetsOnReading, UnderWay
  <2> QED
    BY <2>1, <2>2
<1>7. AllHellos' \subseteq AllHellos
  BY <1>1 DEF AllHellos
<1>8. \A q \in Replicas : /\ HelloOf(q)' = HelloOf(q) /\ Current(q)' = Current(q)
                          /\ Master(q)' = Master(q) /\ Tracked(q)' = Tracked(q)
  BY <1>1, <1>6 DEF HelloOf, Current, Master, Tracked
<1>9. LogInv'
  BY <1>1 DEF BacklogInv, LogInv
<1>10. LinkInv'
  BY <1>1, <1>6, <1>8 DEF BacklogInv, LinkInv
<1>11. IssuedInv'
  BY <1>1, <1>6, <1>7 DEF BacklogInv, IssuedInv, Issued
<1>12. \A q \in Replicas : link[q].phase = "answering" => View(q).session = Session.session
  BY AnsweredSession DEF BacklogInv
<1>13. TokenInv'
  <2>1. \A q \in Replicas : \A f \in UnderWay(q)' : f.session = View(q)'.session
    BY <1>6, <1>12 DEF BacklogInv, TokenInv
  <2>2. \A p, q \in Replicas : p # q => Apart(p, q)'
    BY <1>1, <1>6 DEF BacklogInv, TokenInv, Apart
  <2>3. \A q \in Replicas : Resetting(q)' => ~Current(q)'
    BY <1>6, <1>8 DEF BacklogInv, TokenInv
  <2> QED
    BY <1>1, <2>1, <2>2, <2>3 DEF TokenInv
<1>14. ASSUME NEW q \in Replicas
       PROVE  Good(q)'
  <2>1. CASE Tracked(q)
    <3>1. IdOf[q] \in ReplicaIds /\ sessions[IdOf[q]] # NoReplica
      BY <2>1, TrackedIsReal DEF Tracked, Master
    <3>2. \A s \in Slots : PositionsKept(q, s)
      <4> SUFFICES ASSUME NEW s \in Slots PROVE PositionsKept(q, s)
        OBVIOUS
      <4>1. Acked(IdOf[q], s) \in Nat /\ Low(s) \in Int /\ seq[s] \in Nat
        BY <3>1, PositionTypes
      <4>2. Low(s)' = Low(s) /\ Acked(IdOf[q], s)' = Acked(IdOf[q], s)
        BY <1>1, <1>2 DEF Low, Acked, NoPoll
      <4> QED
        BY <1>1, <4>1, <4>2 DEF PositionsKept
    <3>3. LinkInv /\ Good(q)
      BY DEF BacklogInv, GoodInv
    <3>4. UnderWay(q)' \subseteq Frames
      BY <1>4, <1>6, <3>3, ViewType
    <3>5. \A f \in UnderWay(q)' : f \in UnderWay(q) \/ MayJoin(q, f)
      BY <1>6 DEF MayJoin, FrameFits
    <3>6. HellosKept(q)
      BY <1>6, <1>7 DEF HellosKept, HellosOf
    <3>7. View(q)' = View(q)
      BY <1>6
    <3> QED
      BY <2>1, <3>2, <3>3, <3>4, <3>5, <3>6, <3>7, GoodKept
  <2>2. CASE ~Tracked(q)
    BY <1>8, <2>2 DEF Good
  <2> QED
    BY <2>1, <2>2
<1> QED
  BY <1>9, <1>10, <1>11, <1>13, <1>14 DEF BacklogInv, GoodInv

-----------------------------------------------------------------------------
(* Poll begins, with a session nobody has or with the one of the HELLO.    *)
Renewed(hello) ==
    /\ Session'.reset /\ ~Issued(Session'.session) /\ Issued(Session.session)'
    /\ Session'.session # NoSession
    /\ \A s \in Slots : Acked(hello.id, s)' = 0

Continued(hello) ==
    /\ ~Session'.reset /\ sessions[hello.id] # NoReplica
    /\ Session'.session = hello.session /\ sessions[hello.id].session = hello.session
    /\ \A s \in Slots : Acked(hello.id, s)' = Acked(hello.id, s)

(* What the beginning of a Poll changes.                                   *)
LEMMA PollBegins ==
    ASSUME TypeInv, NEW hello \in Hellos, PollBegin(hello)
    PROVE  /\ ~Polling /\ Polling' /\ PollId' = hello.id /\ Session' = sessions'[hello.id]
           /\ poll'.hello = hello /\ poll'.frames = <<>>
           /\ UNCHANGED <<gen, seq, log>>
           /\ hello.id \in ReplicaIds
           /\ \A id \in ReplicaIds : id # hello.id =>
                /\ sessions'[id] = sessions[id]
                /\ \A s \in Slots : Acked(id, s)' = Acked(id, s)
           /\ \A x \in SessionIds \cup {NoSession} : Issued(x) => Issued(x)'
           /\ Renewed(hello) \/ Continued(hello)
<1> DEFINE id == hello.id
           known == sessions[id] # NoReplica
           old == IF known THEN sessions[id] ELSE FreshSession
           reset == old.session = NoSession \/ hello.session # old.session
           name == IF reset THEN SessionId(gen, id, nextSession) ELSE old.session
           x == [old EXCEPT !.reset = reset, !.session = name]
<1>1. id \in ReplicaIds /\ sessions \in [ReplicaIds -> {NoReplica} \cup SessionRecords(gen)]
  BY DEF Hellos, TypeInv, MasterType
<1>2. poll.loop = "none" /\ poll' = StartPoll(hello) /\ UNCHANGED <<gen, seq, log>>
  BY DEF PollBegin, MutexFree, slotVars
<1>3. sessions' = [sessions EXCEPT ![id] = x]
  BY DEF PollBegin
<1>4. old \in [session : SessionsOf(gen) \cup {NoSession},
               slots : [Slots -> ReplicaSlotState], nextSlot : Slots, reset : BOOLEAN]
  <2>1. CASE known
    BY <1>1, <2>1 DEF SessionRecords
  <2>2. CASE ~known
    <3>1. [acked |-> 0, sent |-> 0, needSnapshot |-> FALSE] \in ReplicaSlotState
      BY SlotAssumption DEF ReplicaSlotState
    <3>2. 0 \in Slots
      BY SlotAssumption DEF Slots
    <3> QED
      BY <2>2, <3>1, <3>2 DEF FreshSession
  <2> QED
    BY <2>1, <2>2
<1>5. ~known => old.session = NoSession
  BY DEF FreshSession
<1>6. known => old = sessions[id]
  OBVIOUS
<1> HIDE DEF old
<1>7. x.reset = reset /\ x.session = name /\ x.slots = old.slots
  BY <1>4
<1>8. nextSession' = (IF reset THEN nextSession + 1 ELSE nextSession)
  BY DEF PollBegin, old
<1>9. /\ poll'.hello = hello /\ poll'.frames = <<>> /\ poll'.loop = "hello" /\ poll'.i = 0
      /\ ~Polling /\ Polling' /\ PollId' = id
  BY <1>2 DEF StartPoll, Polling, PollId
<1>10. sessions'[id] = x /\ \A i \in ReplicaIds : i # id => sessions'[i] = sessions[i]
  <2> HIDE DEF x
  <2> QED
    BY <1>1, <1>3
<1>11. Session' = x
  BY <1>9, <1>10 DEF Session
<1>12. nextSession \in Nat /\ gen \in Nat /\ nextSession' \in Nat /\ nextSession <= nextSession'
  BY <1>8, BoundAssumption DEF TypeInv, MasterType
<1>13. ASSUME NEW y \in SessionIds \cup {NoSession}, Issued(y)
       PROVE  Issued(y)'
  <2>1. CASE y = NoSession
    BY <2>1 DEF Issued
  <2>2. CASE y \in SessionIds
    <3>1. y[3] \in Nat
      BY <2>2 DEF SessionIds
    <3> QED
      BY <1>2, <1>12, <1>13, <3>1 DEF Issued
  <2> QED
    BY <2>1, <2>2
<1>14. \A i \in ReplicaIds, s \in Slots : i # id => Acked(i, s)' = Acked(i, s)
  BY <1>2, <1>9, <1>10 DEF Acked
<1>15. ASSUME reset
       PROVE  Renewed(hello)
  <2>1. x.session = <<gen, id, nextSession>>
    BY <1>7, <1>15 DEF SessionId
  <2>2. x.session # NoSession
    <3> HIDE DEF x
    <3>1. x.session \in SessionIds
      BY <1>1, <1>12, <2>1 DEF SessionIds, TypeInv, MasterType
    <3> QED
      BY <3>1, SessionsAreReal
  <2> HIDE DEF x
  <2>3. x.session[1] = gen /\ x.session[3] = nextSession
    BY <2>1
  <2>4. ~Issued(x.session)
    BY <1>12, <2>2, <2>3 DEF Issued
  <2>5. Issued(Session.session)'
    <3>1. gen' = gen /\ nextSession' = nextSession + 1
      BY <1>2, <1>8, <1>15
    <3>2. Session'.session[1] = gen' /\ Session'.session[3] < nextSession'
      BY <1>11, <1>12, <2>3, <3>1
    <3> QED
      BY <1>11, <3>2 DEF Issued
  <2>6. \A s \in Slots : s >= poll'.i
    BY <1>9 DEF Slots
  <2>7. x.reset
    BY <1>7, <1>15
  <2> QED
    BY <1>9, <1>11, <2>2, <2>4, <2>5, <2>6, <2>7 DEF Renewed, Acked
<1>16. ASSUME ~reset
       PROVE  Continued(hello)
  <2>1. known /\ old = sessions[id] /\ hello.session = old.session
    BY <1>5, <1>6, <1>16
  <2>2. x.session = old.session /\ ~x.reset
    BY <1>7, <1>16
  <2>3. \A s \in Slots : x.slots[s].acked = sessions[id].slots[s].acked
    BY <1>7, <2>1
  <2> HIDE DEF x
  <2>4. \A s \in Slots : Acked(id, s)' = Acked(id, s)
    BY <1>2, <1>9, <1>10, <1>11, <2>2, <2>3 DEF Acked
  <2> QED
    BY <1>11, <2>1, <2>2, <2>4 DEF Continued
<1> HIDE DEF x, reset, known
<1> QED
  BY <1>1, <1>2, <1>9, <1>10, <1>11, <1>13, <1>14, <1>15, <1>16

(* What becomes of a connection when Poll begins.                          *)
TakesUp(q, hello) ==
    \/ link'[q] = link[q]
    \/ link[q].phase = "sent" /\ link'[q].phase = "answering" /\ hello = HelloOf(q)

(* A Poll for a HELLO that somebody waits for, or that is late.            *)
LEMMA PollBeginRetains ==
    ASSUME TypeInv, BacklogInv, NEW hello \in Hellos, PollBegin(hello), UNCHANGED rep,
           AllHellos' \subseteq AllHellos \cup {hello},
           \/ hello \in AllHellos
           \/ \E p \in Replicas : link'[p].phase = "answering" /\ hello = HelloOf(p),
           \A q \in Replicas : TakesUp(q, hello),
           \A p, q \in Replicas :
                link'[p].phase = "answering" /\ link'[q].phase = "answering" => p = q
    PROVE  BacklogInv'
<1>1. /\ ~Polling /\ Polling' /\ PollId' = hello.id /\ Session' = sessions'[hello.id]
      /\ poll'.hello = hello /\ poll'.frames = <<>>
      /\ UNCHANGED <<gen, seq, log>>
      /\ hello.id \in ReplicaIds
      /\ \A id \in ReplicaIds : id # hello.id =>
            /\ sessions'[id] = sessions[id]
            /\ \A s \in Slots : Acked(id, s)' = Acked(id, s)
      /\ \A x \in SessionIds \cup {NoSession} : Issued(x) => Issued(x)'
      /\ Renewed(hello) \/ Continued(hello)
  BY PollBegins
<1>2. LogInv /\ LinkInv /\ IssuedInv /\ TokenInv /\ GoodInv
  BY DEF BacklogInv
<1>3. ASSUME NEW q \in Replicas
      PROVE  /\ link[q].phase # "answering" /\ HelloOf(q)' = HelloOf(q)
             /\ link'[q].phase = "answering" \/ link'[q] = link[q]
             /\ link'[q].phase = "answering" => link[q].phase = "sent" /\ hello = HelloOf(q)
             /\ IdOf[q] \in ReplicaIds
             /\ HelloOf(q).id = IdOf[q] /\ HelloOf(q).session = rep[q].session
  BY <1>1, <1>2, ReplicaAssumption DEF LinkInv, TakesUp, HelloOf, HelloFrame
<1>4. ASSUME NEW q \in Replicas
      PROVE  /\ rep[q].session \in SessionIds \cup {NoSession} /\ Issued(rep[q].session)
             /\ View(q).session \in SessionIds \cup {NoSession} /\ Issued(View(q).session)
  BY <1>2, ViewType DEF IssuedInv, TypeInv, LinkType, ReplicaRecords
<1>5. \A h \in AllHellos' : Issued(h.session) /\ h.session \in SessionIds \cup {NoSession}
  <2>1. \A h \in AllHellos : Issued(h.session) /\ h \in Hellos
    BY <1>1, <1>2 DEF IssuedInv, AllHellos, TypeInv, LinkType
  <2>2. Issued(hello.session)
    BY <1>3, <1>4, <2>1
  <2> QED
    BY <2>1, <2>2 DEF Hellos
(* The view of a replica after the step.                                   *)
<1>6. ASSUME NEW q \in Replicas, link'[q].phase = "answering"
      PROVE  /\ UnderWay(q)' = {} /\ UnderWay(q) = {} /\ View(q) = rep[q]
             /\ View(q)' = IF Session'.reset THEN ResetTo(Session'.session) ELSE View(q)
             /\ Resetting(q)' <=> Session'.reset
  <2>1. link[q].phase = "sent"
    BY <1>3, <1>6
  <2>2. UnderWay(q)' = {}
    BY <1>1, <1>6 DEF UnderWay, FramesIn
  <2> QED
    BY <1>6, <2>1, <2>2 DEF UnderWay, View, Resetting, ResetsOnReading
<1>7. ASSUME NEW q \in Replicas, link'[q].phase # "answering"
      PROVE  /\ View(q)' = View(q) /\ UnderWay(q)' = UnderWay(q)
             /\ Resetting(q)' = Resetting(q)
  BY <1>3, <1>7 DEF UnderWay, View, Resetting, ResetsOnReading
<1>8. \A x : ResetTo(x).session = x
  BY DEF ResetTo, FreshReplica
<1>9. LogInv'
  BY <1>1, <1>2 DEF LogInv
<1>10. LinkInv'
  BY <1>1, <1>2, <1>3 DEF LinkInv, Continued, Renewed
<1>11. IssuedInv'
  <2>1. ASSUME NEW q \in Replicas
        PROVE  Issued(rep[q].session)' /\ Issued(View(q).session)'
    <3>1. Issued(rep[q].session)'
      BY <1>1, <1>4
    <3>2. CASE link'[q].phase = "answering" /\ Session'.reset
      <4>1. Issued(Session.session)'
        BY <1>1, <3>2 DEF Renewed, Continued
      <4>2. View(q)'.session = Session'.session
        BY <1>6, <1>8, <3>2
      <4> QED
        BY <3>1, <4>1, <4>2 DEF Issued
    <3>3. CASE ~(link'[q].phase = "answering" /\ Session'.reset)
      <4>1. View(q)' = View(q)
        BY <1>6, <1>7, <3>3
      <4>2. \A x \in SessionIds \cup {NoSession} : x = View(q)'.session => Issued(x)'
        BY <1>1, <1>4, <4>1
      <4> QED
        BY <1>4, <3>1, <4>1, <4>2 DEF Issued
    <3> QED
      BY <3>2, <3>3
  <2>2. \A h \in AllHellos' : Issued(h.session)'
    BY <1>1, <1>5
  <2>3. ASSUME NEW id \in ReplicaIds, sessions'[id] # NoReplica
        PROVE  Issued(sessions[id].session)'
    <3>1. ASSUME sessions[id] # NoReplica
          PROVE  /\ sessions[id].session \in SessionIds /\ Issued(sessions[id].session)
      BY <1>2, <3>1 DEF IssuedInv, TypeInv, MasterType, SessionRecords, SessionsOf, SessionIds
    <3>2. CASE sessions'[id].session = sessions[id].session /\ sessions[id] # NoReplica
      <4>1. \A x \in SessionIds \cup {NoSession} : x = sessions'[id].session => Issued(x)'
        BY <1>1, <3>1, <3>2
      <4> QED
        BY <3>1, <3>2, <4>1 DEF Issued
    <3>3. CASE id = hello.id /\ Renewed(hello)
      BY <1>1, <3>3 DEF Renewed, Issued
    <3> QED
      BY <1>1, <2>3, <3>2, <3>3 DEF Continued
  <2> QED
    BY <2>1, <2>2, <2>3 DEF IssuedInv
<1>12. TokenInv'
  <2>1. \A q \in Replicas : \A f \in UnderWay(q)' : f.session = View(q)'.session
    BY <1>2, <1>6, <1>7 DEF TokenInv
  <2>2. ASSUME NEW p \in Replicas, NEW q \in Replicas, p # q
        PROVE  Apart(p, q)'
    <3>1. Apart(p, q) /\ Apart(q, p)
      BY <1>2, <2>2 DEF TokenInv
    <3>2. /\ View(p)' = View(p) \/ (View(p)'.session = Session'.session /\ Renewed(hello))
          /\ View(q)' = View(q) \/ (View(q)'.session = Session'.session /\ Renewed(hello))
          /\ View(p)' = View(p) \/ View(q)' = View(q)
      BY <1>1, <1>6, <1>7, <1>8, <2>2 DEF Continued
    <3>3. Renewed(hello) => /\ Session'.session # rep[p].session /\ Session'.session # View(p).session
                            /\ Session'.session # rep[q].session /\ Session'.session # View(q).session
      BY <1>4 DEF Renewed
    <3> QED
      BY <3>1, <3>2, <3>3 DEF Apart
  <2>3. ASSUME NEW q \in Replicas, Resetting(q)'
        PROVE  ~Current(q)'
    <3>1. CASE Renewed(hello) /\ IdOf[q] = hello.id
      BY <1>1, <1>4, <3>1 DEF Renewed, Current
    <3>2. CASE ~(Renewed(hello) /\ IdOf[q] = hello.id)
      <4>1. Current(q)' => Current(q)
        BY <1>1, <1>3, <3>2 DEF Current, Continued
      <4>2. link'[q].phase # "answering"
        BY <1>1, <1>3, <1>6, <2>3, <3>2 DEF Continued
      <4> QED
        BY <1>2, <1>7, <2>3, <4>1, <4>2 DEF TokenInv
    <3> QED
      BY <3>1, <3>2
  <2>4. \A f \in FramesIn(poll'.frames) : f.session = Session'.session
    BY <1>1 DEF FramesIn
  <2> QED
    BY <2>1, <2>2, <2>3, <2>4 DEF TokenInv
<1>13. ASSUME NEW q \in Replicas, Renewed(hello), link'[q].phase = "answering"
       PROVE  Good(q)'
  <2>1. /\ UnderWay(q)' = {} /\ View(q)' = ResetTo(Session'.session) /\ IdOf[q] = hello.id
    BY <1>3, <1>6, <1>13 DEF Renewed
  <2>2. HellosOf(q)' = {}
    BY <1>5, <1>8, <1>13, <2>1 DEF HellosOf, Renewed
  <2>3. ASSUME NEW s \in Slots
        PROVE  GoodSlot(View(q)'.slots[s], UnderWay(q)', HellosOf(q)', s,
                        Acked(IdOf[q], s)', Low(s)', seq'[s])
    <3>1. View(q)'.slots[s].applied = 0 /\ Acked(IdOf[q], s)' = 0
      <4>1. \A x : ResetTo(x).slots[s].applied = 0
        BY DEF ResetTo, FreshReplica, FreshSlot
      <4> QED
        BY <1>13, <2>1, <4>1 DEF Renewed
    <3>2. seq'[s] \in Nat
      BY <1>1, PositionTypes
    <3> QED
      BY <2>1, <2>2, <3>1, <3>2 DEF GoodSlot
  <2> QED
    BY <2>3 DEF Good
<1>14. ASSUME NEW q \in Replicas, ~(Renewed(hello) /\ link'[q].phase = "answering")
       PROVE  Good(q)'
  <2>1. View(q)' = View(q) /\ UnderWay(q)' = UnderWay(q)
    BY <1>1, <1>6, <1>7, <1>14 DEF Continued
  <2>2. SUFFICES ASSUME Tracked(q)'
                 PROVE  Good(q)'
    BY DEF Good
  <2>3. ~(Renewed(hello) /\ IdOf[q] = hello.id)
    BY <1>1, <1>4, <2>1, <2>2 DEF Renewed, Tracked, Master
  <2>4. Tracked(q) /\ \A s \in Slots : Acked(IdOf[q], s)' = Acked(IdOf[q], s)
    BY <1>1, <1>3, <2>1, <2>2, <2>3 DEF Tracked, Master, Continued
  <2>5. View(q).session # NoSession /\ IdOf[q] \in ReplicaIds /\ sessions[IdOf[q]] # NoReplica
    BY <2>4, TrackedIsReal DEF Tracked, Master
  <2>6. HellosKept(q)
    <3>1. CASE link'[q].phase = "answering"
      <4>1. /\ View(q) = rep[q] /\ UnderWay(q) = {} /\ UnderWay(q)' = {} /\ hello = HelloOf(q)
        BY <1>3, <1>6, <3>1
      <4> QED
        BY <2>1, <4>1 DEF HellosKept, HellosOf
    <3>2. CASE link'[q].phase # "answering"
      <4>1. hello \in AllHellos \/ hello.session # View(q).session
        BY <1>2, <1>3, <2>5, <3>2 DEF TokenInv, Apart
      <4> QED
        BY <2>1, <4>1 DEF HellosKept, HellosOf
    <3> QED
      BY <3>1, <3>2
  <2>7. \A s \in Slots : PositionsKept(q, s)
    <3> SUFFICES ASSUME NEW s \in Slots PROVE PositionsKept(q, s)
      OBVIOUS
    <3>1. Acked(IdOf[q], s) \in Nat /\ Low(s) \in Int /\ seq[s] \in Nat
      BY <2>5, PositionTypes
    <3>2. Low(s)' = Low(s)
      BY <1>1 DEF Low
    <3> QED
      BY <1>1, <2>4, <3>1, <3>2 DEF PositionsKept
  <2>8. Good(q) /\ LinkInv /\ UnderWay(q)' \subseteq Frames
    BY <1>2, <2>1, ViewType DEF GoodInv
  <2> QED
    BY <2>1, <2>4, <2>6, <2>7, <2>8, GoodKept
<1> QED
  BY <1>9, <1>10, <1>11, <1>12, <1>13, <1>14 DEF BacklogInv, GoodInv

(* Both ways for a Poll to begin.                                          *)
LEMMA ServeRetains ==
    ASSUME TypeInv, BacklogInv, ServeStaleHello \/ \E r \in Replicas : ServeHello(r)
    PROVE  BacklogInv'
<1>1. ASSUME NEW r \in Replicas, ServeHello(r)
      PROVE  BacklogInv'
  <2> DEFINE hello == link[r].hello
  <2>1. /\ link \in [Replicas -> Links] /\ link[r].phase = "sent" /\ PollBegin(hello)
        /\ UNCHANGED <<rep, stale>>
        /\ link'[r].phase = "answering" /\ \A q \in Replicas : q # r => link'[q] = link[q]
    BY <1>1 DEF ServeHello, TypeInv, LinkType
  <2>2. hello \in Hellos /\ hello = HelloOf(r)
    BY <2>1, LinkParts DEF TypeInv, LinkType, BacklogInv, LinkInv
  <2> HIDE DEF hello
  <2>3. ~Polling /\ poll'.hello = hello
    BY <2>1, <2>2, PollBegins
  <2>4. AllHellos' \subseteq AllHellos \cup {hello}
    BY <2>1, <2>3 DEF AllHellos
  <2>5. \A q \in Replicas : TakesUp(q, hello)
    BY <2>1, <2>2 DEF TakesUp
  <2>6. \A q \in Replicas : link'[q].phase = "answering" => q = r
    BY <2>1, <2>3 DEF BacklogInv, LinkInv
  <2> QED
    BY <2>1, <2>2, <2>4, <2>5, <2>6, PollBeginRetains
<1>2. ASSUME ServeStaleHello
      PROVE  BacklogInv'
  <2>1. PICK hello \in BagToSet(stale) : /\ PollBegin(hello)
                                         /\ stale' = stale (-) SetToBag({hello})
    BY <1>2 DEF ServeStaleHello
  <2>2. hello \in Hellos /\ UNCHANGED <<rep, link>>
    BY <1>2, <2>1 DEF ServeStaleHello, TypeInv, LinkType
  <2>3. ~Polling /\ poll'.hello = hello
    BY <2>1, <2>2, PollBegins
  <2>4. BagToSet(stale') \subseteq BagToSet(stale)
    BY <2>1, BagType
  <2>5. AllHellos' \subseteq AllHellos \cup {hello} /\ hello \in AllHellos
    BY <2>1, <2>3, <2>4 DEF AllHellos
  <2>6. \A q \in Replicas : TakesUp(q, hello)
    BY <2>2 DEF TakesUp
  <2>7. \A q \in Replicas : link'[q].phase # "answering"
    BY <2>2, <2>3 DEF BacklogInv, LinkInv
  <2> QED
    BY <2>1, <2>2, <2>5, <2>6, <2>7, PollBeginRetains
<1> QED
  BY <1>1, <1>2

-----------------------------------------------------------------------------
(* A step of Poll: it may add frames of the session with an image of the   *)
(* slot as it is or a record of its log, and acknowledge what the HELLO    *)
(* reports, or nothing.                                                    *)
NewFrame(f) ==
    /\ f \in Frames /\ f.session = Session.session
    /\ f.type = "SNAPSHOT" => f.base = seq[f.slot]
    /\ f.type = "LOG" => Low(f.slot) <= f.record.seq /\ f.record.seq <= seq[f.slot]

AckMoves(s) ==
    \/ Acked(PollId, s)' = Acked(PollId, s)
    \/ Acked(PollId, s)' = 0
    \/ /\ ~Session.reset /\ poll.hello.pos[s] # NoPosition
       /\ Acked(PollId, s)' = poll.hello.pos[s]

PollGoesOn ==
    /\ Polling' /\ poll'.hello = poll.hello
    /\ Session'.session = Session.session /\ Session'.reset = Session.reset
    /\ \A id \in ReplicaIds : id # PollId => sessions'[id] = sessions[id]
    /\ \A f \in FramesIn(poll'.frames) : f \in FramesIn(poll.frames) \/ NewFrame(f)
    /\ \A s \in Slots : AckMoves(s)

(* A step of Poll changes the session of its id only.                      *)
LEMMA SessionGoesOn ==
    ASSUME TypeInv, Polling, NEW x \in SessionRecords(gen), sessions' = [sessions EXCEPT ![PollId] = x],
           x.session = Session.session, x.reset = Session.reset, poll'.hello = poll.hello
    PROVE  /\ Session' = x /\ PollId' = PollId /\ sessions'[PollId] = x
           /\ Session'.session = Session.session /\ Session'.reset = Session.reset
           /\ \A id \in ReplicaIds : id # PollId => sessions'[id] = sessions[id]
<1>1. PollId \in ReplicaIds /\ PollId' = PollId
  BY PollParts DEF PollId, TypeInv
<1>2. sessions \in [ReplicaIds -> {NoReplica} \cup SessionRecords(gen)]
  BY DEF TypeInv, MasterType
<1>3. sessions'[PollId] = x /\ \A id \in ReplicaIds : id # PollId => sessions'[id] = sessions[id]
  BY <1>1, <1>2
<1> QED
  BY <1>1, <1>3 DEF Session

(* It only reads.                                                          *)
LEMMA PollOnlyReads ==
    ASSUME TypeInv, Polling, UNCHANGED sessions, poll'.hello = poll.hello, poll'.frames = poll.frames,
           poll'.loop = poll.loop, poll'.i = poll.i
    PROVE  PollGoesOn
<1>1. PollId' = PollId /\ Session' = Session /\ Polling'
  BY DEF PollId, Session, Polling
<1>2. \A s \in Slots : Acked(PollId, s)' = Acked(PollId, s)
  BY <1>1 DEF Acked
<1> QED
  BY <1>1, <1>2 DEF PollGoesOn, AckMoves

(* It ends a round of the HELLO loop.                                      *)
LEMMA HelloGoesOn ==
    ASSUME TypeInv, RoomInv, Polling, poll.loop = "hello",
           NEW position \in 0 .. MaxSeq, NEW need \in BOOLEAN,
           position = 0 \/ position = HelloPosition, SetHelloSlot(position, need)
    PROVE  PollGoesOn
<1> DEFINE st == [acked |-> position, sent |-> position, needSnapshot |-> need]
           x == [Session EXCEPT !.slots[PollSlot] = st]
<1>1. /\ poll \in Polls /\ PollId \in ReplicaIds /\ PollSlot \in Slots
      /\ Session \in SessionRecords(gen)
  BY PollParts DEF TypeInv
<1>2. st \in ReplicaSlotState /\ st.acked = position
  BY DEF ReplicaSlotState
<1>3. sessions' = [sessions EXCEPT ![PollId] = x] /\ poll' = NextPollSlot(poll)
  BY DEF SetHelloSlot, Session
<1> HIDE DEF st
<1>4. /\ x \in SessionRecords(gen) /\ x.session = Session.session /\ x.reset = Session.reset
      /\ x.slots[PollSlot] = st
      /\ \A s \in Slots : s # PollSlot => x.slots[s] = Session.slots[s]
  <2>1. x \in SessionRecords(gen)
    BY <1>1, <1>2 DEF SessionRecords
  <2> QED
    BY <1>1, <2>1 DEF SessionRecords
<1>5. /\ poll' \in Polls /\ poll'.hello = poll.hello /\ poll'.frames = poll.frames
  BY <1>1, <1>3, NextPollSlotType DEF SessionRecords
<1> HIDE DEF x
<1>6. /\ Session' = x /\ PollId' = PollId /\ sessions'[PollId] = x
      /\ Session'.session = Session.session /\ Session'.reset = Session.reset
      /\ \A id \in ReplicaIds : id # PollId => sessions'[id] = sessions[id]
  BY <1>3, <1>4, <1>5, SessionGoesOn
<1>7. poll.i \in Slots /\ poll.i \in Nat /\ PollSlot = poll.i /\ SlotCount \in Nat
  BY <1>1, PollFields, SlotAssumption DEF PollSlot
<1>8. \/ poll'.loop = "hello" /\ poll'.i = poll.i + 1
      \/ poll'.loop # "hello" /\ ~(poll.i + 1 < SlotCount)
  <2>1. poll \in [loop : {"hello", "build"},
           step : {"published", "min", "max", "empty", "copy", "snapshot", "finish"},
           i : Slots, start : Slots, hello : Hellos, published : 0 .. MaxSeq, min : 0 .. MaxSeq,
           frames : Seq(DataFrames), bytes : Nat, full : BOOLEAN, completed : Completions]
    BY <1>1 DEF Polls
  <2>2. CASE poll.i + 1 < SlotCount
    BY <1>3, <2>1, <2>2 DEF NextPollSlot
  <2>3. CASE ~(poll.i + 1 < SlotCount)
    BY <1>3, <2>1, <2>3 DEF NextPollSlot
  <2> QED
    BY <2>2, <2>3
<1>9. ASSUME NEW s \in Slots
      PROVE  AckMoves(s)
  <2>1. s \in Nat /\ s < SlotCount
    BY SlotAssumption DEF Slots
  <2>2. CASE s # poll.i /\ Session.reset
    <3>1. (poll'.loop = "hello" /\ s >= poll'.i) <=> s >= poll.i
      BY <1>7, <1>8, <2>1, <2>2
    <3>2. Acked(PollId, s)' = Acked(PollId, s)
      BY <1>4, <1>6, <1>7, <2>2, <3>1 DEF Acked, Session
    <3> QED
      BY <3>2 DEF AckMoves
  <2>3. CASE s # poll.i /\ ~Session.reset
    <3>1. Acked(PollId, s)' = Acked(PollId, s)
      BY <1>4, <1>6, <1>7, <2>3 DEF Acked, Session
    <3> QED
      BY <3>1 DEF AckMoves
  <2>4. CASE s = poll.i
    <3>1. Acked(PollId, s)' = position
      <4>1. ~(poll'.loop = "hello" /\ s >= poll'.i)
        BY <1>7, <1>8, <2>4
      <4> QED
        BY <1>2, <1>4, <1>6, <1>7, <2>4, <4>1 DEF Acked
    <3>2. CASE position = 0
      BY <3>1, <3>2 DEF AckMoves
    <3>3. CASE position # 0
      <4>1. position = poll.hello.pos[s] /\ ~Session.reset
        BY <1>7, <2>4, <3>3 DEF HelloPosition
      <4>2. position # NoPosition
        BY SlotAssumption DEF NoPosition
      <4> QED
        BY <3>1, <4>1, <4>2 DEF AckMoves
    <3> QED
      BY <3>2, <3>3
  <2> QED
    BY <2>2, <2>3, <2>4
<1>10. Polling'
  BY <1>5 DEF Polls, Polling
<1> QED
  BY <1>5, <1>6, <1>9, <1>10 DEF PollGoesOn

(* It ends a round of the batch loop.                                      *)
LEMMA BuildGoesOn ==
    ASSUME TypeInv, Polling, poll.loop = "build",
           NEW p \in Polls, p.hello = poll.hello, p.loop = "build",
           NEW st \in ReplicaSlotState, st.acked = SlotState.acked,
           NEW target \in 0 .. MaxSeq, NEW resume \in Slots,
           EndRound(p, st, target, resume),
           \A f \in FramesIn(p.frames) : f \in FramesIn(poll.frames) \/ NewFrame(f)
    PROVE  PollGoesOn
<1> DEFINE filled == ~p.full /\ AtLimit(p)
           q == [p EXCEPT !.full = @ \/ filled,
                          !.completed = IF st.needSnapshot THEN @
                                        ELSE AddCompleted(@, PollSlot, target)]
           next == IF filled THEN SlotAfter(PollSlot) ELSE resume
           x == [Session EXCEPT !.slots[PollSlot] = st, !.nextSlot = next]
<1>1. /\ poll \in Polls /\ PollId \in ReplicaIds /\ PollSlot \in Slots
      /\ Session \in SessionRecords(gen)
  BY PollParts DEF TypeInv
<1>2. next \in Slots
  BY <1>1, SlotAssumption DEF SlotAfter, Slots
<1>3. sessions' = [sessions EXCEPT ![PollId] = x]
  BY <1>1 DEF EndRound, Session, TypeInv, MasterType
<1>4. q \in Polls /\ q.hello = poll.hello /\ q.loop = "build" /\ q.frames = p.frames
  <2>1. p.completed \in Completions /\ AddCompleted(p.completed, PollSlot, target) \in Completions
    BY <1>1, PollFields, CompletionType
  <2>2. (p.full \/ filled) \in BOOLEAN
    OBVIOUS
  <2> HIDE DEF filled
  <2> QED
    BY <2>1, <2>2 DEF Polls
<1>5. poll' = NextPollSlot(q)
  BY DEF EndRound
<1> HIDE DEF next, q
<1>6. /\ x \in SessionRecords(gen) /\ x.session = Session.session /\ x.reset = Session.reset
      /\ x.slots[PollSlot] = st
      /\ \A s \in Slots : s # PollSlot => x.slots[s] = Session.slots[s]
  <2>1. x \in SessionRecords(gen)
    BY <1>1, <1>2 DEF SessionRecords
  <2> QED
    BY <1>1, <2>1 DEF SessionRecords
<1>7. /\ poll' \in Polls /\ poll'.hello = poll.hello /\ poll'.frames = p.frames
      /\ poll'.loop = "build"
  BY <1>1, <1>4, <1>5, NextPollSlotType DEF SessionRecords
<1> HIDE DEF x
<1>8. /\ Session' = x /\ PollId' = PollId /\ sessions'[PollId] = x
      /\ Session'.session = Session.session /\ Session'.reset = Session.reset
      /\ \A id \in ReplicaIds : id # PollId => sessions'[id] = sessions[id]
  BY <1>3, <1>6, <1>7, SessionGoesOn
<1>9. \A s \in Slots : x.slots[s].acked = Session.slots[s].acked
  BY <1>6 DEF SlotState
<1>10. \A s \in Slots : Acked(PollId, s)' = Acked(PollId, s)
  BY <1>7, <1>8, <1>9 DEF Acked, Session
<1> QED
  BY <1>7, <1>8, <1>10 DEF PollGoesOn, AckMoves, Polling

(* It decides between log and snapshot.                                    *)
LEMMA BacklogDecides ==
    ASSUME TypeInv, RoomInv, Polling, poll.step \in {"max", "empty"}, NEW found \in BOOLEAN,
           UseBacklog(found)
    PROVE  PollGoesOn
<1>1. CASE poll.loop = "hello"
  <2>1. HelloPosition \in 0 .. MaxSeq
    BY <1>1, PollParts, SlotAssumption DEF TypeInv, PollType, Positions, NoPosition
  <2> QED
    BY <1>1, <2>1, HelloGoesOn DEF UseBacklog
<1>2. CASE poll.loop # "hello"
  <2>1. poll \in Polls
    BY PollParts DEF TypeInv
  <2>2. /\ poll'.hello = poll.hello /\ poll'.frames = poll.frames
        /\ poll'.loop = poll.loop /\ poll'.i = poll.i /\ UNCHANGED sessions
    BY <1>2, <2>1 DEF UseBacklog, Polls
  <2> QED
    BY <2>2, PollOnlyReads
<1> QED
  BY <1>1, <1>2

(* A record copied from the log is still in it.                            *)
LEMMA CopiedIsNew ==
    ASSUME TypeInv, LogInv, Polling, NEW f, Copied(f)
    PROVE  NewFrame(f)
<1>1. PICK limit \in Nat, left \in Int :
          CopiedAt(f, CopyAfter(log[PollSlot], SlotState.sent, limit, left))
  BY DEF Copied
<1> DEFINE logs == CopyAfter(log[PollSlot], SlotState.sent, limit, left)
<1>2. PICK i \in 1 .. Len(logs) : f = LogFrame(Session.session, PollSlot, logs[i])
  BY <1>1 DEF CopiedAt
<1>3. /\ PollSlot \in Slots /\ SlotState.sent \in Nat /\ log[PollSlot] \in Seq(Records(gen))
      /\ Session.session \in SessionsOf(gen) /\ MasterType
  <2>1. /\ PollSlot \in Slots /\ SlotState \in ReplicaSlotState /\ Session \in SessionRecords(gen)
        /\ MasterType
    BY PollParts DEF TypeInv
  <2> QED
    BY <2>1, SlotAssumption, SMTT(30) DEF MasterType, ReplicaSlotState, SessionRecords
<1>4. Gapless(log[PollSlot], seq[PollSlot]) /\ Len(log[PollSlot]) <= seq[PollSlot]
  BY <1>3 DEF LogInv
<1>5. seq[PollSlot] \in Nat
  BY <1>3, PositionTypes
<1>6. Low(PollSlot) <= logs[i].seq /\ logs[i].seq <= seq[PollSlot]
  <2>1. i \in 1 .. Len(CopyAfter(log[PollSlot], SlotState.sent, limit, left))
    BY <1>2
  <2> QED
    BY <1>3, <1>4, <1>5, <2>1, CopyIsOfLog DEF Low
<1>7. logs \in Seq(Records(gen))
  BY <1>3, CopyAfterType
<1> HIDE DEF logs
<1>8. logs[i] \in Records(gen)
  BY <1>2, <1>7
<1>9. f \in DataFrames
  BY <1>2, <1>3, <1>8, LogFrameType
<1>10. /\ f.type = "LOG" /\ f.session = Session.session /\ f.slot = PollSlot
       /\ f.record = logs[i]
  BY <1>2 DEF LogFrame
<1> QED
  BY <1>6, <1>9, <1>10 DEF NewFrame, Frames

(* Every step of Poll is one of these.                                     *)
LEMMA PollStepIs ==
    ASSUME TypeInv, RoomInv, LogInv, PollStep
    PROVE  /\ PollGoesOn /\ Polling
           /\ UNCHANGED <<gen, seq, log, nextSession, rep, link, stale>>
<1>1. Polling /\ UNCHANGED <<gen, seq, log, nextSession, rep, link, stale>>
  <2>1. PollReadPublished => Polling /\ UNCHANGED <<slotVars, nextSession>>
    BY DEF PollReadPublished
  <2>2. PollReadMin => Polling /\ UNCHANGED <<slotVars, nextSession>>
    BY DEF PollReadMin
  <2>3. PollReadMax => Polling /\ UNCHANGED <<slotVars, nextSession>>
    BY DEF PollReadMax
  <2>4. PollEmptyLog => Polling /\ UNCHANGED <<slotVars, nextSession>>
    BY DEF PollEmptyLog
  <2>5. PollSendSnapshot => Polling /\ UNCHANGED <<slotVars, nextSession>>
    BY DEF PollSendSnapshot
  <2>6. PollSendLogs => Polling /\ UNCHANGED <<slotVars, nextSession>>
    BY Zenon DEF PollSendLogs
  <2> QED
    BY <2>1, <2>2, <2>3, <2>4, <2>5, <2>6 DEF PollStep, slotVars
<1>2. /\ poll \in Polls /\ PollSlot \in Slots /\ SlotState \in ReplicaSlotState
      /\ Session \in SessionRecords(gen) /\ poll.loop \in {"hello", "build"}
      /\ Session.session \in SessionsOf(gen) /\ Session.nextSlot \in Slots
      /\ seq[PollSlot] \in 0 .. MaxSeq /\ poll.published \in 0 .. MaxSeq
  BY <1>1, PollParts, PollFields DEF TypeInv, MasterType, SessionRecords
<1>3. ASSUME PollReadPublished
      PROVE  PollGoesOn
  <2> DEFINE p == [poll EXCEPT !.published = seq[PollSlot]]
  <2>1. /\ p \in Polls /\ p.hello = poll.hello /\ p.loop = poll.loop /\ p.i = poll.i
        /\ p.frames = poll.frames
    BY <1>2 DEF Polls
  <2>2. CASE poll.loop = "hello" /\ SetHelloSlot(0, TRUE)
    <3>1. 0 \in 0 .. MaxSeq /\ TRUE \in BOOLEAN
      BY SlotAssumption
    <3> QED
      BY <1>1, <2>2, <3>1, HelloGoesOn
  <2>3. CASE poll' = [p EXCEPT !.step = "min"] /\ UNCHANGED sessions
    <3> HIDE DEF p
    <3>1. /\ poll'.hello = poll.hello /\ poll'.loop = poll.loop /\ poll'.i = poll.i
          /\ poll'.frames = poll.frames
      BY <2>1, <2>3 DEF Polls
    <3> QED
      BY <1>1, <2>3, <3>1, PollOnlyReads
  <2>4. CASE poll.loop = "build" /\ EndRound(p, SlotState, seq[PollSlot], Session.nextSlot)
    <3> HIDE DEF p
    <3> QED
      BY <1>1, <1>2, <2>1, <2>4, BuildGoesOn
  <2>5. CASE /\ poll' = [p EXCEPT !.step = IF SlotState.needSnapshot THEN "snapshot" ELSE "min"]
             /\ UNCHANGED sessions
    <3> HIDE DEF p
    <3>1. /\ poll'.hello = poll.hello /\ poll'.loop = poll.loop /\ poll'.i = poll.i
          /\ poll'.frames = poll.frames
      BY <2>1, <2>5 DEF Polls
    <3> QED
      BY <1>1, <2>5, <3>1, PollOnlyReads
  <2> QED
    BY <1>3, <2>2, <2>3, <2>4, <2>5 DEF PollReadPublished
<1>4. ASSUME PollReadMin
      PROVE  PollGoesOn
  <2>1. /\ poll'.hello = poll.hello /\ poll'.loop = poll.loop /\ poll'.i = poll.i
        /\ poll'.frames = poll.frames /\ UNCHANGED sessions
    BY <1>2, <1>4 DEF PollReadMin, Polls
  <2> QED
    BY <1>1, <2>1, PollOnlyReads
<1>5. ASSUME PollReadMax
      PROVE  PollGoesOn
  <2>1. CASE poll' = [poll EXCEPT !.step = "empty"] /\ UNCHANGED sessions
    <3>1. /\ poll'.hello = poll.hello /\ poll'.loop = poll.loop /\ poll'.i = poll.i
          /\ poll'.frames = poll.frames
      BY <1>2, <2>1 DEF Polls
    <3> QED
      BY <1>1, <2>1, <3>1, PollOnlyReads
  <2>2. ASSUME UseBacklog(poll.min <= Wanted /\ Wanted <= MaxSeqOf(log[PollSlot]) + 1)
        PROVE  PollGoesOn
    <3>1. (poll.min <= Wanted /\ Wanted <= MaxSeqOf(log[PollSlot]) + 1) \in BOOLEAN
      OBVIOUS
    <3>2. poll.step = "max"
      BY <1>5 DEF PollReadMax
    <3> QED
      BY <1>1, <2>2, <3>1, <3>2, BacklogDecides
  <2> QED
    BY <1>5, <2>1, <2>2 DEF PollReadMax
<1>6. ASSUME PollEmptyLog
      PROVE  PollGoesOn
  <2>1. (Wanted > seq[PollSlot]) \in BOOLEAN
    OBVIOUS
  <2> QED
    BY <1>1, <1>6, <2>1, BacklogDecides DEF PollEmptyLog
<1>7. ASSUME PollSendSnapshot
      PROVE  PollGoesOn
  <2> DEFINE frame == BuildSnapshotFrame(Session.session, PollSlot)
             size == SnapshotBytes(PollSlot, Len(frame.content))
  <2>1. poll.loop = "build"
    BY <1>1, <1>2, <1>7 DEF PollSendSnapshot, TypeInv, PollType
  <2>2. /\ frame \in DataFrames /\ frame.type = "SNAPSHOT" /\ frame.base = seq[PollSlot]
        /\ size \in Nat
    BY <1>2, SnapshotFrameType DEF TypeInv
  <2>3. frame.session = Session.session /\ frame.slot = PollSlot
    BY DEF BuildSnapshotFrame, SnapshotFrame
  <2> HIDE DEF frame
  <2>4. NewFrame(frame)
    BY <2>2, <2>3 DEF NewFrame, Frames
  <2> HIDE DEF size
  <2>5. CASE EndRound([poll EXCEPT !.frames = Append(@, frame), !.bytes = @ + size],
                      [SlotState EXCEPT !.sent = frame.base, !.needSnapshot = FALSE],
                      frame.base, Session.nextSlot)
    <3> DEFINE p == [poll EXCEPT !.frames = Append(@, frame), !.bytes = @ + size]
               st == [SlotState EXCEPT !.sent = frame.base, !.needSnapshot = FALSE]
    <3>1. /\ poll.frames \in Seq(DataFrames) /\ Append(poll.frames, frame) \in Seq(DataFrames)
          /\ poll.bytes + size \in Nat
      BY <1>2, <2>2, PollFields
    <3>2. /\ p \in Polls /\ p.hello = poll.hello /\ p.loop = "build"
          /\ p.frames = Append(poll.frames, frame)
      BY <1>2, <2>1, <3>1 DEF Polls
    <3>3. st \in ReplicaSlotState /\ st.acked = SlotState.acked
      BY <1>2, <2>2 DEF ReplicaSlotState
    <3>4. \A f \in FramesIn(Append(poll.frames, frame)) : f \in FramesIn(poll.frames) \/ f = frame
      <4>1. /\ Len(Append(poll.frames, frame)) = Len(poll.frames) + 1 /\ Len(poll.frames) \in Nat
            /\ \A i \in 1 .. Len(poll.frames) : Append(poll.frames, frame)[i] = poll.frames[i]
            /\ Append(poll.frames, frame)[Len(poll.frames) + 1] = frame
        BY <2>2, <3>1
      <4>2. ASSUME NEW i \in 1 .. Len(poll.frames) + 1
            PROVE  i \in 1 .. Len(poll.frames) \/ i = Len(poll.frames) + 1
        BY <4>1
      <4> QED
        BY <4>1, <4>2 DEF FramesIn
    <3> HIDE DEF p, st
    <3>5. frame.base \in 0 .. MaxSeq
      BY <1>2, <2>2
    <3>6. EndRound(p, st, frame.base, Session.nextSlot)
      BY <2>5 DEF p, st
    <3> QED
      BY <1>1, <1>2, <2>1, <2>4, <3>2, <3>3, <3>4, <3>5, <3>6, BuildGoesOn
  <2>6. CASE EndRound([poll EXCEPT !.full = TRUE], SlotState, poll.published, PollSlot)
    <3> DEFINE p == [poll EXCEPT !.full = TRUE]
    <3>1. p \in Polls /\ p.hello = poll.hello /\ p.loop = "build" /\ p.frames = poll.frames
      BY <1>2, <2>1 DEF Polls
    <3> HIDE DEF p
    <3>2. EndRound(p, SlotState, poll.published, PollSlot)
      BY <2>6 DEF p
    <3> QED
      BY <1>1, <1>2, <2>1, <3>1, <3>2, BuildGoesOn
  <2> QED
    BY <1>7, <2>5, <2>6 DEF PollSendSnapshot, frame, size
<1>8. ASSUME PollSendLogs
      PROVE  PollGoesOn
  <2>1. PICK p \in Polls, st \in ReplicaSlotState, resume \in Slots :
            /\ EndRound(p, st, poll.published, resume)
            /\ p.hello = poll.hello /\ p.loop = "build"
            /\ st.acked = SlotState.acked
            /\ \A i \in 1 .. Len(p.frames) :
                 \/ i \in 1 .. Len(poll.frames) /\ p.frames[i] = poll.frames[i]
                 \/ Copied(p.frames[i])
    BY <1>8, PollSendLogsIs DEF TypeInv
  <2>2. \A f \in FramesIn(p.frames) : f \in FramesIn(poll.frames) \/ NewFrame(f)
    BY <1>1, <2>1, CopiedIsNew DEF FramesIn
  <2>3. poll.loop = "build"
    <3>1. poll.step = "copy"
      BY <1>8, Zenon DEF PollSendLogs
    <3> QED
      BY <1>1, <1>2, <3>1 DEF TypeInv, PollType
  <2> QED
    BY <1>1, <1>2, <2>1, <2>2, <2>3, BuildGoesOn
<1> QED
  BY <1>1, <1>3, <1>4, <1>5, <1>6, <1>7, <1>8 DEF PollStep

(* A session is not the mark of an unknown replica.                        *)
LEMMA SessionIsKnown ==
    ASSUME TypeInv, NEW x \in SessionRecords(gen)
    PROVE  x # NoReplica /\ x.session # NoSession
<1>1. gen \in 1 .. MaxGen /\ gen \in Nat
  BY BoundAssumption DEF TypeInv, MasterType
<1>2. x.session \in SessionIds /\ x \in ReplicaSession
  BY <1>1 DEF SessionRecords, SessionsOf, SessionIds, ReplicaSession
<1> QED
  BY <1>2, NoReplicaAssumption, SessionsAreReal

(* The frames that a step of Poll adds fit the replica they are meant for. *)
LEMMA NewFrameJoins ==
    ASSUME TypeInv, LinkInv, LogInv, NEW q \in Replicas, Good(q), Tracked(q), NEW f, NewFrame(f)
    PROVE  MayJoin(q, f)
<1> SUFFICES ASSUME NEW s \in Slots
             PROVE  FrameFits(f, View(q).slots[s], HellosOf(q), s, Acked(IdOf[q], s), Low(s), seq[s])
  BY DEF MayJoin
<1> DEFINE st == View(q).slots[s]
           a == Acked(IdOf[q], s)
<1>1. st \in SlotApplyState /\ HellosOf(q) \subseteq Hellos
  BY ViewType
<1>2. st.applied \in Nat
  BY <1>1, SlotAssumption DEF SlotApplyState
<1>3. Low(s) \in Int /\ seq[s] \in Nat /\ a \in Nat /\ Low(s) <= seq[s]
  <2>1. Low(s) \in Int /\ seq[s] \in Nat /\ a \in Nat /\ Len(log[s]) \in Nat
    BY PositionTypes, ReplicaAssumption DEF Tracked, Master
  <2> QED
    BY <2>1 DEF Low
<1>4. \A h \in HellosOf(q) : h.pos[s] \in Nat
  <2>1. \A h \in HellosOf(q) : h.pos \in [Slots -> Positions]
    BY <1>1 DEF Hellos
  <2> QED
    BY <2>1, SlotAssumption DEF Positions, NoPosition
<1>5. /\ a <= st.applied /\ st.applied <= seq[s]
      /\ \A h \in HellosOf(q) : Below(h, s, st.applied)
  BY DEF Good, GoodSlot
<1>6. f \in Frames /\ (f.type = "LOG" => f.record.seq \in Nat)
  BY FrameParts, SlotAssumption DEF NewFrame
<1> HIDE DEF st, a
<1>7. ASSUME f.type = "SNAPSHOT", f.slot = s
      PROVE  ImageFits(f, HellosOf(q), s, a, Low(s), seq[s])
  <2>1. f.base = seq[s]
    BY <1>7 DEF NewFrame
  <2> QED
    BY <1>2, <1>3, <1>4, <1>5, <2>1 DEF ImageFits, Below
<1>8. ASSUME f.type = "LOG", f.slot = s
      PROVE  RecordFits(f, st, Low(s), seq[s])
  BY <1>8 DEF NewFrame, RecordFits
<1>9. FrameFits(f, st, HellosOf(q), s, a, Low(s), seq[s])
  BY <1>7, <1>8 DEF FrameFits
<1> QED
  BY <1>9 DEF st, a

(* A step of Poll.                                                         *)
LEMMA PollStepRetains ==
    ASSUME TypeInv, RoomInv, BacklogInv, TypeInv', PollStep
    PROVE  BacklogInv'
<1>1. LogInv /\ LinkInv /\ IssuedInv /\ TokenInv /\ GoodInv
  BY DEF BacklogInv
<1>2. /\ PollGoesOn /\ Polling
      /\ UNCHANGED <<gen, seq, log, nextSession, rep, link, stale>>
  BY <1>1, PollStepIs
<1>3. /\ Polling' /\ poll'.hello = poll.hello /\ PollId' = PollId
      /\ Session'.session = Session.session /\ Session'.reset = Session.reset
      /\ \A id \in ReplicaIds : id # PollId => sessions'[id] = sessions[id]
      /\ \A f \in FramesIn(poll'.frames) : f \in FramesIn(poll.frames) \/ NewFrame(f)
      /\ \A s \in Slots : AckMoves(s)
  BY <1>2 DEF PollGoesOn, PollId
<1>4. /\ Session = sessions[PollId] /\ Session' = sessions'[PollId] /\ PollId \in ReplicaIds
      /\ Session # NoReplica /\ Session' # NoReplica
  <2>1. Session \in SessionRecords(gen) /\ PollId \in ReplicaIds
    BY <1>2, PollParts DEF TypeInv
  <2>2. Session' \in SessionRecords(gen)
    BY <1>2, <1>3 DEF TypeInv, PollType
  <2> QED
    BY <1>3, <2>1, <2>2, SessionIsKnown DEF Session
<1>5. \A id \in ReplicaIds : /\ sessions'[id] # NoReplica <=> sessions[id] # NoReplica
                             /\ sessions'[id].session = sessions[id].session
  BY <1>3, <1>4
<1>6. AllHellos' = AllHellos /\ poll.hello \in AllHellos
  BY <1>2, <1>3 DEF AllHellos
<1>7. ASSUME NEW q \in Replicas
      PROVE  /\ View(q)' = View(q) /\ Resetting(q)' = Resetting(q)
             /\ HellosOf(q)' = HellosOf(q) /\ HelloOf(q)' = HelloOf(q)
             /\ Current(q)' = Current(q) /\ Tracked(q)' = Tracked(q)
             /\ link[q].phase # "answering" => UnderWay(q)' = UnderWay(q)
             /\ link[q].phase = "answering" =>
                    UnderWay(q)' = FramesIn(poll'.frames) /\ UnderWay(q) = FramesIn(poll.frames)
             /\ IdOf[q] \in ReplicaIds
  <2>1. View(q)' = View(q) /\ Resetting(q)' = Resetting(q) /\ HelloOf(q)' = HelloOf(q)
    BY <1>2, <1>3 DEF View, Resetting, HelloOf
  <2>2. IdOf[q] \in ReplicaIds
    BY ReplicaAssumption
  <2>3. Current(q)' = Current(q) /\ Tracked(q)' = Tracked(q)
    BY <1>2, <1>5, <2>1, <2>2 DEF Current, Tracked, Master
  <2>4. HellosOf(q)' = HellosOf(q)
    BY <1>6, <2>1 DEF HellosOf
  <2> QED
    BY <1>2, <2>1, <2>2, <2>3, <2>4 DEF UnderWay
<1>8. LogInv'
  BY <1>1, <1>2 DEF LogInv
<1>9. LinkInv'
  BY <1>1, <1>2, <1>3, <1>7 DEF LinkInv
<1>10. IssuedInv'
  <2>1. \A x : Issued(x)' = Issued(x)
    BY <1>2 DEF Issued
  <2>2. \A q \in Replicas : Issued(rep'[q].session) /\ Issued(View(q)'.session)
    BY <1>1, <1>2, <1>7 DEF IssuedInv
  <2>3. \A h \in AllHellos' : Issued(h.session)
    BY <1>1, <1>6 DEF IssuedInv
  <2>4. \A id \in ReplicaIds : sessions'[id] # NoReplica => Issued(sessions'[id].session)
    BY <1>1, <1>5 DEF IssuedInv
  <2> QED
    BY <1>2, <2>2, <2>3, <2>4 DEF IssuedInv, Issued
<1>11. ASSUME NEW q \in Replicas, link[q].phase = "answering"
       PROVE  View(q).session = Session.session
  BY <1>1, <1>11, AnsweredSession
<1>12. TokenInv'
  <2>1. ASSUME NEW q \in Replicas, NEW f \in UnderWay(q)'
        PROVE  f.session = View(q)'.session
    BY <1>1, <1>3, <1>7, <1>11, <2>1 DEF TokenInv, NewFrame
  <2>2. \A p, q \in Replicas : p # q => Apart(p, q)'
    BY <1>1, <1>2, <1>7 DEF TokenInv, Apart
  <2>3. \A q \in Replicas : Resetting(q)' => ~Current(q)'
    BY <1>1, <1>7 DEF TokenInv
  <2>4. \A f \in FramesIn(poll'.frames) : f.session = Session'.session
    BY <1>1, <1>2, <1>3 DEF TokenInv, NewFrame
  <2> QED
    BY <2>1, <2>2, <2>3, <2>4 DEF TokenInv
<1>13. ASSUME NEW q \in Replicas
       PROVE  Good(q)'
  <2>1. SUFFICES ASSUME Tracked(q)
                 PROVE  Good(q)'
    BY <1>7 DEF Good
  <2>2. Good(q) /\ View(q)' = View(q) /\ IdOf[q] \in ReplicaIds /\ sessions[IdOf[q]] # NoReplica
    BY <1>1, <1>7, <2>1 DEF GoodInv, Tracked, Master
  <2>3. \A f \in UnderWay(q)' : f \in UnderWay(q) \/ NewFrame(f)
    BY <1>3, <1>7
  <2>4. \A f \in UnderWay(q)' : f \in UnderWay(q) \/ MayJoin(q, f)
    BY <1>1, <2>1, <2>2, <2>3, NewFrameJoins
  <2>5. UnderWay(q)' \subseteq Frames
    BY <1>1, <2>3, ViewType DEF NewFrame
  <2>6. HellosKept(q)
    BY <1>7 DEF HellosKept
  <2>7. ASSUME NEW s \in Slots
        PROVE  PositionsKept(q, s)
    <3>1. Acked(IdOf[q], s) \in Nat /\ Low(s) \in Int /\ seq[s] \in Nat
      BY <2>2, PositionTypes
    <3>2. Low(s)' = Low(s) /\ seq'[s] = seq[s]
      BY <1>2 DEF Low
    <3>3. CASE IdOf[q] # PollId
      <4>1. Acked(IdOf[q], s)' = Acked(IdOf[q], s)
        BY <1>3, <2>2, <3>3 DEF Acked
      <4> QED
        BY <3>1, <3>2, <4>1 DEF PositionsKept
    <3>4. CASE IdOf[q] = PollId
      <4>1. Acked(IdOf[q], s)' = Acked(PollId, s)'
        BY <1>3, <3>4
      <4>2. CASE Acked(PollId, s)' = Acked(PollId, s) \/ Acked(PollId, s)' = 0
        BY <3>1, <3>2, <3>4, <4>1, <4>2 DEF PositionsKept
      <4>3. CASE /\ ~Session.reset /\ poll.hello.pos[s] # NoPosition
                 /\ Acked(PollId, s)' = poll.hello.pos[s]
        <5>1. poll.hello.session = View(q).session
          BY <1>1, <1>2, <1>4, <2>1, <3>4, <4>3 DEF LinkInv, Tracked, Master
        <5>2. poll.hello \in HellosOf(q)
          BY <1>6, <5>1 DEF HellosOf
        <5>3. poll.hello.pos[s] \in Nat
          <6>1. poll.hello.pos \in [Slots -> Positions]
            BY <1>1, <5>2, ViewType DEF Hellos
          <6> QED
            BY <6>1, SlotAssumption DEF Positions, NoPosition
        <5> QED
          BY <3>1, <3>2, <4>1, <4>3, <5>2, <5>3 DEF PositionsKept
      <4> QED
        BY <1>3, <4>2, <4>3 DEF AckMoves
    <3> QED
      BY <3>3, <3>4
  <2> QED
    BY <1>1, <2>1, <2>2, <2>4, <2>5, <2>6, <2>7, GoodKept
<1> QED
  BY <1>8, <1>9, <1>10, <1>12, <1>13 DEF BacklogInv, GoodInv

-----------------------------------------------------------------------------
(* A primary that comes back knows nobody, and its epoch is new.           *)
LEMMA RestartRetains ==
    ASSUME TypeInv, BacklogInv, RestartMaster
    PROVE  BacklogInv'
<1>1. LinkInv /\ IssuedInv /\ TokenInv
  BY DEF BacklogInv
<1>2. /\ gen' = gen + 1 /\ seq' = [s \in Slots |-> 0] /\ log' = [s \in Slots |-> <<>>]
      /\ sessions' = [id \in ReplicaIds |-> NoReplica] /\ nextSession' = 1 /\ poll' = NoPoll
      /\ stale' = EmptyBag /\ UNCHANGED rep
      /\ link' = [r \in Replicas |->
                    IF link[r].phase \in {"sent", "answering"} THEN [phase |-> "lost"] ELSE link[r]]
  BY DEF RestartMaster, MasterRestart
<1>3. AllHellos' = {} /\ ~Polling'
  BY <1>2, EmptyBagType DEF AllHellos, Polling, NoPoll
<1>4. ASSUME NEW q \in Replicas
      PROVE  /\ link'[q].phase \notin {"sent", "answering"}
             /\ View(q)' = View(q) \/ View(q)' = rep[q]
             /\ \A f \in UnderWay(q)' : f \in UnderWay(q) /\ View(q)' = View(q)
             /\ ~Current(q)' /\ ~Tracked(q)'
  <2>1. ~Current(q)' /\ ~Tracked(q)'
    BY <1>2, ReplicaAssumption DEF Current, Tracked, Master
  <2>2. CASE link[q].phase \in {"sent", "answering"}
    <3>1. link'[q].phase = "lost"
      BY <1>2, <2>2
    <3> QED
      BY <1>2, <2>1, <3>1 DEF View, UnderWay, ResetsOnReading
  <2>3. CASE link[q].phase \notin {"sent", "answering"}
    <3>1. link'[q] = link[q]
      BY <1>2, <2>3
    <3> QED
      BY <1>2, <2>1, <2>3, <3>1 DEF View, UnderWay, ResetsOnReading
  <2> QED
    BY <2>2, <2>3
<1>5. LogInv'
  BY <1>2 DEF LogInv, Gapless
<1>6. LinkInv'
  BY <1>3, <1>4 DEF LinkInv
<1>7. IssuedInv'
  <2>1. gen \in Nat /\ gen' = gen + 1
    BY <1>2, BoundAssumption DEF TypeInv, MasterType
  <2>2. ASSUME NEW x \in SessionIds \cup {NoSession}, Issued(x)
        PROVE  x = NoSession \/ x[1] < gen'
    <3>1. x \in SessionIds => x[1] \in Nat
      BY BoundAssumption DEF SessionIds
    <3> QED
      BY <2>1, <2>2, <3>1 DEF Issued
  <2>3. ASSUME NEW q \in Replicas
        PROVE  /\ rep'[q].session = NoSession \/ rep'[q].session[1] < gen'
               /\ View(q)'.session = NoSession \/ View(q)'.session[1] < gen'
    <3>1. /\ rep[q].session \in SessionIds \cup {NoSession} /\ Issued(rep[q].session)
          /\ View(q).session \in SessionIds \cup {NoSession} /\ Issued(View(q).session)
      BY <1>1, ViewType DEF IssuedInv, TypeInv, LinkType, ReplicaRecords
    <3> QED
      BY <1>2, <1>4, <2>2, <3>1
  <2>4. \A id \in ReplicaIds : sessions'[id] = NoReplica
    BY <1>2
  <2> QED
    BY <1>3, <2>3, <2>4 DEF IssuedInv, Issued
<1>8. TokenInv'
  <2>1. \A q \in Replicas : \A f \in UnderWay(q)' : f.session = View(q)'.session
    BY <1>1, <1>4 DEF TokenInv
  <2>2. ASSUME NEW p \in Replicas, NEW q \in Replicas, p # q
        PROVE  Apart(p, q)'
    <3>1. Apart(p, q)
      BY <1>1, <2>2 DEF TokenInv
    <3> QED
      BY <1>2, <1>4, <3>1 DEF Apart
  <2> QED
    BY <1>3, <1>4, <2>1, <2>2 DEF TokenInv
<1>9. GoodInv'
  BY <1>4 DEF GoodInv, Good
<1> QED
  BY <1>5, <1>6, <1>7, <1>8, <1>9 DEF BacklogInv

(* The invariant holds at the start.                                       *)
LEMMA BacklogInit == Init => BacklogInv
<1> SUFFICES ASSUME Init PROVE BacklogInv
  OBVIOUS
<1>1. /\ seq = [s \in Slots |-> 0] /\ log = [s \in Slots |-> <<>>]
      /\ sessions = [id \in ReplicaIds |-> NoReplica] /\ poll = NoPoll
      /\ rep = [r \in Replicas |-> FreshReplica] /\ link = [r \in Replicas |-> Idle]
      /\ stale = EmptyBag
  BY DEF Init, MasterInit
<1>2. AllHellos = {} /\ ~Polling
  BY <1>1, EmptyBagType DEF AllHellos, Polling, NoPoll
<1>3. ASSUME NEW q \in Replicas
      PROVE  /\ link[q].phase = "idle" /\ View(q) = rep[q] /\ UnderWay(q) = {}
             /\ rep[q].session = NoSession /\ ~Current(q) /\ ~Tracked(q)
  <2>1. link[q].phase = "idle" /\ rep[q].session = NoSession
    BY <1>1 DEF Idle, FreshReplica
  <2>2. ~Current(q) /\ ~Tracked(q)
    BY <1>1, ReplicaAssumption DEF Current, Tracked, Master
  <2> QED
    BY <2>1, <2>2 DEF View, UnderWay, ResetsOnReading
<1>4. LogInv
  BY <1>1 DEF LogInv, Gapless
<1>5. LinkInv
  BY <1>2, <1>3 DEF LinkInv
<1>6. IssuedInv
  BY <1>1, <1>2, <1>3 DEF IssuedInv, Issued
<1>7. TokenInv
  BY <1>2, <1>3 DEF TokenInv, Apart
<1>8. GoodInv
  BY <1>3 DEF GoodInv, Good
<1> QED
  BY <1>4, <1>5, <1>6, <1>7, <1>8 DEF BacklogInv

(* Every step but an eviction keeps the invariant.                         *)
LEMMA BacklogStep ==
    ASSUME TypeInv, RoomInv, BacklogInv, TypeInv', [Next]_vars,
           poll.loop # "evict", poll'.loop # "evict"
    PROVE  BacklogInv'
<1>1. CASE UNCHANGED vars
  <2>1. UNCHANGED <<rep, link, stale, sessions, poll, gen, nextSession, seq, log>>
    BY <1>1 DEF vars, masterVars
  <2>2. \A s \in Slots : /\ Low(s)' \in Int /\ seq'[s] \in Nat /\ seq[s] <= seq'[s]
                         /\ Low(s)' <= Low(s)
    <3> SUFFICES ASSUME NEW s \in Slots
                 PROVE  /\ Low(s)' \in Int /\ seq'[s] \in Nat /\ seq[s] <= seq'[s]
                        /\ Low(s)' <= Low(s)
      OBVIOUS
    <3>1. Low(s) \in Int /\ seq[s] \in Nat
      BY PositionTypes
    <3>2. Low(s)' = Low(s)
      BY <2>1 DEF Low
    <3> QED
      BY <2>1, <3>1, <3>2
  <2>3. LogInv'
    BY <2>1 DEF BacklogInv, LogInv
  <2> QED
    BY <2>1, <2>2, <2>3, SlotStep
<1>2. ASSUME NEW s \in Slots, Write(s)
      PROVE  BacklogInv'
  BY <1>2, WriteRetains
<1>3. CASE Maintenance
  BY <1>3, MaintainRetains
<1>4. ASSUME NEW r \in Replicas, \/ SendHello(r) \/ ServeHello(r) \/ Receive(r)
                                 \/ GiveUp(r) \/ Disconnect(r) \/ RestartReplica(r)
      PROVE  BacklogInv'
  BY <1>4, SendHelloRetains, ServeRetains, ReceiveRetains, AbandonRetains
<1>5. CASE ServeStaleHello
  BY <1>5, ServeRetains
<1>6. CASE PollStep
  BY <1>6, PollStepRetains
<1>7. CASE Answer
  BY <1>7, AnswerRetains
<1>8. CASE RestartMaster
  BY <1>8, RestartRetains
<1> QED
  BY <1>1, <1>2, <1>3, <1>4, <1>5, <1>6, <1>7, <1>8 DEF Next

(* The invariant says what it is for: a replica of the current session     *)
(* finds every record after its position in the log.                       *)
LEMMA BacklogInvRetains == TypeInv /\ BacklogInv => BacklogRetained
<1> SUFFICES ASSUME TypeInv, BacklogInv, NEW r \in Replicas, Current(r), NEW s \in Slots,
                    HasData(r, s), NEW n \in rep[r].slots[s].applied + 1 .. seq[s]
             PROVE  n \in {log[s][i].seq : i \in 1 .. Len(log[s])}
  BY DEF BacklogRetained
<1>1. ~Resetting(r)
  BY DEF BacklogInv, TokenInv
<1>2. View(r) = rep[r]
  BY <1>1 DEF View, Resetting
<1>3. Tracked(r)
  BY <1>2 DEF Tracked, Master, Current
<1>4. GoodSlot(rep[r].slots[s], UnderWay(r), HellosOf(r), s, Acked(IdOf[r], s), Low(s), seq[s])
  BY <1>2, <1>3 DEF BacklogInv, GoodInv, Good
<1>5. Low(s) <= rep[r].slots[s].applied
  BY <1>4 DEF GoodSlot, HasData
<1>6. /\ seq[s] \in Nat /\ Len(log[s]) \in Nat /\ Low(s) \in Int
      /\ rep[r].slots[s].applied \in Nat
  <2>1. rep[r].slots[s] \in SlotApplyState
    BY DEF TypeInv, LinkType, ReplicaRecords
  <2> QED
    BY <2>1, PositionTypes, SlotAssumption DEF SlotApplyState
<1>7. n \in Int /\ n - Low(s) \in 1 .. Len(log[s])
  <2>1. n \in Int /\ rep[r].slots[s].applied + 1 <= n /\ n <= seq[s]
    BY <1>6
  <2>2. n - Low(s) \in Int /\ 1 <= n - Low(s) /\ n - Low(s) <= Len(log[s])
    <3>1. \A low \in Int, a \in Nat, m \in Int, last \in Nat, len \in Nat :
            low = last - len /\ low <= a /\ a + 1 <= m /\ m <= last
            => m - low \in Int /\ 1 <= m - low /\ m - low <= len
      OBVIOUS
    <3>2. Low(s) = seq[s] - Len(log[s])
      BY DEF Low
    <3> QED
      BY <1>5, <1>6, <2>1, <3>1, <3>2
  <2> QED
    BY <2>1, <2>2
<1>8. log[s][n - Low(s)].seq = seq[s] - Len(log[s]) + (n - Low(s))
  BY <1>7 DEF BacklogInv, LogInv, Gapless
<1>9. log[s][n - Low(s)].seq = n
  BY <1>6, <1>7, <1>8 DEF Low
<1> QED
  BY <1>7, <1>9

(* Logs within the budget: Maintain never starts to evict.                 *)
InBudget == TotalBytes(log) <= BinlogBudget

(* No step starts an eviction then.                                        *)
LEMMA NoEvictionStep ==
    ASSUME TypeInv, RoomInv, BacklogInv, [Next]_vars, InBudget', poll.loop # "evict"
    PROVE  poll'.loop # "evict"
<1>1. CASE Maintenance
  <2>1. Maintain
    BY <1>1 DEF Maintenance, EvictSlot
  <2>2. TotalBytes(log') <= BinlogBudget /\ TotalBytes(log') \in Nat
    <3>1. MasterType'
      BY <2>1, MaintainType DEF TypeInv
    <3> QED
      BY <3>1, TotalBytesType DEF InBudget, MasterType
  <2>3. poll' = NoPoll
    BY <2>1, <2>2, LimitAssumption DEF Maintain
  <2> QED
    BY <2>3 DEF NoPoll
<1>2. CASE PollStep
  BY <1>2, PollStepIs DEF BacklogInv, PollGoesOn, Polling
<1>3. CASE Answer
  BY <1>3 DEF Answer, PollFinish, NoPoll
<1>4. CASE RestartMaster
  BY <1>4 DEF RestartMaster, MasterRestart, NoPoll
<1>5. ASSUME NEW r \in Replicas, ServeHello(r)
      PROVE  poll'.loop # "evict"
  BY <1>5 DEF ServeHello, PollBegin, StartPoll
<1>6. CASE ServeStaleHello
  BY <1>6 DEF ServeStaleHello, PollBegin, StartPoll
<1>7. CASE UNCHANGED poll
  BY <1>7
<1>8. ASSUME NEW r \in Replicas, \/ SendHello(r) \/ Receive(r)
                                 \/ GiveUp(r) \/ Disconnect(r) \/ RestartReplica(r)
      PROVE  UNCHANGED poll
  BY <1>8 DEF SendHello, Receive, GiveUp, Disconnect, RestartReplica, masterVars
<1>9. ASSUME NEW s \in Slots, Write(s)
      PROVE  UNCHANGED poll
  BY <1>9 DEF Write, WriteSlot
<1>10. CASE UNCHANGED vars
  BY <1>7, <1>10 DEF vars, masterVars
<1> QED
  BY <1>1, <1>2, <1>3, <1>4, <1>5, <1>6, <1>7, <1>8, <1>9, <1>10 DEF Next

(* As long as the budget forces no eviction, garbage collection never      *)
(* drops a record that a replica of the current session still needs,       *)
(* however late its HELLOs are read and whatever it shares its id with     *)
(* (CollectGarbage and OnHelloUnlocked of master_replicator.cpp).          *)
THEOREM RecordsAreRetained == Spec /\ [](poll.loop # "evict") => []BacklogRetained
<1>1. Init => BacklogInv
  BY BacklogInit
<1>2. /\ TypeInv /\ RoomInv /\ BacklogInv /\ TypeInv' /\ [Next]_vars
      /\ poll.loop # "evict" /\ (poll.loop # "evict")'
      => BacklogInv'
  BY BacklogStep
<1>3. TypeInv /\ BacklogInv => BacklogRetained
  BY BacklogInvRetains
<1>4. Spec => [](TypeInv /\ RoomInv)
  BY InvAlways
<1> QED
  BY <1>1, <1>2, <1>3, <1>4, PTL DEF Spec

(* The same from what is configured: logs that never outgrow the budget of *)
(* EnforceBudget lose no record that a replica of the current session      *)
(* still needs.                                                            *)
THEOREM BudgetRetainsRecords == Spec /\ []InBudget => []BacklogRetained
<1>1. Init => BacklogInv /\ poll.loop # "evict"
  BY BacklogInit DEF Init, MasterInit, NoPoll
<1>2. /\ TypeInv /\ RoomInv /\ BacklogInv /\ TypeInv' /\ [Next]_vars
      /\ poll.loop # "evict" /\ InBudget'
      => (BacklogInv /\ poll.loop # "evict")'
  BY BacklogStep, NoEvictionStep
<1>3. TypeInv /\ BacklogInv => BacklogRetained
  BY BacklogInvRetains
<1>4. Spec => [](TypeInv /\ RoomInv)
  BY InvAlways
<1> QED
  BY <1>1, <1>2, <1>3, <1>4, PTL DEF Spec
=============================================================================
