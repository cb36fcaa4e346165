-------------------------------- MODULE ReplFrame --------------------------------
(***************************************************************************)
(* What the primary and its replicas exchange, and how the content of a    *)
(* slot is represented: as the sequence of writes that produced it.  The   *)
(* n-th write of a slot in the primary's process number gen is <<gen, n>>. *)
(* That a record replayed on the right map gives the primary's next map,   *)
(* whatever the commands are, is proved in HashSlotProofs; here a record   *)
(* replayed on another content simply gives another sequence.              *)
(***************************************************************************)
EXTENDS Integers, Sequences

CONSTANTS
    SlotCount,   \* common::kSlotCount
    MaxSeq       \* bound: writes to one slot of one primary process

ASSUME SlotAssumption == SlotCount \in Nat \ {0} /\ MaxSeq \in Nat

Slots == 0 .. SlotCount - 1

(* The content of a slot after its first n writes in process gen.          *)
Prefix(gen, n) == [i \in 1 .. n |-> <<gen, i>>]

(* A replica without a usable position reports UINT64_MAX.                 *)
NoPosition == MaxSeq + 1
Positions == 0 .. NoPosition

(* Session ids are unique per process (random epoch), replica and reset.   *)
NoSession == <<>>
SessionId(gen, id, n) == <<gen, id, n>>

(* Frames.                                                                 *)
HelloFrame(id, session, pos) == [id |-> id, session |-> session, pos |-> pos]
BeginFrame(session, reset) == [type |-> "BEGIN", session |-> session, reset |-> reset]
SnapshotFrame(session, slot, base, content) ==
    [type |-> "SNAPSHOT", session |-> session, slot |-> slot, base |-> base, content |-> content]
LogFrame(session, slot, record) ==
    [type |-> "LOG", session |-> session, slot |-> slot, record |-> record]
DoneFrame(session, completed) ==
    [type |-> "DONE", session |-> session, completed |-> completed]
=============================================================================
