----------------------------- MODULE SlaveReplicator -----------------------------
(***************************************************************************)
(* The replica side of replication: what EnqueueFrame does to a replica's  *)
(* state, one frame at a time, under the replica's mutex.  The state is a  *)
(* record: the session, the state of every slot, and the content of every  *)
(* slot of its (log-less) engine.                                          *)
(***************************************************************************)
EXTENDS ReplFrame

CONSTANT
    Undecodable   \* slots whose snapshot payload exceeds the decoder's limits

ASSUME UndecodableAssumption == Undecodable \subseteq Slots

SlotStates == {"Offline", "CatchingUp", "Online"}

SlotApplyState == [state : SlotStates, applied : 0 .. MaxSeq, needSnapshot : BOOLEAN]

FreshSlot == [state |-> "Offline", applied |-> 0, needSnapshot |-> FALSE]

(* A replica that has just started.                                        *)
FreshReplica ==
    [session |-> NoSession,
     slots   |-> [s \in Slots |-> FreshSlot],
     content |-> [s \in Slots |-> <<>>]]

(* The positions a replica reports in its HELLO.                           *)
ReportedPositions(R) ==
    [s \in Slots |-> IF R.slots[s].needSnapshot THEN NoPosition ELSE R.slots[s].applied]

Accept(R) == [ok |-> TRUE, replica |-> R]
Reject(R) == [ok |-> FALSE, replica |-> R]

(* BEGIN: a reset drops everything the replica has; otherwise the batch    *)
(* must continue the replica's session.                                    *)
ApplyBegin(R, f) ==
    IF ~f.reset /\ f.session # R.session THEN Reject(R)
    ELSE IF f.reset THEN Accept([FreshReplica EXCEPT !.session = f.session])
    ELSE Accept(R)

(* LOG: applied in order; a duplicate is skipped; a gap needs a snapshot.  *)
ApplyLog(R, f) ==
    LET st == R.slots[f.slot]
    IN  IF st.needSnapshot THEN Reject(R)
        ELSE IF f.record.seq <= st.applied THEN Accept(R)
        ELSE IF f.record.seq # st.applied + 1
        THEN Reject([R EXCEPT !.slots[f.slot].needSnapshot = TRUE,
                              !.slots[f.slot].state = "Offline"])
        ELSE Accept([R EXCEPT !.slots[f.slot].applied = f.record.seq,
                              !.slots[f.slot].state = "CatchingUp",
                              !.content[f.slot] = Append(@, <<f.record.gen, f.record.seq>>)])

(* Mutant: a slot that is readable stays so while it is replaced.          *)
ApplySnapshotInPlace(R, f) ==
    Accept([R EXCEPT !.slots[f.slot].applied = f.base,
                     !.slots[f.slot].needSnapshot = FALSE,
                     !.content[f.slot] = f.content])

(* SNAPSHOT: replaces the slot, or takes it offline if it cannot be        *)
(* decoded (an empty slot always can).                                     *)
ApplySnapshot(R, f) ==
    IF f.slot \in Undecodable /\ f.content # <<>>
    THEN Reject([R EXCEPT !.slots[f.slot].state = "Offline",
                          !.slots[f.slot].needSnapshot = TRUE])
    ELSE Accept([R EXCEPT !.slots[f.slot] = [state |-> "CatchingUp",
                                             applied |-> f.base,
                                             needSnapshot |-> FALSE],
                          !.content[f.slot] = f.content])

(* Mutant: every slot DONE names becomes readable.                         *)
ApplyDoneUnchecked(R, f) ==
    Accept([R EXCEPT !.slots =
        [s \in Slots |->
            IF s \in DOMAIN f.completed /\ ~R.slots[s].needSnapshot
            THEN [R.slots[s] EXCEPT !.state = "Online"]
            ELSE R.slots[s]]])

(* DONE: a slot that reached the position of the primary becomes readable. *)
ApplyDone(R, f) ==
    Accept([R EXCEPT !.slots =
        [s \in Slots |->
            IF s \in DOMAIN f.completed /\ ~R.slots[s].needSnapshot
            THEN [R.slots[s] EXCEPT !.state =
                    IF R.slots[s].applied >= f.completed[s] THEN "Online" ELSE "CatchingUp"]
            ELSE R.slots[s]]])

(* EnqueueFrame: the next state of the replica and whether the link goes   *)
(* on with the batch.                                                      *)
EnqueueFrame(R, f) ==
    IF f.type = "BEGIN" THEN ApplyBegin(R, f)
    ELSE IF R.session = NoSession \/ f.session # R.session THEN Reject(R)
    ELSE CASE f.type = "DONE"     -> ApplyDone(R, f)
           [] f.type = "SNAPSHOT" -> ApplySnapshot(R, f)
           [] f.type = "LOG"      -> ApplyLog(R, f)
=============================================================================
