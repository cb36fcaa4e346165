------------------------------- MODULE AtomicSlot -------------------------------
(***************************************************************************)
(* What a hash slot of the primary promises: every write command is one    *)
(* atomic step that replaces the map, advances the sequence number by one  *)
(* and adds exactly one record to the binlog, and acknowledged records     *)
(* leave the front of the binlog.  HashSlot implements it with two mutexes *)
(* and several steps per write.  What a command does is a parameter; the   *)
(* implementation gives it the operators of SlotCommands.                  *)
(***************************************************************************)
EXTENDS Naturals, Sequences

CONSTANTS
    EmptyMap,          \* the map of a new slot
    Outcomes(_, _, _), \* the outcomes of a command on a map at a time
    Record(_, _, _),   \* the binlog record of an outcome
    Issued,            \* the commands that may be executed on the slot
    Stamps             \* the times a command may be stamped with

VARIABLES
    map,   \* the published map
    seq,   \* the sequence number of the last write
    log    \* the retained binlog records, oldest first

avars == <<map, seq, log>>

AInit ==
    /\ map = EmptyMap
    /\ seq = 0
    /\ log = <<>>

(* A command c that was stamped with the time at takes effect.            *)
Write(c, at) ==
    \E o \in Outcomes(map, c, at) :
        /\ map' = o.map
        /\ seq' = seq + 1
        /\ log' = Append(log, Record(seq + 1, o, at))

Trim(n) ==
    /\ log' = SubSeq(log, n + 1, Len(log))
    /\ UNCHANGED <<map, seq>>

ANext ==
    \/ \E c \in Issued, at \in Stamps : Write(c, at)
    \/ \E n \in 1 .. Len(log) : Trim(n)

ASpec == AInit /\ [][ANext]_avars
=============================================================================
