--------------------------------- MODULE Binlog ---------------------------------
(***************************************************************************)
(* The operations of a slot's binlog buffer, on a sequence of records in   *)
(* the order they were appended.  A record has at least a field seq, and   *)
(* a field bytes where sizes matter.                                       *)
(***************************************************************************)
EXTENDS Integers, Sequences

(* The number of records AckThrough pops: it stops at the first record     *)
(* with a larger sequence number.                                          *)
AckCount(log, seq) ==
    CHOOSE n \in 0 .. Len(log) :
        /\ \A i \in 1 .. n : log[i].seq <= seq
        /\ n < Len(log) => log[n + 1].seq > seq

AckThrough(log, seq) == SubSeq(log, AckCount(log, seq) + 1, Len(log))

(* The sum of the first n values of f, added one after the other.          *)
SumTo(f, n) ==
    LET sum[i \in 0 .. n] == IF i = 0 THEN 0 ELSE sum[i - 1] + f[i]
    IN  sum[n]

(* RetainedBytes: the estimated size of the first n records.               *)
BytesOf(log, n) == SumTo([i \in 1 .. n |-> log[i].bytes], n)

RetainedBytes(log) == BytesOf(log, Len(log))

(* CopyAfter: the records after seq, at most limit of them and at most     *)
(* maxBytes bytes, but at least one so that a record larger than the       *)
(* budget is still sent.  Records are in the order of their numbers: the   *)
(* ones after seq are those AckThrough would leave.                        *)
CopyAfter(log, seq, limit, maxBytes) ==
    LET after == AckThrough(log, seq)
        Fits(n) == n <= 1 \/ BytesOf(after, n) <= maxBytes
        count == CHOOSE n \in 0 .. Len(after) :
                    /\ n <= limit
                    /\ \A i \in 1 .. n : Fits(i)
                    /\ n < limit /\ n < Len(after) => ~Fits(n + 1)
    IN  SubSeq(after, 1, count)

MinSeqOf(log) == IF log = <<>> THEN 0 ELSE log[1].seq

MaxSeqOf(log) == IF log = <<>> THEN 0 ELSE log[Len(log)].seq

(* The records are numbered without a gap and the last one is number last. *)
Gapless(log, last) ==
    \A i \in 1 .. Len(log) : log[i].seq = last - Len(log) + i
=============================================================================
