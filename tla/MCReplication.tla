----------------------------- MODULE MCReplication -----------------------------
(***************************************************************************)
(* Instances of Replication for TLC.                                       *)
(***************************************************************************)
EXTENDS Replication

CONSTANTS r1, r2, a, b

(* Every replica with an id of its own, or two started with the same one.  *)
OneReplica == r1 :> a
SharedId == r1 :> a @@ r2 :> a

(* Records of size 1, except that the first record of slot 0 is larger     *)
(* than a whole batch may be; a snapshot has the size of its writes.       *)
UnitBytes(s, n) == 1
BigFirstBytes(s, n) == IF s = 0 /\ n = 1 THEN 3 ELSE 1
ContentBytes(s, n) == n + 1
=============================================================================
