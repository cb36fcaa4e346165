--------------------------- MODULE MCCacheEngine ---------------------------
(***************************************************************************)
(* Instances of CacheEngine: slots with two keys, one key and none.        *)
(***************************************************************************)
EXTENDS CacheEngine, TLC
CONSTANTS k1, k2, k3

SlotOfKey == (k1 :> 0) @@ (k2 :> 0) @@ (k3 :> 2)

AllPairs == Keys \X Contents
StringsOnly == Keys \X Strings
FilterChoices == {AllPairs, StringsOnly}

Lists == {<<k1, k3>>, <<k1, k2, k1>>}

Lasting(c) == [content |-> c, deadline |-> 0]
Expiring(c) == [content |-> c, deadline |-> 1]

\* One object that lasts, one that expires and one that may be missing.
SomeMaps == {(k1 :> a) @@ (k2 :> b) @@ (k3 :> c) :
               a \in {Lasting("text")}, b \in {Expiring("text"), Absent},
               c \in {Expiring("members")}}
=============================================================================
