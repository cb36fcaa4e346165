------------------------- MODULE CacheEngineProofs -------------------------
(***************************************************************************)
(* Proofs about CacheEngine, for every set of keys, number of slots and    *)
(* placement of the keys in them, and for every bound.                     *)
(*                                                                         *)
(* What is reported of a key comes from one visit of its slot.  The        *)
(* argument has two parts: what a visit sees at the command's time is      *)
(* among what the key has held since the command started (SeenInv), and a  *)
(* scan's list is always complete and free of repetitions up to the slot   *)
(* it has come to (ScanInv), a fact that concatenation preserves.          *)
(***************************************************************************)
EXTENDS CacheEngine, FiniteSetTheorems, TLAPS

Answers == Contents \cup {Nil}
ScanCalls ==
  [op : {"scan"}, count : Counts, filter : Filters, slot : Slots, stamp : Nat,
   scanned : Nat, found : Seq(Keys)]
PausedCalls == [op : {"scanning", "scanned"}, count : Counts, filter : Filters]
MultiCalls == [op : {"exists", "mget", "del"}, args : KeyLists, stamp : Nat, reads : Seq(Answers)]

TypeInv ==
  /\ map \in [Keys -> Objects \cup {Absent}]
  /\ now \in Nat /\ since \in Nat /\ since <= now
  /\ cursor \in Slots
  /\ returned \in Seq(Keys)
  /\ held \in [Keys -> SUBSET Answers]
  /\ call \in {Idle} \cup ScanCalls \cup PausedCalls \cup MultiCalls

(* During a command, the history has whatever a read of a key could have   *)
(* shown at any time since the command started, and the command's own      *)
(* time is such a time.                                                    *)
SeenInv ==
  /\ call # Idle => \A k \in Keys, t \in since .. now : Read(map, k, t) \in held[k]
  /\ call \in ScanCalls \cup MultiCalls => call.stamp \in since .. now

(* The list s is what a scan with filter F has to show for the slots from  *)
(* lo up to hi, hi not included, when h is what the keys have held.        *)
Selected(s, F, h) == \A i \in DOMAIN s : \E c \in h[s[i]] : <<s[i], c>> \in F
Distinct(s) == \A i, j \in DOMAIN s : s[i] = s[j] => i = j
FromSlots(s, lo, hi) ==
  \A i \in DOMAIN s : lo <= SlotForKey[s[i]] /\ SlotForKey[s[i]] < hi
Complete(s, lo, hi, F, h) ==
  \A k \in Keys :
    lo <= SlotForKey[k] /\ SlotForKey[k] < hi /\ (\A c \in h[k] : <<k, c>> \in F)
      => \E i \in DOMAIN s : s[i] = k
Block(s, lo, hi, F, h) ==
  /\ s \in Seq(Keys)
  /\ Selected(s, F, h) /\ Distinct(s) /\ FromSlots(s, lo, hi) /\ Complete(s, lo, hi, F, h)

ScanInv ==
  /\ call.op = "scan" =>
       /\ cursor <= call.slot
       /\ Block(returned, 0, cursor, call.filter, held)
       /\ Block(call.found, cursor, call.slot, call.filter, held)
  /\ call.op = "scanning" => Block(returned, 0, cursor, call.filter, held)
  /\ call.op = "scanned" => Block(returned, 0, NSlots, call.filter, held)

ReadsInv ==
  call.op \in {"exists", "mget", "del"} =>
    /\ Len(call.reads) <= Len(call.args)
    /\ \A i \in DOMAIN call.reads : call.reads[i] \in held[call.args[i]]

EngineInv == TypeInv /\ SeenInv /\ ScanInv /\ ReadsInv

-----------------------------------------------------------------------------
(* A read answers a content or nothing, and a content is the object's.     *)
LEMMA ReadIs ==
  ASSUME NEW m \in [Keys -> Objects \cup {Absent}], NEW k \in Keys, NEW t
  PROVE  /\ Read(m, k, t) \in Answers
         /\ Read(m, k, t) # Nil => Read(m, k, t) = m[k].content
<1>1. m[k] \in Objects \/ m[k] = Absent
  OBVIOUS
<1>2. m[k].content \in Answers
  BY <1>1 DEF Objects, Absent, Answers
<1> QED
  BY <1>2 DEF Read, Answers

(* No slots, no keys.                                                      *)
LEMMA BlockEmpty ==
  ASSUME NEW lo \in Nat, NEW F, NEW h
  PROVE  Block(<<>>, lo, lo, F, h)
<1>1. \A k \in Keys : SlotForKey[k] \in Nat
  BY EngineAssumption DEF Slots
<1> QED
  BY <1>1 DEF Block, Selected, Distinct, FromSlots, Complete

(* A block stays one when more becomes known of what the keys held.        *)
LEMMA BlockGrows ==
  ASSUME NEW s, NEW lo, NEW hi, NEW F, NEW h, NEW g,
         Block(s, lo, hi, F, h), \A k \in Keys : h[k] \subseteq g[k]
  PROVE  Block(s, lo, hi, F, g)
<1>1. s \in Seq(Keys)
  BY DEF Block
<1>2. \A i \in DOMAIN s : s[i] \in Keys
  BY <1>1
<1>3. Selected(s, F, g)
  BY <1>2 DEF Block, Selected
<1>4. Complete(s, lo, hi, F, g)
  BY DEF Block, Complete
<1> QED
  BY <1>1, <1>3, <1>4 DEF Block

(* Two blocks of different slots, one after the other, are a block.        *)
LEMMA BlockConcat ==
  ASSUME NEW s, NEW r, NEW lo \in Nat, NEW mid \in Nat, NEW hi \in Nat, NEW F, NEW h,
         lo <= mid, mid <= hi, Block(s, lo, mid, F, h), Block(r, mid, hi, F, h)
  PROVE  Block(s \o r, lo, hi, F, h)
<1>1. s \in Seq(Keys) /\ r \in Seq(Keys)
  BY DEF Block
<1>2. PICK n \in Nat, m \in Nat : n = Len(s) /\ m = Len(r)
  BY <1>1
<1>3. /\ s \o r \in Seq(Keys) /\ DOMAIN (s \o r) = 1 .. n + m
      /\ DOMAIN s = 1 .. n /\ DOMAIN r = 1 .. m
      /\ \A i \in 1 .. n : (s \o r)[i] = s[i]
      /\ \A i \in n + 1 .. n + m : (s \o r)[i] = r[i - n]
  BY <1>1, <1>2
<1>4. PICK q : q = s \o r
  OBVIOUS
<1>5. \A i \in 1 .. n + m : (i \in 1 .. n /\ q[i] = s[i])
                              \/ (i \in n + 1 .. n + m /\ i - n \in 1 .. m /\ q[i] = r[i - n])
  BY <1>2, <1>3, <1>4
<1>6. \A k \in Keys : SlotForKey[k] \in Nat
  BY EngineAssumption DEF Slots
<1>7. (\A i \in 1 .. n : s[i] \in Keys) /\ (\A i \in 1 .. m : r[i] \in Keys)
  BY <1>1, <1>3
<1>8. Selected(q, F, h)
  BY <1>3, <1>4, <1>5 DEF Block, Selected
<1>9. FromSlots(q, lo, hi)
  BY <1>3, <1>4, <1>5, <1>6, <1>7, SMTT(30) DEF Block, FromSlots
<1>10. Distinct(q)
  <2> SUFFICES ASSUME NEW i \in 1 .. n + m, NEW j \in 1 .. n + m, q[i] = q[j]
               PROVE  i = j
    BY <1>3, <1>4 DEF Distinct
  <2>1. CASE i \in 1 .. n /\ j \in 1 .. n
    BY <1>3, <1>4, <2>1 DEF Block, Distinct
  <2>2. CASE i \in n + 1 .. n + m /\ j \in n + 1 .. n + m
    <3>1. r[i - n] = r[j - n] /\ i - n \in 1 .. m /\ j - n \in 1 .. m
      BY <1>2, <1>3, <1>4, <2>2
    <3>2. i - n = j - n
      BY <1>3, <3>1 DEF Block, Distinct
    <3> QED
      BY <1>2, <3>2
  <2>3. CASE i \in 1 .. n /\ j \in n + 1 .. n + m
    <3>1. q[i] = s[i] /\ q[j] = r[j - n] /\ j - n \in 1 .. m
      BY <1>2, <1>3, <1>4, <2>3
    <3>2. SlotForKey[s[i]] < mid /\ mid <= SlotForKey[r[j - n]]
      BY <1>3, <2>3, <3>1 DEF Block, FromSlots
    <3>3. s[i] = r[j - n] /\ SlotForKey[s[i]] \in Nat
      BY <1>6, <1>7, <2>3, <3>1
    <3> QED
      BY <3>2, <3>3
  <2>4. CASE j \in 1 .. n /\ i \in n + 1 .. n + m
    <3>1. q[j] = s[j] /\ q[i] = r[i - n] /\ i - n \in 1 .. m
      BY <1>2, <1>3, <1>4, <2>4
    <3>2. SlotForKey[s[j]] < mid /\ mid <= SlotForKey[r[i - n]]
      BY <1>3, <2>4, <3>1 DEF Block, FromSlots
    <3>3. s[j] = r[i - n] /\ SlotForKey[s[j]] \in Nat
      BY <1>6, <1>7, <2>4, <3>1
    <3> QED
      BY <3>2, <3>3
  <2> QED
    BY <1>5, <2>1, <2>2, <2>3, <2>4
<1>11. Complete(q, lo, hi, F, h)
  <2> SUFFICES ASSUME NEW k \in Keys, lo <= SlotForKey[k], SlotForKey[k] < hi,
                      \A c \in h[k] : <<k, c>> \in F
               PROVE  \E i \in 1 .. n + m : q[i] = k
    BY <1>3, <1>4 DEF Complete
  <2>1. CASE SlotForKey[k] < mid
    <3>1. PICK i \in 1 .. n : s[i] = k
      BY <1>3, <2>1 DEF Block, Complete
    <3> QED
      BY <1>2, <1>3, <1>4, <3>1
  <2>2. CASE mid <= SlotForKey[k]
    <3>1. PICK i \in 1 .. m : r[i] = k
      BY <1>3, <2>2 DEF Block, Complete
    <3>2. i + n \in n + 1 .. n + m /\ (i + n) - n = i
      BY <1>2
    <3> QED
      BY <1>2, <1>3, <1>4, <3>1, <3>2, SMTT(30)
  <2> QED
    BY <1>6, <2>1, <2>2
<1> QED
  BY <1>3, <1>4, <1>8, <1>9, <1>10, <1>11 DEF Block

(* A visit at a time of the scan shows a block of one slot: what it sees   *)
(* of a key is among what the key has held, so what it returns has been    *)
(* held, and a key it leaves out has held something unselected.            *)
LEMMA VisitIsBlock ==
  ASSUME TypeInv, NEW F \in Filters, NEW slot \in Slots, NEW t, NEW order,
         \A k \in Keys : Read(map, k, t) \in held[k],
         order \in Orders({k \in Live(slot, t) : <<k, map[k].content>> \in F})
  PROVE  Block(order, slot, slot + 1, F, held)
<1> DEFINE M == {k \in Live(slot, t) : <<k, map[k].content>> \in F}
<1>1. map \in [Keys -> Objects \cup {Absent}]
  BY DEF TypeInv
<1>2. M \subseteq Keys /\ IsFiniteSet(M)
  <2>1. M \subseteq Keys
    BY DEF Live, InSlot
  <2> QED
    BY <2>1, EngineAssumption, FS_Subset, ZenonT(40)
<1>3. \A k \in M : SlotForKey[k] = slot /\ <<k, Read(map, k, t)>> \in F
  <2> SUFFICES ASSUME NEW k \in M
               PROVE  SlotForKey[k] = slot /\ <<k, Read(map, k, t)>> \in F
    OBVIOUS
  <2>1. k \in Keys /\ SlotForKey[k] = slot /\ Read(map, k, t) # Nil /\ <<k, map[k].content>> \in F
    BY DEF Live, InSlot
  <2>2. Read(map, k, t) = map[k].content
    BY <1>1, <2>1, ReadIs
  <2> QED
    BY <2>1, <2>2
<1>4. \A k \in Keys : SlotForKey[k] = slot /\ <<k, Read(map, k, t)>> \in F => k \in M
  <2> SUFFICES ASSUME NEW k \in Keys, SlotForKey[k] = slot, <<k, Read(map, k, t)>> \in F
               PROVE  k \in M
    OBVIOUS
  <2>1. F \subseteq Keys \X Contents
    BY EngineAssumption
  <2>2. Read(map, k, t) \in Contents
    BY <2>1
  <2>3. Read(map, k, t) # Nil
    BY <2>2, EngineAssumption
  <2>4. Read(map, k, t) = map[k].content
    BY <1>1, <2>3, ReadIs
  <2> QED
    BY <2>3, <2>4 DEF Live, InSlot
<1> HIDE DEF M
<1>5. PICK n \in Nat : n = Cardinality(M)
  BY <1>2, FS_CardinalityType
<1>6. /\ order \in [1 .. n -> M]
      /\ \A k \in M : \E i \in DOMAIN order : order[i] = k
      /\ \A i, j \in DOMAIN order : order[i] = order[j] => i = j
  BY <1>5 DEF Orders, M
<1>7. order \in Seq(Keys) /\ \A i \in DOMAIN order : order[i] \in M
  BY <1>2, <1>5, <1>6
<1>8. slot \in Nat /\ \A k \in Keys : SlotForKey[k] \in Nat
  BY EngineAssumption DEF Slots
<1>9. Selected(order, F, held)
  BY <1>2, <1>3, <1>7 DEF Selected
<1>10. Distinct(order)
  BY <1>6 DEF Distinct
<1>11. FromSlots(order, slot, slot + 1)
  <2>1. slot <= slot /\ slot < slot + 1
    BY <1>8
  <2>2. \A i \in DOMAIN order : SlotForKey[order[i]] = slot
    BY <1>3, <1>7
  <2> QED
    BY <2>1, <2>2 DEF FromSlots
<1>12. Complete(order, slot, slot + 1, F, held)
  <2> SUFFICES ASSUME NEW k \in Keys, slot <= SlotForKey[k], SlotForKey[k] < slot + 1,
                      \A c \in held[k] : <<k, c>> \in F
               PROVE  \E i \in DOMAIN order : order[i] = k
    BY DEF Complete
  <2>1. SlotForKey[k] = slot
    BY <1>8
  <2>2. k \in M
    BY <1>4, <2>1
  <2> QED
    BY <1>6, <2>2
<1> QED
  BY <1>7, <1>9, <1>10, <1>11, <1>12 DEF Block

(* A step that records what it leaves behind keeps the history complete,   *)
(* and takes nothing from it.                                              *)
LEMMA HistoryGrows ==
  ASSUME EngineInv, Observe, call # Idle, since' = since, now' \in Nat, now <= now',
         map' \in [Keys -> Objects \cup {Absent}]
  PROVE  /\ held' \in [Keys -> SUBSET Answers]
         /\ \A k \in Keys : held[k] \subseteq held'[k]
         /\ \A k \in Keys, t \in since' .. now' : Read(map', k, t) \in held'[k]
         /\ since .. now \subseteq since' .. now'
<1>1. held' = [k \in Keys |-> held[k] \cup {Read(map', k, t) : t \in since .. now'}]
  BY DEF Observe
<1>2. held \in [Keys -> SUBSET Answers]
  BY DEF EngineInv, TypeInv
<1>3. \A k \in Keys, t \in since .. now' : Read(map', k, t) \in Answers
  BY ReadIs
<1>4. since .. now \subseteq since' .. now'
  BY DEF EngineInv, TypeInv
<1> QED
  BY <1>1, <1>2, <1>3, <1>4

(* Steps of the clock, of other clients and of the sweeper.                *)
LEMMA OthersKeep ==
  ASSUME EngineInv, Observe, UNCHANGED <<call, cursor, returned, since>>,
         now' \in Nat, now <= now', map' \in [Keys -> Objects \cup {Absent}]
  PROVE  EngineInv'
<1>1. CASE call = Idle
  <2>1. held' = held /\ call' = Idle
    BY <1>1 DEF Observe
  <2>2. TypeInv'
    BY <2>1 DEF EngineInv, TypeInv
  <2>3. call'.op = "idle" /\ call' \notin ScanCalls \cup MultiCalls
    BY <2>1 DEF Idle, ScanCalls, MultiCalls
  <2> QED
    BY <2>1, <2>2, <2>3 DEF EngineInv, SeenInv, ScanInv, ReadsInv
<1>2. CASE call # Idle
  <2>1. /\ held' \in [Keys -> SUBSET Answers]
        /\ \A k \in Keys : held[k] \subseteq held'[k]
        /\ \A k \in Keys, t \in since' .. now' : Read(map', k, t) \in held'[k]
        /\ since .. now \subseteq since' .. now'
    BY <1>2, HistoryGrows
  <2>2. TypeInv'
    BY <2>1 DEF EngineInv, TypeInv
  <2>3. SeenInv'
    BY <2>1 DEF EngineInv, SeenInv
  <2>4. ScanInv'
    <3>1. CASE call.op = "scan"
      <4>1. /\ Block(returned, 0, cursor, call.filter, held')
            /\ Block(call.found, cursor, call.slot, call.filter, held')
        BY <2>1, <3>1, BlockGrows DEF EngineInv, ScanInv
      <4> QED
        BY <3>1, <4>1 DEF EngineInv, ScanInv
    <3>2. CASE call.op = "scanning"
      <4>1. Block(returned, 0, cursor, call.filter, held')
        BY <2>1, <3>2, BlockGrows DEF EngineInv, ScanInv
      <4> QED
        BY <3>2, <4>1 DEF ScanInv
    <3>3. CASE call.op = "scanned"
      <4>1. Block(returned, 0, NSlots, call.filter, held')
        BY <2>1, <3>3, BlockGrows DEF EngineInv, ScanInv
      <4> QED
        BY <3>3, <4>1 DEF ScanInv
    <3> QED
      BY <3>1, <3>2, <3>3 DEF ScanInv
  <2>5. ReadsInv'
    <3> SUFFICES ASSUME call.op \in {"exists", "mget", "del"}
                 PROVE  /\ Len(call.reads) <= Len(call.args)
                        /\ \A i \in DOMAIN call.reads : call.reads[i] \in held'[call.args[i]]
      BY DEF ReadsInv
    <3>1. call \in MultiCalls
      BY DEF EngineInv, TypeInv, Idle, ScanCalls, PausedCalls
    <3>2. call.args \in Seq(Keys) /\ call.reads \in Seq(Answers)
      BY <3>1, EngineAssumption DEF MultiCalls
    <3>3. Len(call.reads) <= Len(call.args)
      BY DEF EngineInv, ReadsInv
    <3>4. \A i \in DOMAIN call.reads : call.args[i] \in Keys
      BY <3>2, <3>3
    <3> QED
      BY <2>1, <3>3, <3>4 DEF EngineInv, ReadsInv
  <2> QED
    BY <2>2, <2>3, <2>4, <2>5 DEF EngineInv
<1> QED
  BY <1>1, <1>2

-----------------------------------------------------------------------------
(* The invariant holds at the start.                                       *)
LEMMA InitKeeps == Init => EngineInv
<1> SUFFICES ASSUME Init PROVE EngineInv
  OBVIOUS
<1>1. TypeInv
  BY EngineAssumption DEF Init, TypeInv, Slots, Idle
<1>2. call = Idle /\ call.op = "idle" /\ call \notin ScanCalls \cup MultiCalls
  BY DEF Init, Idle, ScanCalls, MultiCalls
<1> QED
  BY <1>1, <1>2 DEF EngineInv, SeenInv, ScanInv, ReadsInv

(* A write to one slot keeps the invariant: a scan under way saw or will   *)
(* see what it needs.                                                      *)
LEMMA WriteKeeps ==
  ASSUME EngineInv, NEW k \in Keys, Write(k)
  PROVE  EngineInv'
<1>1. PICK o \in Objects \cup {Absent} : map' = [map EXCEPT ![k] = o]
  BY DEF Write
<1>2. map' \in [Keys -> Objects \cup {Absent}]
  BY <1>1 DEF EngineInv, TypeInv
<1>3. Observe /\ UNCHANGED <<now, call, cursor, returned, since>>
  BY DEF Write
<1>4. now' \in Nat /\ now <= now'
  BY <1>3 DEF EngineInv, TypeInv
<1> QED
  BY <1>2, <1>3, <1>4, OthersKeep

(* Time that passes hides keys and changes nothing else.                   *)
LEMMA TickKeeps ==
  ASSUME EngineInv, Tick
  PROVE  EngineInv'
<1>1. map' \in [Keys -> Objects \cup {Absent}] /\ now' \in Nat /\ now <= now'
  BY DEF Tick, EngineInv, TypeInv
<1>2. Observe /\ UNCHANGED <<call, cursor, returned, since>>
  BY DEF Tick
<1> QED
  BY <1>1, <1>2, OthersKeep

(* The sweeper removes expired objects only.                               *)
LEMMA SweepSlotKeeps ==
  ASSUME EngineInv, SweepSlot
  PROVE  EngineInv'
<1>1. PICK doomed : map' = [k \in Keys |-> IF k \in doomed THEN Absent ELSE map[k]]
  BY DEF SweepSlot
<1>2. map' \in [Keys -> Objects \cup {Absent}]
  BY <1>1 DEF EngineInv, TypeInv
<1>3. Observe /\ UNCHANGED <<now, call, cursor, returned, since>>
  BY DEF SweepSlot
<1>4. now' \in Nat /\ now <= now'
  BY <1>3 DEF EngineInv, TypeInv
<1> QED
  BY <1>2, <1>3, <1>4, OthersKeep

(* The start of a sweep changes no object.                                 *)
LEMMA SweepTickKeeps ==
  ASSUME EngineInv, SweepTick
  PROVE  EngineInv'
<1>1. UNCHANGED <<map, now, call, cursor, returned, since, held>>
  BY DEF SweepTick
<1> QED
  BY <1>1 DEF EngineInv, TypeInv, SeenInv, ScanInv, ReadsInv

(* What the observation of a new command starts from.                      *)
LEMMA FreshHistory ==
  ASSUME EngineInv, ObserveFromNow, UNCHANGED <<map, now>>
  PROVE  /\ held' \in [Keys -> SUBSET Answers]
         /\ since' \in Nat /\ since' <= now' /\ now' \in Nat /\ now \in since' .. now'
         /\ \A k \in Keys, t \in since' .. now' : Read(map', k, t) \in held'[k]
<1>1. since' = now /\ held' = [k \in Keys |-> {Read(map, k, now)}]
  BY DEF ObserveFromNow
<1>2. now \in Nat /\ map \in [Keys -> Objects \cup {Absent}]
  BY DEF EngineInv, TypeInv
<1>3. \A k \in Keys : Read(map, k, now) \in Answers
  BY <1>2, ReadIs
<1>4. \A t \in since' .. now' : t = now
  BY <1>1, <1>2
<1> QED
  BY <1>1, <1>2, <1>3, <1>4

(* A first SCAN call starts with nothing seen.                             *)
LEMMA StartScanKeeps ==
  ASSUME EngineInv, StartScan
  PROVE  EngineInv'
<1>1. PICK count \in Counts, filter \in Filters :
         call' = [op |-> "scan", count |-> count, filter |-> filter, slot |-> 0,
                  stamp |-> now, scanned |-> 0, found |-> <<>>]
  BY DEF StartScan
<1>2. cursor' = 0 /\ returned' = <<>> /\ ObserveFromNow /\ UNCHANGED <<map, now>>
  BY DEF StartScan
<1>3. /\ held' \in [Keys -> SUBSET Answers]
      /\ since' \in Nat /\ since' <= now' /\ now' \in Nat /\ now \in since' .. now'
      /\ \A k \in Keys, t \in since' .. now' : Read(map', k, t) \in held'[k]
  BY <1>2, FreshHistory
<1>4. 0 \in Slots
  BY EngineAssumption DEF Slots
<1>5. call' \in ScanCalls
  BY <1>1, <1>4 DEF ScanCalls, EngineInv, TypeInv
<1>6. /\ call'.op = "scan" /\ call'.stamp = now /\ call'.slot = 0
      /\ call'.found = <<>> /\ call'.filter = filter
  BY <1>1
<1>7. TypeInv'
  BY <1>2, <1>3, <1>4, <1>5 DEF EngineInv, TypeInv
<1>8. SeenInv'
  BY <1>3, <1>6 DEF SeenInv
<1>9. ScanInv'
  <2>1. Block(<<>>, 0, 0, filter, held')
    BY BlockEmpty
  <2> QED
    BY <1>2, <1>6, <2>1 DEF ScanInv
<1>10. ReadsInv'
  BY <1>6 DEF ReadsInv
<1> QED
  BY <1>7, <1>8, <1>9, <1>10 DEF EngineInv

(* The next call goes on from the cursor the last one returned.            *)
LEMMA NextScanCallKeeps ==
  ASSUME EngineInv, NextScanCall
  PROVE  EngineInv'
<1>1. call \in PausedCalls /\ call.op = "scanning"
  BY DEF NextScanCall, EngineInv, TypeInv, Idle, ScanCalls, MultiCalls
<1>2. call.filter \in Filters /\ call.count \in Counts
  BY <1>1 DEF PausedCalls
<1>3. call' = [op |-> "scan", count |-> call.count, filter |-> call.filter,
               slot |-> cursor, stamp |-> now, scanned |-> 0, found |-> <<>>]
  BY DEF NextScanCall
<1>4. UNCHANGED <<map, now, cursor, returned, since, held>>
  BY DEF NextScanCall
<1>5. cursor \in Slots /\ cursor \in Nat /\ now \in Nat /\ now \in since .. now
  BY EngineAssumption DEF EngineInv, TypeInv, Slots
<1>6. call' \in ScanCalls
  BY <1>2, <1>3, <1>5 DEF ScanCalls
<1>7. /\ call'.op = "scan" /\ call'.stamp = now /\ call'.slot = cursor
      /\ call'.found = <<>> /\ call'.filter = call.filter
  BY <1>3
<1>8. TypeInv'
  BY <1>4, <1>6 DEF EngineInv, TypeInv
<1>9. SeenInv'
  <2>1. call # Idle
    BY <1>1 DEF Idle
  <2> QED
    BY <1>4, <1>5, <1>7, <2>1 DEF EngineInv, SeenInv
<1>10. ScanInv'
  <2>1. Block(<<>>, cursor, cursor, call.filter, held)
    BY <1>5, BlockEmpty
  <2>2. Block(returned, 0, cursor, call.filter, held)
    BY <1>1 DEF EngineInv, ScanInv
  <2> QED
    BY <1>4, <1>5, <1>7, <2>1, <2>2 DEF ScanInv
<1>11. ReadsInv'
  BY <1>7 DEF ReadsInv
<1> QED
  BY <1>8, <1>9, <1>10, <1>11 DEF EngineInv

(* A visit extends the block of the running call by its slot; the reply    *)
(* extends the block of the whole scan by that of the call.                *)
LEMMA ScanSlotKeeps ==
  ASSUME EngineInv, ScanSlot
  PROVE  EngineInv'
<1>1. call \in ScanCalls /\ call.op = "scan" /\ call # Idle
  BY DEF ScanSlot, EngineInv, TypeInv, Idle, PausedCalls, MultiCalls
<1>2. /\ call.filter \in Filters /\ call.count \in Counts /\ call.slot \in Slots
      /\ call.scanned \in Nat /\ call.found \in Seq(Keys) /\ call.stamp \in Nat
  BY <1>1 DEF ScanCalls
<1>3. UNCHANGED <<map, now, since, held>>
  BY DEF ScanSlot
<1>4. PICK visited : visited = Live(call.slot, call.stamp)
  OBVIOUS
<1>5. PICK scanned, order :
        /\ scanned = call.scanned + Cardinality(visited)
        /\ order \in Orders(Matching(visited))
        /\ IF CallEnds(scanned, call.slot + 1)
           THEN Reply(call.found \o order, call.slot + 1)
           ELSE /\ call' = [call EXCEPT !.slot = @ + 1, !.scanned = scanned,
                                        !.found = @ \o order]
                /\ UNCHANGED <<cursor, returned>>
  BY <1>4 DEF ScanSlot
<1>6. scanned \in Nat
  <2>1. visited \subseteq Keys
    BY <1>4 DEF Live, InSlot
  <2>2. Cardinality(visited) \in Nat
    BY <2>1, EngineAssumption, FS_Subset, FS_CardinalityType
  <2> QED
    BY <1>2, <1>5, <2>2
<1>7. cursor \in Nat /\ call.slot \in Nat /\ NSlots \in Nat /\ call.slot < NSlots
  BY <1>2, EngineAssumption DEF EngineInv, TypeInv, Slots
<1>8. Block(order, call.slot, call.slot + 1, call.filter, held)
  <2>1. \A k \in Keys : Read(map, k, call.stamp) \in held[k]
    BY <1>1 DEF EngineInv, SeenInv
  <2>2. order \in Orders({k \in Live(call.slot, call.stamp) : <<k, map[k].content>> \in call.filter})
    BY <1>4, <1>5 DEF Matching
  <2> QED
    BY <1>2, <2>1, <2>2, VisitIsBlock DEF EngineInv
<1>9. PICK list : list = call.found \o order
  OBVIOUS
<1>10. Block(list, cursor, call.slot + 1, call.filter, held)
  BY <1>1, <1>7, <1>8, <1>9, BlockConcat DEF EngineInv, ScanInv
<1>11. list \in Seq(Keys)
  BY <1>10 DEF Block
<1>12. CASE CallEnds(scanned, call.slot + 1)
  <2>1. /\ returned' = returned \o list /\ cursor' = NextCursor(call.slot + 1)
        /\ call' = [op |-> IF NextCursor(call.slot + 1) = 0 THEN "scanned" ELSE "scanning",
                    count |-> call.count, filter |-> call.filter]
    BY <1>5, <1>9, <1>12 DEF Reply
  <2>2. Block(returned \o list, 0, call.slot + 1, call.filter, held)
    BY <1>1, <1>7, <1>10, BlockConcat DEF EngineInv, ScanInv
  <2>3. /\ call'.filter = call.filter
        /\ call'.op = IF NextCursor(call.slot + 1) = 0 THEN "scanned" ELSE "scanning"
    BY <2>1
  <2>4. call' \in PausedCalls
    BY <1>2, <2>1 DEF PausedCalls
  <2>5. /\ NextCursor(call.slot + 1) = 0 => call.slot + 1 = NSlots
        /\ NextCursor(call.slot + 1) # 0 => NextCursor(call.slot + 1) = call.slot + 1
        /\ NextCursor(call.slot + 1) \in Slots
    BY <1>7, EngineAssumption DEF NextCursor, Slots
  <2>6. TypeInv'
    <3>1. returned' \in Seq(Keys)
      BY <2>1, <2>2 DEF Block
    <3> QED
      BY <1>3, <2>1, <2>4, <2>5, <3>1 DEF EngineInv, TypeInv
  <2>7. SeenInv'
    <3>1. call' \notin ScanCalls \cup MultiCalls
      BY <2>3 DEF ScanCalls, MultiCalls
    <3> QED
      BY <1>1, <1>3, <3>1 DEF EngineInv, SeenInv
  <2>8. ScanInv'
    BY <1>3, <2>1, <2>2, <2>3, <2>5 DEF ScanInv
  <2>9. ReadsInv'
    BY <2>3 DEF ReadsInv
  <2> QED
    BY <2>6, <2>7, <2>8, <2>9 DEF EngineInv
<1>13. CASE ~CallEnds(scanned, call.slot + 1)
  <2>1. /\ call' = [call EXCEPT !.slot = call.slot + 1, !.scanned = scanned, !.found = list]
        /\ UNCHANGED <<cursor, returned>>
    BY <1>1, <1>5, <1>9, <1>13 DEF ScanCalls
  <2>2. /\ call'.op = "scan" /\ call'.filter = call.filter /\ call'.stamp = call.stamp
        /\ call'.slot = call.slot + 1 /\ call'.found = list
    BY <1>1, <2>1 DEF ScanCalls
  <2>3. call.slot + 1 \in Slots
    BY <1>7, <1>13 DEF CallEnds, Slots
  <2>4. call' \in ScanCalls
    BY <1>1, <1>6, <1>11, <2>1, <2>3 DEF ScanCalls
  <2>5. TypeInv'
    BY <1>3, <2>1, <2>4 DEF EngineInv, TypeInv
  <2>6. SeenInv'
    BY <1>1, <1>3, <2>2 DEF EngineInv, SeenInv
  <2>7. ScanInv'
    <3>1. Block(returned, 0, cursor, call.filter, held) /\ cursor <= call.slot
      BY <1>1 DEF EngineInv, ScanInv
    <3> QED
      BY <1>3, <1>7, <1>10, <2>1, <2>2, <3>1 DEF ScanInv
  <2>8. ReadsInv'
    BY <2>2 DEF ReadsInv
  <2> QED
    BY <2>5, <2>6, <2>7, <2>8 DEF EngineInv
<1> QED
  BY <1>12, <1>13

(* A command of several keys starts with nothing read.                     *)
LEMMA StartMultiKeeps ==
  ASSUME EngineInv, StartMulti
  PROVE  EngineInv'
<1>1. PICK op \in {"exists", "mget", "del"}, args \in KeyLists :
         call' = [op |-> op, args |-> args, stamp |-> now, reads |-> <<>>]
  BY DEF StartMulti
<1>2. ObserveFromNow /\ UNCHANGED <<map, now, cursor, returned>>
  BY DEF StartMulti
<1>3. /\ held' \in [Keys -> SUBSET Answers]
      /\ since' \in Nat /\ since' <= now' /\ now' \in Nat /\ now \in since' .. now'
      /\ \A k \in Keys, t \in since' .. now' : Read(map', k, t) \in held'[k]
  BY <1>2, FreshHistory
<1>4. call' \in MultiCalls
  BY <1>1 DEF MultiCalls, EngineInv, TypeInv
<1>5. call'.op = op /\ call'.stamp = now /\ call'.args = args /\ call'.reads = <<>>
  BY <1>1
<1>6. TypeInv'
  BY <1>2, <1>3, <1>4 DEF EngineInv, TypeInv
<1>7. SeenInv'
  BY <1>3, <1>5 DEF SeenInv
<1>8. ScanInv'
  BY <1>5 DEF ScanInv
<1>9. ReadsInv'
  <2>1. args \in Seq(Keys)
    BY EngineAssumption
  <2> QED
    BY <1>5, <2>1 DEF ReadsInv
<1> QED
  BY <1>6, <1>7, <1>8, <1>9 DEF EngineInv

(* A read of the next key returns what its slot holds at that moment.      *)
LEMMA NextKeyStepKeeps ==
  ASSUME EngineInv, NextKeyStep
  PROVE  EngineInv'
<1>1. call \in MultiCalls /\ call.op \in {"exists", "mget", "del"} /\ call # Idle
  BY DEF NextKeyStep, EngineInv, TypeInv, Idle, ScanCalls, PausedCalls
<1>2. call.args \in Seq(Keys) /\ call.reads \in Seq(Answers) /\ call.stamp \in Nat
  BY <1>1, EngineAssumption DEF MultiCalls
<1>3. PICK n \in Nat : n = Len(call.reads) /\ n < Len(call.args)
  <2>1. Len(call.reads) \in Nat
    BY <1>2
  <2>2. Len(call.reads) < Len(call.args)
    BY DEF NextKeyStep
  <2> QED
    BY <2>1, <2>2
<1>4. PICK key \in Keys : key = NextKey /\ key = call.args[n + 1]
  BY <1>2, <1>3 DEF NextKey
<1>5. PICK found \in Answers : found = Read(map, key, call.stamp)
  BY ReadIs DEF EngineInv, TypeInv
<1>6. /\ call' = [call EXCEPT !.reads = Append(call.reads, found)]
      /\ map' = IF call.op = "del" /\ found # Nil THEN [map EXCEPT ![key] = Absent] ELSE map
      /\ UNCHANGED <<now, cursor, returned, since>> /\ Observe
  BY <1>1, <1>4, <1>5 DEF NextKeyStep, MultiCalls
<1>7. map' \in [Keys -> Objects \cup {Absent}]
  BY <1>6 DEF EngineInv, TypeInv
<1>8. now' \in Nat /\ now <= now'
  BY <1>6 DEF EngineInv, TypeInv
<1>9. /\ held' \in [Keys -> SUBSET Answers]
      /\ \A k \in Keys : held[k] \subseteq held'[k]
      /\ \A k \in Keys, t \in since' .. now' : Read(map', k, t) \in held'[k]
  BY <1>1, <1>6, <1>7, <1>8, HistoryGrows
<1>10. /\ call' \in MultiCalls /\ call'.op = call.op /\ call'.args = call.args
       /\ call'.stamp = call.stamp /\ call'.reads = Append(call.reads, found)
  <2>1. \A s \in Seq(Answers), a \in Answers : Append(s, a) \in Seq(Answers)
    OBVIOUS
  <2>2. Append(call.reads, found) \in Seq(Answers)
    BY <1>2, <1>5, <2>1
  <2>3. PICK longer \in Seq(Answers) : longer = Append(call.reads, found)
    BY <2>2
  <2> QED
    BY <1>1, <1>6, <2>3 DEF MultiCalls
<1>11. TypeInv'
  BY <1>6, <1>7, <1>8, <1>9, <1>10 DEF EngineInv, TypeInv
<1>12. SeenInv'
  BY <1>1, <1>6, <1>9, <1>10 DEF EngineInv, SeenInv
<1>13. ScanInv'
  BY <1>1, <1>10 DEF ScanInv
<1>14. ReadsInv'
  <2>1. Len(call'.reads) = n + 1 /\ DOMAIN call'.reads = 1 .. n + 1
    BY <1>2, <1>3, <1>10
  <2>2. ASSUME NEW i \in 1 .. n + 1
        PROVE  call'.reads[i] \in held'[call.args[i]]
    <3>1. CASE i = n + 1
      <4>1. call'.reads[i] = found
        BY <1>2, <1>3, <1>10, <3>1
      <4>2. found \in held[key]
        BY <1>1, <1>5 DEF EngineInv, SeenInv
      <4> QED
        BY <1>4, <1>9, <3>1, <4>1, <4>2
    <3>2. CASE i # n + 1
      <4>1. i \in 1 .. n /\ call'.reads[i] = call.reads[i] /\ call.args[i] \in Keys
        BY <1>2, <1>3, <1>10, <3>2
      <4>2. call.reads[i] \in held[call.args[i]]
        BY <1>1, <1>2, <1>3, <4>1 DEF EngineInv, ReadsInv
      <4> QED
        BY <1>9, <4>1, <4>2
    <3> QED
      BY <3>1, <3>2
  <2>3. n + 1 <= Len(call.args)
    BY <1>2, <1>3
  <2> QED
    BY <1>10, <2>1, <2>2, <2>3 DEF ReadsInv
<1> QED
  BY <1>11, <1>12, <1>13, <1>14 DEF EngineInv

(* A finished operation leaves its caller idle.                            *)
LEMMA FinishKeeps ==
  ASSUME EngineInv, Finish
  PROVE  EngineInv'
<1>1. /\ call' = Idle /\ cursor' = 0 /\ returned' = <<>> /\ since' = 0
      /\ held' = [k \in Keys |-> {}] /\ UNCHANGED <<map, now>>
  BY DEF Finish
<1>2. TypeInv'
  BY <1>1, EngineAssumption DEF EngineInv, TypeInv, Slots
<1>3. call'.op = "idle" /\ call' \notin ScanCalls \cup MultiCalls
  BY <1>1 DEF Idle, ScanCalls, MultiCalls
<1> QED
  BY <1>1, <1>2, <1>3 DEF EngineInv, SeenInv, ScanInv, ReadsInv

(* Every step keeps the invariant.                                         *)
LEMMA EngineStep ==
  ASSUME EngineInv, [Next]_vars
  PROVE  EngineInv'
<1>1. CASE UNCHANGED vars
  BY <1>1 DEF vars, EngineInv, TypeInv, SeenInv, ScanInv, ReadsInv
<1>2. CASE Next
  BY <1>2, TickKeeps, WriteKeeps, StartScanKeeps, NextScanCallKeeps, ScanSlotKeeps,
     StartMultiKeeps, NextKeyStepKeeps, FinishKeeps, SweepTickKeeps, SweepSlotKeeps
     DEF Next, Command, Scan, Sweeper
<1> QED
  BY <1>1, <1>2

(* The invariant holds in every state.                                     *)
LEMMA EngineAlways == Spec => []EngineInv
<1>1. Init => EngineInv
  BY InitKeeps
<1>2. EngineInv /\ [Next]_vars => EngineInv'
  BY EngineStep
<1> QED
  BY <1>1, <1>2, PTL DEF Spec

(* A finished scan has returned every key that was live and selected all   *)
(* the time from its first call to its last, for every number of slots,    *)
(* COUNT and filter and whatever is written between two visits.            *)
THEOREM ScansFindStableKeys == Spec => []ScanFindsStable
<1>1. EngineInv => ScanFindsStable
  <2> SUFFICES ASSUME EngineInv, call.op = "scanned", NEW k \in Keys,
                      \A c \in held[k] : Selects(k, c)
               PROVE  \E i \in DOMAIN returned : returned[i] = k
    BY DEF ScanFindsStable
  <2>1. Complete(returned, 0, NSlots, call.filter, held)
    BY DEF EngineInv, ScanInv, Block
  <2>2. 0 <= SlotForKey[k] /\ SlotForKey[k] < NSlots
    BY EngineAssumption DEF Slots
  <2> QED
    BY <2>1, <2>2 DEF Complete, Selects
<1> QED
  BY <1>1, EngineAlways, PTL

(* A scan returns no key twice, and only keys that were live and selected  *)
(* at some time during it, however its calls are cut.                      *)
THEOREM ScansReturnHeldKeysOnce == Spec => []ScanReturnsHeldOnce
<1>1. EngineInv => ScanReturnsHeldOnce
  <2> SUFFICES ASSUME EngineInv, Scans
               PROVE  \A i \in DOMAIN returned :
                        /\ \E c \in held[returned[i]] : Selects(returned[i], c)
                        /\ \A j \in DOMAIN returned \ {i} : returned[i] # returned[j]
    BY DEF ScanReturnsHeldOnce
  <2>1. Selected(returned, call.filter, held) /\ Distinct(returned)
    BY DEF EngineInv, ScanInv, Block, Scans
  <2> QED
    BY <2>1 DEF Selected, Distinct, Selects
<1> QED
  BY <1>1, EngineAlways, PTL

(* What EXISTS, MGET and DEL report of a key, it held at some time during  *)
(* the call, and they count no more keys than held something then.         *)
THEOREM ReadsWereHeld == Spec => []ReadsAreHeld
<1>1. EngineInv => ReadsAreHeld
  <2> SUFFICES ASSUME EngineInv, call.op \in {"exists", "mget", "del"}
               PROVE  ReadsAreHeld
    BY DEF ReadsAreHeld
  <2>1. /\ Len(call.reads) <= Len(call.args)
        /\ \A i \in DOMAIN call.reads : call.reads[i] \in held[call.args[i]]
    BY DEF EngineInv, ReadsInv
  <2>2. call \in MultiCalls
    BY DEF EngineInv, TypeInv, Idle, ScanCalls, PausedCalls
  <2>3. call.args \in Seq(Keys) /\ call.reads \in Seq(Answers)
    BY <2>2, EngineAssumption DEF MultiCalls
  <2>4. \A i \in DOMAIN MGetReply :
          MGetReply[i] \in Strings \/ \E c \in held[call.args[i]] : c \notin Strings
    BY <2>1 DEF MGetReply
  <2>5. CountReply <= Cardinality({i \in DOMAIN call.args : \E c \in held[call.args[i]] : c # Nil})
    <3> DEFINE A == {i \in DOMAIN call.reads : call.reads[i] # Nil}
               B == {i \in DOMAIN call.args : \E c \in held[call.args[i]] : c # Nil}
    <3>1. A \subseteq B
      BY <2>1, <2>3
    <3>2. PICK n \in Nat : n = Len(call.args)
      BY <2>3
    <3>3. B \subseteq 1 .. n
      BY <2>3, <3>2
    <3>4. IsFiniteSet(1 .. n)
      BY <3>2, FS_Interval
    <3> HIDE DEF A, B
    <3>5. IsFiniteSet(B)
      BY <3>3, <3>4, FS_Subset
    <3>6. Cardinality(A) <= Cardinality(B)
      BY <3>1, <3>5, FS_Subset
    <3> QED
      BY <3>6 DEF CountReply, A, B
  <2> QED
    BY <2>1, <2>4, <2>5 DEF ReadsAreHeld
<1> QED
  BY <1>1, EngineAlways, PTL
=============================================================================
