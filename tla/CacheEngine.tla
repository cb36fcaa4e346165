---------------------------- MODULE CacheEngine ----------------------------
(***************************************************************************)
(* The keyspace over all slots (src/src/cache/cache_engine.cpp) and the    *)
(* operations that cross slots: SCAN, whose cursor lives in the client     *)
(* between calls, EXISTS, MGET and DEL of several keys, and the sweeper's  *)
(* round robin.  A visit of one slot is one step, as HashSlot's refinement *)
(* of AtomicSlot justifies; between two visits other clients write.  A     *)
(* command reads the clock once, when it starts.                           *)
(***************************************************************************)
EXTENDS Naturals, Sequences, FiniteSets
LOCAL INSTANCE FiniteSetsExt

CONSTANTS
  Keys,
  NSlots,          \* SlotCount()
  SlotForKey,      \* common::SlotForKey, a function on Keys
  Contents,        \* what an object can hold
  Strings,         \* the contents of type string
  Deadlines,       \* the deadlines a write may set besides none
  Counts,          \* SCAN's COUNT
  Filters,         \* what MATCH and TYPE can select, sets of <<key, content>>
  KeyLists,        \* the arguments of EXISTS, MGET and DEL
  SlotsPerTick,    \* slots_per_tick_
  MaxExpiredKeysPerSlot,  \* kMaxExpiredKeysPerSlot
  InitialMaps,     \* what the keyspace may hold at first
  MaxTime, MaxWrites      \* bounds on the clock and the other clients' writes

Slots == 0..(NSlots - 1)
Nil == "nil"
Absent == [content |-> Nil, deadline |-> 0]
Objects == [content : Contents, deadline : {0} \cup Deadlines]

ASSUME EngineAssumption ==
  /\ IsFiniteSet(Keys)
  /\ NSlots \in Nat \ {0} /\ SlotForKey \in [Keys -> Slots]
  /\ Strings \subseteq Contents /\ Nil \notin Contents
  /\ Deadlines \subseteq Nat \ {0} /\ SlotsPerTick \in Nat /\ MaxExpiredKeysPerSlot \in Nat
  /\ Counts \subseteq Nat /\ Filters \subseteq SUBSET (Keys \X Contents)
  /\ KeyLists \subseteq Seq(Keys)
  /\ InitialMaps \subseteq [Keys -> Objects \cup {Absent}]

VARIABLES
  map,       \* the object under each key
  now,       \* the clock
  writes,    \* how often other clients have written
  call,      \* the observed command, op "idle" when there is none
  cursor,    \* the cursor the client will send with its next SCAN
  returned,  \* the keys its SCAN calls have returned so far
  since,     \* when the observed command or scan started
  held,      \* what each key has held, unexpired, since then
  sweep      \* ExpireSweeper: next_slot_, visits left in this tick, its time

vars == <<map, now, writes, call, cursor, returned, since, held, sweep>>

Idle == [op |-> "idle"]

IsExpired(o, t) == o.deadline # 0 /\ o.deadline <= t

\* CacheEngine::Get at time t, Nil when there is no live object.
Read(m, k, t) == IF IsExpired(m[k], t) THEN Nil ELSE m[k].content

InSlot(s) == {k \in Keys : SlotForKey[k] = s}

\* A visit of everything the map holds.
Stored(s, t) == {k \in InSlot(s) : map[k] # Absent}

\* ForEachLiveObject.
Live(s, t) == {k \in InSlot(s) : Read(map, k, t) # Nil}

\* History: every step during a command adds what each key holds after it.
Observe ==
  held' = IF call = Idle THEN held
          ELSE [k \in Keys |-> held[k] \cup {Read(map', k, t) : t \in since..now'}]

\* A new observation starts with the present.
ObserveFromNow ==
  /\ since' = now
  /\ held' = [k \in Keys |-> {Read(map, k, now)}]

Init ==
  /\ map \in InitialMaps
  /\ now = 0 /\ writes = 0
  /\ call = Idle
  /\ cursor = 0
  /\ returned = <<>>
  /\ since = 0
  /\ held = [k \in Keys |-> {}]
  /\ sweep = [nextSlot |-> 0, left |-> 0, at |-> 0]

\* Another client replaces or deletes an object, or sets its deadline.  It may
\* have read the clock long before, so the deadline may have passed already.
Write(k) ==
  /\ writes < MaxWrites
  /\ writes' = writes + 1
  /\ \E o \in Objects \cup {Absent} : map' = [map EXCEPT ![k] = o]
  /\ UNCHANGED <<now, call, cursor, returned, since, sweep>>
  /\ Observe

Tick ==
  /\ now < MaxTime
  /\ now' = now + 1
  /\ UNCHANGED map
  /\ Observe
  /\ UNCHANGED <<writes, call, cursor, returned, since, sweep>>

-----------------------------------------------------------------------------
\* A SCAN call.  Cursor 0 starts a scan; the client keeps COUNT and filters.
StartScan ==
  /\ call = Idle
  /\ \E count \in Counts, filter \in Filters :
       call' = [op |-> "scan", count |-> count, filter |-> filter, slot |-> 0,
                stamp |-> now, scanned |-> 0, found |-> <<>>]
  /\ cursor' = 0
  /\ returned' = <<>>
  /\ ObserveFromNow
  /\ UNCHANGED <<map, now, writes, sweep>>

\* A cursor taken for the last slot that was visited.
ResumesAtLastSlot ==
  /\ call.op = "scanning"
  /\ call' = [op |-> "scan", count |-> call.count, filter |-> call.filter,
              slot |-> cursor - 1, stamp |-> now, scanned |-> 0, found |-> <<>>]
  /\ UNCHANGED <<map, now, writes, cursor, returned, since, held, sweep>>

\* The client sends the cursor of the last reply.
NextScanCall ==
  /\ call.op = "scanning"
  /\ call' = [op |-> "scan", count |-> call.count, filter |-> call.filter,
              slot |-> cursor, stamp |-> now, scanned |-> 0, found |-> <<>>]
  /\ UNCHANGED <<map, now, writes, cursor, returned, since, held, sweep>>

Matching(visited) == {k \in visited : <<k, map[k].content>> \in call.filter}

\* The orders in which a visit may come to these keys, each once.
Orders(keys) ==
  {s \in [1..Cardinality(keys) -> keys] :
     /\ \A k \in keys : \E i \in DOMAIN s : s[i] = k
     /\ \A i, j \in DOMAIN s : s[i] = s[j] => i = j}

\* The reply's cursor when a call stops before `slot`.
NextCursor(slot) == IF slot >= NSlots THEN 0 ELSE slot

\* The call ends when it has scanned `count` keys or the last slot.
CallEnds(scanned, slot) == scanned >= call.count \/ slot >= NSlots

Reply(found, slot) ==
  /\ returned' = returned \o found
  /\ cursor' = NextCursor(slot)
  /\ call' = [op |-> IF NextCursor(slot) = 0 THEN "scanned" ELSE "scanning",
              count |-> call.count, filter |-> call.filter]

\* A visit that stops in the middle of a slot when it has enough keys.
ScanPartOfSlot ==
  /\ call.op = "scan"
  /\ LET live == Live(call.slot, call.stamp)
         take == Min({Cardinality(live), Max({1, call.count}) - call.scanned})
         visited == CHOOSE v \in SUBSET live : Cardinality(v) = take
         scanned == call.scanned + Cardinality(visited)
     IN \E order \in Orders(Matching(visited)) :
          IF CallEnds(scanned, call.slot + 1)
          THEN Reply(call.found \o order, call.slot + 1)
          ELSE /\ call' = [call EXCEPT !.slot = @ + 1, !.scanned = scanned,
                                       !.found = @ \o order]
               /\ UNCHANGED <<cursor, returned>>
  /\ UNCHANGED <<map, now, writes, since, held, sweep>>

\* ExecuteScan visits a slot: all of its live objects are scanned, those that
\* pass TYPE and MATCH are returned.
ScanSlot ==
  /\ call.op = "scan"
  /\ LET visited == Live(call.slot, call.stamp)
         scanned == call.scanned + Cardinality(visited)
     IN \E order \in Orders(Matching(visited)) :
          IF CallEnds(scanned, call.slot + 1)
          THEN Reply(call.found \o order, call.slot + 1)
          ELSE /\ call' = [call EXCEPT !.slot = @ + 1, !.scanned = scanned,
                                       !.found = @ \o order]
               /\ UNCHANGED <<cursor, returned>>
  /\ UNCHANGED <<map, now, writes, since, held, sweep>>

-----------------------------------------------------------------------------
\* EXISTS, MGET and DEL of several keys, one key after the other.
StartMulti ==
  /\ call = Idle
  /\ \E op \in {"exists", "mget", "del"}, args \in KeyLists :
       call' = [op |-> op, args |-> args, stamp |-> now, reads |-> <<>>]
  /\ ObserveFromNow
  /\ UNCHANGED <<map, now, writes, cursor, returned, sweep>>

NextKey == call.args[Len(call.reads) + 1]

\* A step that erases what the command's time no longer shows.
NextKeyStepErases ==
  /\ call.op \in {"exists", "mget", "del"}
  /\ Len(call.reads) < Len(call.args)
  /\ call' = [call EXCEPT !.reads = Append(@, map[NextKey].content)]
  /\ map' = IF call.op = "del" THEN [map EXCEPT ![NextKey] = Absent] ELSE map
  /\ UNCHANGED <<now, writes, cursor, returned, since, sweep>>
  /\ Observe

\* Get, or Del, of the next key; an object expired at the command's time is
\* neither counted nor erased.
NextKeyStep ==
  /\ call.op \in {"exists", "mget", "del"}
  /\ Len(call.reads) < Len(call.args)
  /\ LET found == Read(map, NextKey, call.stamp)
     IN /\ call' = [call EXCEPT !.reads = Append(@, found)]
        /\ map' = IF call.op = "del" /\ found # Nil
                  THEN [map EXCEPT ![NextKey] = Absent] ELSE map
  /\ UNCHANGED <<now, writes, cursor, returned, since, sweep>>
  /\ Observe

\* The integer EXISTS and DEL answer, and the elements MGET answers.
CountReply == Cardinality({i \in DOMAIN call.reads : call.reads[i] # Nil})

MGetReply == [i \in DOMAIN call.reads |-> IF call.reads[i] \in Strings THEN call.reads[i] ELSE Nil]

Finished == call.op = "scanned" \/ (call.op \in {"exists", "mget", "del"}
                                     /\ Len(call.reads) = Len(call.args))

Finish ==
  /\ Finished
  /\ call' = Idle
  /\ cursor' = 0 /\ returned' = <<>>
  /\ since' = 0 /\ held' = [k \in Keys |-> {}]
  /\ UNCHANGED <<map, now, writes, sweep>>

-----------------------------------------------------------------------------
\* SweepOnce begins: it takes the time once for all its slots.
SweepTick ==
  /\ sweep.left = 0
  /\ sweep' = [sweep EXCEPT !.left = SlotsPerTick, !.at = now]
  /\ UNCHANGED <<map, now, writes, call, cursor, returned, since, held>>

\* A tick that starts over at the first slot.
AdvanceFromZero == IF sweep.left = 1 THEN 0 ELSE (sweep.nextSlot + 1) % NSlots

Advance == (sweep.nextSlot + 1) % NSlots

\* DeleteExpiredInSlot removes at most MaxExpiredKeysPerSlot expired objects.
SweepSlot ==
  /\ sweep.left > 0
  /\ LET expired == {k \in InSlot(sweep.nextSlot) : IsExpired(map[k], sweep.at)}
     IN \E doomed \in SUBSET expired :
          /\ Cardinality(doomed) = Min({Cardinality(expired), MaxExpiredKeysPerSlot})
          /\ map' = [k \in Keys |-> IF k \in doomed THEN Absent ELSE map[k]]
  /\ sweep' = [sweep EXCEPT !.nextSlot = Advance, !.left = @ - 1]
  /\ UNCHANGED <<now, writes, call, cursor, returned, since>>
  /\ Observe

Scan == NextScanCall \/ ScanSlot
Command == StartScan \/ Scan \/ StartMulti \/ NextKeyStep \/ Finish
Sweeper == SweepTick \/ SweepSlot

Next == Tick \/ (\E k \in Keys : Write(k)) \/ Command \/ Sweeper

Spec == Init /\ [][Next]_vars

\* The sweeper thread never stops, and a client that scans goes on calling.
FairSpec == Spec /\ WF_vars(Scan) /\ WF_vars(Sweeper)

-----------------------------------------------------------------------------
Scans == call.op \in {"scan", "scanning", "scanned"}

Selects(k, content) == <<k, content>> \in call.filter

\* A finished scan has returned every key that was live and selected all the
\* time from its first call to its last.
ScanFindsStable ==
  call.op = "scanned" =>
    \A k \in Keys : (\A c \in held[k] : Selects(k, c)) => \E i \in DOMAIN returned : returned[i] = k

\* However its calls are cut by COUNT and whatever is written meanwhile, a scan
\* returns no key twice, and only keys that were live and selected at some time
\* during it.
ScanReturnsHeldOnce ==
  Scans => \A i \in DOMAIN returned :
    /\ \E c \in held[returned[i]] : Selects(returned[i], c)
    /\ \A j \in DOMAIN returned \ {i} : returned[i] # returned[j]

\* What EXISTS, MGET and DEL report of a key, it held at some time during the
\* call; so a key nobody touches is reported as it is, though the keys of one
\* call are not read at one time.
ReadsAreHeld ==
  call.op \in {"exists", "mget", "del"} =>
    /\ \A i \in DOMAIN call.reads : call.reads[i] \in held[call.args[i]]
    /\ \A i \in DOMAIN MGetReply :
         MGetReply[i] \in Strings \/ \E c \in held[call.args[i]] : c \notin Strings
    /\ CountReply <= Cardinality({i \in DOMAIN call.args : \E c \in held[call.args[i]] : c # Nil})

\* Every scan ends, whatever is written while it runs and whatever its COUNT.
ScanEnds == (call.op \in {"scan", "scanning"}) ~> (call.op = "scanned")

\* An expired object of any slot does not stay for ever, though a tick visits
\* a few slots and takes a few keys of each.
EverySlotSwept == \A k \in Keys : IsExpired(map[k], now) ~> ~IsExpired(map[k], now)
=============================================================================
