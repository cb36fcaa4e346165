------------------------------ MODULE SlotCommands ------------------------------
(***************************************************************************)
(* The objects a hash slot stores, every command that changes them, and    *)
(* the replay of a logged command on a replica, as pure operators.         *)
(*                                                                         *)
(* A command's mutator is an operator on the live object under its key     *)
(* (old, None when there is none): the set of its possible results, empty  *)
(* when the slot is left alone.  Times and deadlines are uint64            *)
(* microseconds bounded by MaxU64; 0 means "no deadline".  A text is a     *)
(* member of Strings; only its integer value and concatenation matter.  A  *)
(* score is an integer and a sum beyond MaxScore is not finite.            *)
(***************************************************************************)
EXTENDS Integers, FiniteSets, Sequences

CONSTANTS
    Keys,                  \* the keys that hash to this slot
    Members,               \* set and sorted-set members, hash fields
    Strings,               \* the values of strings and of hash fields
    None,                  \* an absent object, field or number
    MaxU64,                \* numeric_limits<uint64_t>::max()
    MicrosPerSecond,       \* kMicrosPerSecond
    MicrosPerMillisecond,  \* kMicrosPerMillisecond
    MinI64, MaxI64,        \* numeric_limits<int64_t>
    MaxScore,              \* the largest finite score
    IntegerOf,             \* strtoll: the integer a text stands for, or None
    TextOf,                \* std::to_string
    Joined                 \* std::string::append

Deadlines == 0 .. MaxU64
I64 == MinI64 .. MaxI64
Scores == -MaxScore .. MaxScore

(* An object: RedisObject.  A hash or sorted set gives every member its    *)
(* value or score, None when the member is absent.                         *)
StringObject == [type : {"string"}, value : Strings, deadline : Deadlines]
SetObject == [type : {"set"}, value : SUBSET Members, deadline : Deadlines]
HashObject == [type : {"hash"}, value : [Members -> Strings \cup {None}], deadline : Deadlines]
ZSetObject == [type : {"zset"}, value : [Members -> Scores \cup {None}], deadline : Deadlines]
Object == StringObject \cup SetObject \cup HashObject \cup ZSetObject

ObjectMap == [Keys -> Object \cup {None}]

EmptyMap == [k \in Keys |-> None]

ASSUME KeysAssumption == Keys # {} /\ Strings # {}
ASSUME NoneAssumption == None \notin Object /\ None \notin Strings /\ None \notin Int
ASSUME TimeAssumption ==
    /\ MaxU64 \in Nat \ {0}
    /\ MicrosPerSecond \in Nat \ {0}
    /\ MicrosPerMillisecond \in Nat \ {0}
ASSUME TextAssumption ==
    /\ MinI64 \in Int /\ MaxI64 \in Int /\ 0 \in I64
    /\ MaxScore \in Nat
    /\ IntegerOf \in [Strings -> I64 \cup {None}]
    /\ TextOf \in [I64 -> Strings]
    /\ Joined \in [Strings \X Strings -> Strings]

IsExpired(obj, now) == obj.deadline # 0 /\ now >= obj.deadline

WithDeadline(obj, deadline) == [obj EXCEPT !.deadline = deadline]

(* Mutant: an expired object is handed to the mutator.                     *)
ExistingOrExpired(map, k, now) == map[k]

(* The live object under a key, as the std::optional handed to a mutator:  *)
(* an object past its deadline is still stored but counts as absent.       *)
Existing(map, k, now) ==
    IF map[k] # None /\ ~IsExpired(map[k], now) THEN map[k] ELSE None

-----------------------------------------------------------------------------
(* Commands.  members are the members or fields of SADD, SREM, HDEL and    *)
(* ZREM; fields and scores the pairs of HSET, HMSET, HINCRBY and of ZADD,  *)
(* ZINCRBY, in order; val the text of a string command; num the amount of  *)
(* EXPIRE, of SET's expiry option and of SPOP; opts and unit the options   *)
(* of SET and ZADD.  INCR and DECR are INCRBY and DECRBY of the text 1.    *)
(* SWEEP is not a client command: it is the sweeper's deletion of one      *)
(* expired key.                                                            *)
SetOps == {"SADD", "SREM", "SPOP"}
HashOps == {"HSET", "HMSET", "HDEL", "HINCRBY"}
ZSetOps == {"ZADD", "ZREM", "ZINCRBY"}
StringOps == {"SET", "SETNX", "GETSET", "APPEND", "INCRBY", "DECRBY"}
MutatorOps == SetOps \cup HashOps \cup ZSetOps \cup StringOps
Ops == MutatorOps \cup {"DEL", "EXPIRE", "SWEEP"}
Options == {"NX", "XX", "GET", "KEEPTTL", "GT", "LT", "CH", "INCR"}
Units == {"none", "EX", "PX", "EXAT", "PXAT"}

FieldPair == [member : Members, val : Strings]
ScorePair == [member : Members, score : Scores]

Command ==
    [op : Ops, key : Keys, members : SUBSET Members, fields : Seq(FieldPair),
     scores : Seq(ScorePair), val : Strings, num : Int, opts : SUBSET Options,
     unit : Units]

Cmd(op, k, members) ==
    [op |-> op, key |-> k, members |-> members, fields |-> <<>>, scores |-> <<>>,
     val |-> CHOOSE s \in Strings : TRUE, num |-> 0, opts |-> {}, unit |-> "none"]

DeadlineOf(obj) == IF obj = None THEN 0 ELSE obj.deadline

(* What a mutator returns: the object to store (None: erase the key) and   *)
(* the command to log.                                                     *)
MutationResult == [obj : Object \cup {None}, cmd : Command]

StoreAs(type, value, deadline, logged) ==
    [obj |-> [type |-> type, value |-> value, deadline |-> deadline], cmd |-> logged]

EraseKey(logged) == [obj |-> None, cmd |-> logged]

WrongType(old, type) == old # None /\ old.type # type

NoFields == [m \in Members |-> None]

HasContent(obj) ==
    /\ obj.type = "set" => obj.value # {}
    /\ obj.type \in {"hash", "zset"} => obj.value # NoFields

-----------------------------------------------------------------------------
(* Sets.                                                                   *)

MembersOf(old) == IF old = None THEN {} ELSE old.value

(* SADD: adds the members that are missing, keeps the deadline.            *)
SAdd(c, old) ==
    IF c.members \subseteq MembersOf(old)
    THEN {}
    ELSE {StoreAs("set", MembersOf(old) \cup c.members, DeadlineOf(old), c)}

(* Mutant: an emptied set stays in the slot.                               *)
KeepEmptySet(old, picked, logged) ==
    StoreAs("set", old.value \ picked, old.deadline, logged)

(* Removes the members in picked; an emptied set is erased from the slot.  *)
RemoveMembers(old, picked, logged) ==
    IF old.value \subseteq picked
    THEN EraseKey(logged)
    ELSE StoreAs("set", old.value \ picked, old.deadline, logged)

SRem(c, old) ==
    IF MembersOf(old) \cap c.members = {} THEN {} ELSE {RemoveMembers(old, c.members, c)}

(* What a random choice of n different members may give, all if n is large. *)
PickUniqueMembers(set, n) ==
    {S \in SUBSET set :
        /\ S # {}
        /\ Cardinality(S) = IF n < Cardinality(set) THEN n ELSE Cardinality(set)}

(* Mutant: SPOP logs itself, so a replica picks another member.            *)
SPopLogsItself(c, old) ==
    IF c.num <= 0 \/ old = None
    THEN {}
    ELSE {RemoveMembers(old, S, c) : S \in PickUniqueMembers(old.value, c.num)}

(* SPOP picks members at random and logs the SREM of what it picked.       *)
SPop(c, old) ==
    IF c.num <= 0 \/ old = None
    THEN {}
    ELSE {RemoveMembers(old, S, Cmd("SREM", c.key, S)) :
            S \in PickUniqueMembers(old.value, c.num)}

-----------------------------------------------------------------------------
(* Deadlines.  EXPIRE saturates at MaxU64; SET refuses to overflow.        *)

SaturatingTtlUs(num) ==
    IF num > MaxU64 \div MicrosPerSecond THEN MaxU64 ELSE num * MicrosPerSecond

(* Mutant: the sum is not capped.                                          *)
UncappedDeadlineUs(now, ttl) == now + ttl

SaturatingDeadlineUs(now, ttl) ==
    IF ttl > MaxU64 - now THEN MaxU64 ELSE now + ttl

MultiplyOverflows(amount, multiplier) == amount > MaxU64 \div multiplier
AddOverflows(left, right) == right > MaxU64 - left

UnitMicros(unit) ==
    IF unit \in {"EX", "EXAT"} THEN MicrosPerSecond ELSE MicrosPerMillisecond

IsRelative(unit) == unit \in {"EX", "PX"}

(* An amount must be positive and its deadline must fit in 64 bits.        *)
ExpirationError(c, now) ==
    \/ c.num <= 0
    \/ MultiplyOverflows(c.num, UnitMicros(c.unit))
    \/ IsRelative(c.unit) /\ AddOverflows(now, c.num * UnitMicros(c.unit))

ComputeDeadline(c, now) ==
    (IF IsRelative(c.unit) THEN now ELSE 0) + c.num * UnitMicros(c.unit)

(* NX excludes XX and GET, KEEPTTL excludes an expiry option.              *)
SetOptionError(c, now) ==
    \/ {"NX", "XX"} \subseteq c.opts
    \/ {"NX", "GET"} \subseteq c.opts
    \/ c.unit # "none" /\ ("KEEPTTL" \in c.opts \/ ExpirationError(c, now))

(* An absolute deadline may lie in the past: the object is stored expired. *)
SetDeadline(c, old, now) ==
    IF c.unit # "none" THEN ComputeDeadline(c, now)
    ELSE IF "KEEPTTL" \in c.opts THEN DeadlineOf(old) ELSE 0

-----------------------------------------------------------------------------
(* Strings.                                                                *)

SetCmd(c, old, now) ==
    IF ("NX" \in c.opts /\ old # None) \/ ("XX" \in c.opts /\ old = None)
    THEN {}
    ELSE {StoreAs("string", c.val, SetDeadline(c, old, now), c)}

SetNx(c, old) == IF old # None THEN {} ELSE {StoreAs("string", c.val, 0, c)}

(* GETSET drops the deadline, APPEND and the increments keep it.           *)
GetSet(c, old) == {StoreAs("string", c.val, 0, c)}

AppendTo(c, old) ==
    {StoreAs("string", IF old = None THEN c.val ELSE Joined[<<old.value, c.val>>],
             DeadlineOf(old), c)}

ParseInt64(text) == IntegerOf[text]

CheckedAddFails(left, right) ==
    \/ right > 0 /\ left > MaxI64 - right
    \/ right < 0 /\ left < MinI64 - right

CheckedSubtractFails(left, right) ==
    \/ right > 0 /\ left < MinI64 + right
    \/ right < 0 /\ left > MaxI64 + right

CurrentInteger(old) == IF old = None THEN 0 ELSE ParseInt64(old.value)

IntegerError(c, old) ==
    \/ ParseInt64(c.val) = None
    \/ CurrentInteger(old) = None
    \/ IF c.op = "INCRBY" THEN CheckedAddFails(CurrentInteger(old), ParseInt64(c.val))
                          ELSE CheckedSubtractFails(CurrentInteger(old), ParseInt64(c.val))

IntegerMutation(c, old) ==
    {StoreAs("string",
             TextOf[IF c.op = "INCRBY" THEN CurrentInteger(old) + ParseInt64(c.val)
                                       ELSE CurrentInteger(old) - ParseInt64(c.val)],
             DeadlineOf(old), c)}

-----------------------------------------------------------------------------
(* Hashes.                                                                 *)

FieldsOf(old) == IF old = None THEN NoFields ELSE old.value

(* The last pair that names the field, as a set of at most one index.      *)
LastPairOf(pairs, f) ==
    {i \in 1 .. Len(pairs) :
        pairs[i].member = f /\ \A j \in i + 1 .. Len(pairs) : pairs[j].member # f}

(* The pairs are applied in order: the last one for a field wins.          *)
ApplyFieldValuePairs(pairs, hash) ==
    [f \in Members |->
        IF LastPairOf(pairs, f) = {} THEN hash[f]
        ELSE pairs[CHOOSE i \in LastPairOf(pairs, f) : TRUE].val]

(* HSET and HMSET write, and log, even when no value differs.              *)
HSet(c, old) ==
    {StoreAs("hash", ApplyFieldValuePairs(c.fields, FieldsOf(old)), DeadlineOf(old), c)}

(* HDEL and ZREM: an emptied hash or sorted set is erased from the slot.   *)
Without(fields, members) == [m \in Members |-> IF m \in members THEN None ELSE fields[m]]

RemoveFields(type, c, old) ==
    IF \A m \in c.members : FieldsOf(old)[m] = None THEN {}
    ELSE IF Without(old.value, c.members) = NoFields THEN {EraseKey(c)}
    ELSE {StoreAs(type, Without(old.value, c.members), old.deadline, c)}

CurrentField(c, old) ==
    LET text == FieldsOf(old)[c.fields[1].member]
    IN  IF text = None THEN 0 ELSE ParseInt64(text)

AddWouldOverflow(current, increment) ==
    \/ increment > 0 /\ current > MaxI64 - increment
    \/ increment < 0 /\ current < MinI64 - increment

HIncrByError(c, old) ==
    \/ ParseInt64(c.fields[1].val) = None
    \/ CurrentField(c, old) = None
    \/ AddWouldOverflow(CurrentField(c, old), ParseInt64(c.fields[1].val))

HIncrBy(c, old) ==
    {StoreAs("hash",
             [FieldsOf(old) EXCEPT ![c.fields[1].member] =
                TextOf[CurrentField(c, old) + ParseInt64(c.fields[1].val)]],
             DeadlineOf(old), c)}

-----------------------------------------------------------------------------
(* Sorted sets.                                                            *)

ZAddOptionError(c) ==
    \/ {"NX", "XX"} \subseteq c.opts
    \/ {"NX", "GT"} \subseteq c.opts
    \/ {"NX", "LT"} \subseteq c.opts
    \/ {"GT", "LT"} \subseteq c.opts
    \/ "INCR" \in c.opts /\ Len(c.scores) # 1

(* May a pair set the score of a member whose score is current?            *)
Admits(opts, current, score) ==
    IF current = None THEN "XX" \notin opts
    ELSE /\ "NX" \notin opts
         /\ "GT" \in opts => score > current
         /\ "LT" \in opts => score < current

(* Of two admitted pairs for one member, does the one at j override the    *)
(* one at i?  NX takes the first, GT the greatest, LT the least and ZADD   *)
(* without a condition the last.                                           *)
Overrides(opts, pairs, j, i) ==
    IF "NX" \in opts THEN j < i
    ELSE IF "GT" \in opts THEN pairs[j].score > pairs[i].score
    ELSE IF "LT" \in opts THEN pairs[j].score < pairs[i].score
    ELSE j > i

DecidingPairs(opts, pairs, zset, m) ==
    LET admitted == {i \in 1 .. Len(pairs) :
                        pairs[i].member = m /\ Admits(opts, zset[m], pairs[i].score)}
    IN  {i \in admitted : \A j \in admitted : ~Overrides(opts, pairs, j, i)}

(* The sorted set after the pairs were applied one after the other.        *)
ApplyScorePairs(opts, pairs, zset) ==
    [m \in Members |->
        IF DecidingPairs(opts, pairs, zset, m) = {} THEN zset[m]
        ELSE pairs[CHOOSE i \in DecidingPairs(opts, pairs, zset, m) : TRUE].score]

(* ... which counts as a change when some pair alone changes a score.      *)
ScoresChange(opts, pairs, zset) ==
    \E i \in 1 .. Len(pairs) :
        /\ Admits(opts, zset[pairs[i].member], pairs[i].score)
        /\ zset[pairs[i].member] # pairs[i].score

ZAdd(c, old) ==
    IF ~ScoresChange(c.opts, c.scores, FieldsOf(old))
    THEN {}
    ELSE {StoreAs("zset", ApplyScorePairs(c.opts, c.scores, FieldsOf(old)),
                  DeadlineOf(old), c)}

CurrentScore(c, old) == FieldsOf(old)[c.scores[1].member]

NextScore(c, old) ==
    (IF CurrentScore(c, old) = None THEN 0 ELSE CurrentScore(c, old)) + c.scores[1].score

(* NX and XX are looked at before the sum, GT and LT after it.             *)
ZIncrPrevented(c, old) ==
    IF CurrentScore(c, old) = None THEN "XX" \in c.opts ELSE "NX" \in c.opts

ZIncrError(c, old) == ~ZIncrPrevented(c, old) /\ NextScore(c, old) \notin Scores

(* ZINCRBY and ZADD ... INCR.                                              *)
IncrementZSetMember(c, old) ==
    IF \/ ZIncrPrevented(c, old)
       \/ ~Admits(c.opts, CurrentScore(c, old), NextScore(c, old))
       \/ NextScore(c, old) = CurrentScore(c, old)
    THEN {}
    ELSE {StoreAs("zset",
                  [FieldsOf(old) EXCEPT ![c.scores[1].member] = NextScore(c, old)],
                  DeadlineOf(old), c)}

IsZIncr(c) == c.op = "ZINCRBY" \/ (c.op = "ZADD" /\ "INCR" \in c.opts)

-----------------------------------------------------------------------------
(* Execution.                                                              *)

ArityError(c) ==
    \/ c.op \in {"SADD", "SREM", "HDEL", "ZREM"} /\ c.members = {}
    \/ c.op \in {"HSET", "HMSET"} /\ Len(c.fields) = 0
    \/ c.op = "HINCRBY" /\ Len(c.fields) # 1
    \/ c.op = "ZADD" /\ Len(c.scores) = 0
    \/ c.op = "ZINCRBY" /\ (Len(c.scores) # 1 \/ c.opts # {})

TypeError(c, old) ==
    \/ c.op \in SetOps /\ WrongType(old, "set")
    \/ c.op \in HashOps /\ WrongType(old, "hash")
    \/ c.op \in ZSetOps /\ WrongType(old, "zset")
    \/ c.op \in StringOps \ {"SET", "SETNX"} /\ WrongType(old, "string")
    \/ c.op = "SET" /\ "GET" \in c.opts /\ WrongType(old, "string")

(* The error replies; a replica that gets one gives up on the record.      *)
IsError(c, old, now) ==
    \/ ArityError(c)
    \/ TypeError(c, old)
    \/ c.op = "SPOP" /\ c.num < 0
    \/ c.op = "SET" /\ SetOptionError(c, now)
    \/ c.op \in {"INCRBY", "DECRBY"} /\ IntegerError(c, old)
    \/ c.op = "HINCRBY" /\ HIncrByError(c, old)
    \/ c.op = "ZADD" /\ ZAddOptionError(c)
    \/ IsZIncr(c) /\ ZIncrError(c, old)

Mutator(c, old, now) ==
    CASE c.op = "SADD" -> SAdd(c, old)
      [] c.op = "SREM" -> SRem(c, old)
      [] c.op = "SPOP" -> SPop(c, old)
      [] c.op = "SET" -> SetCmd(c, old, now)
      [] c.op = "SETNX" -> SetNx(c, old)
      [] c.op = "GETSET" -> GetSet(c, old)
      [] c.op = "APPEND" -> AppendTo(c, old)
      [] c.op \in {"INCRBY", "DECRBY"} -> IntegerMutation(c, old)
      [] c.op \in {"HSET", "HMSET"} -> HSet(c, old)
      [] c.op = "HDEL" -> RemoveFields("hash", c, old)
      [] c.op = "HINCRBY" -> HIncrBy(c, old)
      [] c.op = "ZREM" -> RemoveFields("zset", c, old)
      [] c.op \in {"ZADD", "ZINCRBY"} ->
            IF IsZIncr(c) THEN IncrementZSetMember(c, old) ELSE ZAdd(c, old)

(* What a command does to the slot when it changes it: the next map, the   *)
(* command that is logged and the deadline stamped on the log record.      *)
Outcome == [map : ObjectMap, cmd : Command, deadline : Deadlines]

Changed(map, k, result) ==
    [map |-> [map EXCEPT ![k] = result.obj], cmd |-> result.cmd,
     deadline |-> DeadlineOf(result.obj)]

Mutate(map, c, now) ==
    LET old == Existing(map, c.key, now)
    IN  IF IsError(c, old, now)
        THEN {}
        ELSE {Changed(map, c.key, r) : r \in Mutator(c, old, now)}

(* DEL of one key: only a live object is deleted and logged.               *)
Del(map, k, now) ==
    IF Existing(map, k, now) = None
    THEN {}
    ELSE {Changed(map, k, EraseKey(Cmd("DEL", k, {})))}

(* Mutants: the sweeper trusts the copy of the map it collected the key    *)
(* from; the sweeper spares an object exactly at its deadline.             *)
DeleteCollectedKey(map, k, now) ==
    IF map[k] # None THEN {Changed(map, k, EraseKey(Cmd("DEL", k, {})))} ELSE {}

DeleteStrictlyExpiredKey(map, k, now) ==
    IF map[k] # None /\ IsExpired(map[k], now - 1)
    THEN {Changed(map, k, EraseKey(Cmd("DEL", k, {})))}
    ELSE {}

(* The sweeper's deletion: the key is looked up again and must be stored   *)
(* and expired; it is logged as a DEL.                                     *)
DeleteExpiredKey(map, k, now) ==
    IF map[k] # None /\ IsExpired(map[k], now)
    THEN {Changed(map, k, EraseKey(Cmd("DEL", k, {})))}
    ELSE {}

Expire(map, c, now) ==
    IF c.num <= 0 THEN Del(map, c.key, now)
    ELSE IF Existing(map, c.key, now) = None THEN {}
    ELSE {Changed(map, c.key,
            [obj |-> WithDeadline(map[c.key],
                                  SaturatingDeadlineUs(now, SaturatingTtlUs(c.num))),
             cmd |-> c])}

(* The outcomes of a command on a slot; {} when it leaves the slot alone.  *)
Outcomes(map, c, now) ==
    CASE c.op = "DEL"    -> Del(map, c.key, now)
      [] c.op = "EXPIRE" -> Expire(map, c, now)
      [] c.op = "SWEEP"  -> DeleteExpiredKey(map, c.key, now)
      [] c.op \in MutatorOps -> Mutate(map, c, now)

-----------------------------------------------------------------------------
(* Binlog records and their replay.                                        *)

BinlogRecord == [seq : Nat, cmd : Command, at : Deadlines, deadline : Deadlines]

Record(seq, o, now) ==
    [seq |-> seq, cmd |-> o.cmd, at |-> now, deadline |-> o.deadline]

SetReplicaDeadline(map, k, deadline) ==
    IF map[k] = None THEN map ELSE [map EXCEPT ![k] = WithDeadline(@, deadline)]

(* The maps a replica can end up with when it executes a command.          *)
Executed(map, c, now) ==
    LET outs == Outcomes(map, c, now)
    IN  IF outs = {} THEN {map} ELSE {o.map : o \in outs}

(* ApplyRecord on a replica whose slot holds map: the set of maps it can   *)
(* produce, {} when it reports failure.  A DEL runs at time 0, at which no *)
(* object is expired; everything else at the time the primary ran it.      *)
ApplyRecord(map, r) ==
    IF r.cmd.op = "DEL" THEN Executed(map, r.cmd, 0)
    ELSE IF IsError(r.cmd, Existing(map, r.cmd.key, r.at), r.at) THEN {}
    ELSE {SetReplicaDeadline(m, r.cmd.key, r.deadline) : m \in Executed(map, r.cmd, r.at)}
=============================================================================
