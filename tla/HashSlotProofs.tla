----------------------------- MODULE HashSlotProofs -----------------------------
(***************************************************************************)
(* Theorems about the slot for every set of keys, members, clients and     *)
(* commands and every bound.  First what the commands of SlotCommands      *)
(* return; then HashSlot: type correctness, the inductive invariant        *)
(* SlotInv, that every retained record replays to the published map, and   *)
(* that the two-mutex slot implements the atomic one; last, that the loop  *)
(* of ZADD computes the closed form SlotCommands gives for it.             *)
(***************************************************************************)
EXTENDS HashSlot, ZAddLoop, FiniteSetTheorems, WellFoundedInduction, TLAPS

-----------------------------------------------------------------------------
(* What the commands and their replay return, for every map and command.   *)

LEMMA ExistingType ==
    ASSUME NEW map \in ObjectMap, NEW k \in Keys, NEW stamp
    PROVE  /\ Existing(map, k, stamp) \in Object \cup {None}
           /\ Existing(map, k, stamp) # None => Existing(map, k, stamp) = map[k]
BY DEF Existing, ObjectMap

LEMMA CmdType ==
    ASSUME NEW op \in Ops, NEW k \in Keys, NEW members \in SUBSET Members
    PROVE  Cmd(op, k, members) \in Command
<1>1. (CHOOSE s \in Strings : TRUE) \in Strings
  BY KeysAssumption
<1> QED
  BY <1>1 DEF Cmd, Command, Units

LEMMA DeadlineOfType ==
    ASSUME NEW obj \in Object \cup {None}
    PROVE  DeadlineOf(obj) \in Deadlines
BY TimeAssumption DEF DeadlineOf, Object, StringObject, SetObject, HashObject, ZSetObject, Deadlines

(* What the mutator of one type may assume of the object it is handed.     *)
LEMMA MembersOfType ==
    ASSUME NEW old \in Object \cup {None}, ~WrongType(old, "set")
    PROVE  MembersOf(old) \in SUBSET Members
BY DEF WrongType, MembersOf, Object, StringObject, SetObject, HashObject, ZSetObject

LEMMA HashFieldsType ==
    ASSUME NEW old \in Object \cup {None}, ~WrongType(old, "hash")
    PROVE  FieldsOf(old) \in [Members -> Strings \cup {None}]
BY DEF WrongType, FieldsOf, NoFields, Object, StringObject, SetObject, HashObject, ZSetObject

LEMMA ZSetFieldsType ==
    ASSUME NEW old \in Object \cup {None}, ~WrongType(old, "zset")
    PROVE  FieldsOf(old) \in [Members -> Scores \cup {None}]
BY DEF WrongType, FieldsOf, NoFields, Object, StringObject, SetObject, HashObject, ZSetObject

LEMMA StringValueType ==
    ASSUME NEW old \in Object, ~WrongType(old, "string")
    PROVE  old.value \in Strings
<1>1. old # None
  BY NoneAssumption
<1> QED
  BY <1>1 DEF WrongType, Object, StringObject, SetObject, HashObject, ZSetObject

-----------------------------------------------------------------------------
(* What a mutator may return: a well-typed result that stores no empty     *)
(* container.                                                              *)
Sound(r) == r \in MutationResult /\ (r.obj # None => HasContent(r.obj))

LEMMA EraseSound ==
    ASSUME NEW c \in Command
    PROVE  Sound(EraseKey(c))
BY DEF Sound, EraseKey, MutationResult

LEMMA StoreString ==
    ASSUME NEW c \in Command, NEW s \in Strings, NEW d \in Deadlines
    PROVE  Sound(StoreAs("string", s, d, c))
BY DEF Sound, StoreAs, MutationResult, HasContent, Object, StringObject

LEMMA StoreSet ==
    ASSUME NEW c \in Command, NEW s \in SUBSET Members, s # {}, NEW d \in Deadlines
    PROVE  Sound(StoreAs("set", s, d, c))
BY DEF Sound, StoreAs, MutationResult, HasContent, Object, SetObject

LEMMA StoreHash ==
    ASSUME NEW c \in Command, NEW h \in [Members -> Strings \cup {None}], h # NoFields,
           NEW d \in Deadlines
    PROVE  Sound(StoreAs("hash", h, d, c))
BY DEF Sound, StoreAs, MutationResult, HasContent, Object, HashObject

LEMMA StoreZSet ==
    ASSUME NEW c \in Command, NEW z \in [Members -> Scores \cup {None}], z # NoFields,
           NEW d \in Deadlines
    PROVE  Sound(StoreAs("zset", z, d, c))
BY DEF Sound, StoreAs, MutationResult, HasContent, Object, ZSetObject

-----------------------------------------------------------------------------
(* Sets.                                                                   *)

LEMMA SAddSound ==
    ASSUME NEW c \in Command, NEW old \in Object \cup {None}, ~WrongType(old, "set"),
           NEW r \in SAdd(c, old)
    PROVE  Sound(r)
<1>1. c.members \in SUBSET Members
  BY DEF Command
<1>2. MembersOf(old) \in SUBSET Members
  BY MembersOfType
<1>3. /\ r = StoreAs("set", MembersOf(old) \cup c.members, DeadlineOf(old), c)
      /\ MembersOf(old) \cup c.members # {}
  BY DEF SAdd
<1> QED
  BY <1>1, <1>2, <1>3, DeadlineOfType, StoreSet

LEMMA RemoveMembersSound ==
    ASSUME NEW old \in Object, ~WrongType(old, "set"), NEW picked, NEW logged \in Command
    PROVE  Sound(RemoveMembers(old, picked, logged))
<1>1. old # None
  BY NoneAssumption
<1>2. old.value \in SUBSET Members
  BY <1>1, MembersOfType DEF MembersOf
<1>3. old.deadline \in Deadlines
  BY <1>1, DeadlineOfType DEF DeadlineOf
<1>4. CASE old.value \subseteq picked
  BY <1>4, EraseSound DEF RemoveMembers
<1>5. CASE ~(old.value \subseteq picked)
  <2>1. old.value \ picked \in SUBSET Members /\ old.value \ picked # {}
    BY <1>2, <1>5
  <2> QED
    BY <1>3, <1>5, <2>1, StoreSet DEF RemoveMembers
<1> QED
  BY <1>4, <1>5

LEMMA SRemSound ==
    ASSUME NEW c \in Command, NEW old \in Object \cup {None}, ~WrongType(old, "set"),
           NEW r \in SRem(c, old)
    PROVE  Sound(r)
<1>1. old # None /\ r = RemoveMembers(old, c.members, c)
  BY DEF SRem, MembersOf
<1> QED
  BY <1>1, RemoveMembersSound

(* What SPOP returns: it removes a non-empty choice of members and logs    *)
(* the SREM of exactly those.                                              *)
LEMMA SPopPicks ==
    ASSUME NEW c \in Command, NEW old \in Object \cup {None}, ~WrongType(old, "set"),
           NEW r \in SPop(c, old)
    PROVE  /\ old # None
           /\ \E S \in SUBSET Members :
                /\ S # {} /\ S \subseteq old.value
                /\ Cmd("SREM", c.key, S) \in Command
                /\ r = RemoveMembers(old, S, Cmd("SREM", c.key, S))
<1>1. old # None
  BY DEF SPop
<1>2. PICK S \in SUBSET old.value :
        S # {} /\ r = RemoveMembers(old, S, Cmd("SREM", c.key, S))
  BY DEF SPop, PickUniqueMembers
<1>3. old.value \in SUBSET Members
  BY <1>1, MembersOfType DEF MembersOf
<1>4. c.key \in Keys
  BY DEF Command
<1>5. Cmd("SREM", c.key, S) \in Command
  BY <1>2, <1>3, <1>4, CmdType DEF Ops, MutatorOps, SetOps
<1> QED
  BY <1>1, <1>2, <1>3, <1>5

LEMMA SPopSound ==
    ASSUME NEW c \in Command, NEW old \in Object \cup {None}, ~WrongType(old, "set"),
           NEW r \in SPop(c, old)
    PROVE  Sound(r)
BY SPopPicks, RemoveMembersSound

-----------------------------------------------------------------------------
(* Strings and deadlines: no deadline leaves the range of a uint64 and no  *)
(* sum leaves the range of an int64.                                       *)

LEMMA ComputeDeadlineType ==
    ASSUME NEW c \in Command, NEW stamp \in Deadlines, ~ExpirationError(c, stamp)
    PROVE  ComputeDeadline(c, stamp) \in Deadlines
<1> DEFINE unit == UnitMicros(c.unit)
           amount == c.num * unit
<1>1. c.num \in Int /\ c.num > 0
  BY DEF Command, ExpirationError
<1>2. unit \in Nat /\ unit > 0
  BY TimeAssumption DEF UnitMicros
<1>3. ~(c.num > MaxU64 \div unit)
  BY DEF ExpirationError, MultiplyOverflows
<1> HIDE DEF unit
<1>4. amount \in Nat
  BY <1>1, <1>2
<1>5. amount <= MaxU64
  BY <1>1, <1>2, <1>3, TimeAssumption
<1>6. IsRelative(c.unit) => amount <= MaxU64 - stamp
  BY <1>4, TimeAssumption DEF ExpirationError, AddOverflows, Deadlines, unit
<1>7. ComputeDeadline(c, stamp) = (IF IsRelative(c.unit) THEN stamp ELSE 0) + amount
  BY DEF ComputeDeadline, unit
<1> HIDE DEF amount
<1> QED
  BY <1>4, <1>5, <1>6, <1>7, TimeAssumption DEF Deadlines

LEMMA SetCmdSound ==
    ASSUME NEW c \in Command, NEW old \in Object \cup {None}, NEW stamp \in Deadlines,
           ~SetOptionError(c, stamp), NEW r \in SetCmd(c, old, stamp)
    PROVE  Sound(r)
<1>1. r = StoreAs("string", c.val, SetDeadline(c, old, stamp), c)
  BY DEF SetCmd
<1>2. SetDeadline(c, old, stamp) \in Deadlines
  <2>1. 0 \in Deadlines
    BY TimeAssumption DEF Deadlines
  <2>2. CASE c.unit # "none"
    BY <2>2, ComputeDeadlineType DEF SetDeadline, SetOptionError
  <2>3. CASE c.unit = "none"
    BY <2>1, <2>3, DeadlineOfType DEF SetDeadline
  <2> QED
    BY <2>2, <2>3
<1>3. c.val \in Strings
  BY DEF Command
<1> QED
  BY <1>1, <1>2, <1>3, StoreString

LEMMA PlainStringSound ==
    ASSUME NEW c \in Command, NEW old, NEW r \in SetNx(c, old) \cup GetSet(c, old)
    PROVE  Sound(r)
<1>1. r = StoreAs("string", c.val, 0, c)
  BY DEF SetNx, GetSet
<1>2. c.val \in Strings /\ 0 \in Deadlines
  BY TimeAssumption DEF Command, Deadlines
<1> QED
  BY <1>1, <1>2, StoreString

LEMMA AppendSound ==
    ASSUME NEW c \in Command, NEW old \in Object \cup {None}, ~WrongType(old, "string"),
           NEW r \in AppendTo(c, old)
    PROVE  Sound(r)
<1> DEFINE text == IF old = None THEN c.val ELSE Joined[<<old.value, c.val>>]
<1>1. c.val \in Strings
  BY DEF Command
<1>2. text \in Strings
  <2>1. CASE old = None
    BY <1>1, <2>1
  <2>2. CASE old # None
    <3>1. old.value \in Strings
      BY <2>2, StringValueType
    <3>2. <<old.value, c.val>> \in Strings \X Strings
      BY <1>1, <3>1
    <3> QED
      BY <2>2, <3>2, TextAssumption
  <2> QED
    BY <2>1, <2>2
<1>3. r = StoreAs("string", text, DeadlineOf(old), c)
  BY DEF AppendTo
<1> HIDE DEF text
<1> QED
  BY <1>2, <1>3, DeadlineOfType, StoreString

LEMMA CurrentIntegerType ==
    ASSUME NEW old \in Object \cup {None}, ~WrongType(old, "string")
    PROVE  CurrentInteger(old) \in I64 \cup {None}
<1>1. CASE old = None
  BY <1>1, TextAssumption DEF CurrentInteger
<1>2. CASE old # None
  BY <1>2, StringValueType, TextAssumption DEF CurrentInteger, ParseInt64
<1> QED
  BY <1>1, <1>2

LEMMA IntegerMutationSound ==
    ASSUME NEW c \in Command, NEW old \in Object \cup {None}, ~WrongType(old, "string"),
           ~IntegerError(c, old), NEW r \in IntegerMutation(c, old)
    PROVE  Sound(r)
<1> DEFINE x == CurrentInteger(old)
           y == ParseInt64(c.val)
           n == IF c.op = "INCRBY" THEN x + y ELSE x - y
<1>1. y \in I64 \cup {None}
  BY TextAssumption DEF Command, ParseInt64
<1>2. x \in I64 \cup {None}
  BY CurrentIntegerType
<1>3. x # None /\ y # None
  BY DEF IntegerError
<1>4. IF c.op = "INCRBY" THEN ~CheckedAddFails(x, y) ELSE ~CheckedSubtractFails(x, y)
  BY DEF IntegerError
<1>5. r = StoreAs("string", TextOf[n], DeadlineOf(old), c)
  BY DEF IntegerMutation
<1> HIDE DEF x, y
<1>6. x \in I64 /\ y \in I64
  BY <1>1, <1>2, <1>3
<1>7. n \in I64
  <2>1. CASE c.op = "INCRBY"
    BY <1>4, <1>6, <2>1, TextAssumption DEF I64, CheckedAddFails
  <2>2. CASE c.op # "INCRBY"
    BY <1>4, <1>6, <2>2, TextAssumption DEF I64, CheckedSubtractFails
  <2> QED
    BY <2>1, <2>2
<1> HIDE DEF n
<1>8. TextOf[n] \in Strings
  BY <1>7, TextAssumption
<1> QED
  BY <1>5, <1>8, DeadlineOfType, StoreString

-----------------------------------------------------------------------------
(* Hashes.                                                                 *)

LEMMA ApplyFieldValuePairsType ==
    ASSUME NEW pairs \in Seq(FieldPair), NEW hash \in [Members -> Strings \cup {None}]
    PROVE  /\ ApplyFieldValuePairs(pairs, hash) \in [Members -> Strings \cup {None}]
           /\ Len(pairs) # 0 => ApplyFieldValuePairs(pairs, hash) # NoFields
<1> DEFINE after == ApplyFieldValuePairs(pairs, hash)
           last(f) == CHOOSE i \in LastPairOf(pairs, f) : TRUE
<1>1. ASSUME NEW f \in Members, LastPairOf(pairs, f) # {}
      PROVE  pairs[last(f)].val \in Strings
  <2>1. last(f) \in LastPairOf(pairs, f)
    BY <1>1
  <2>2. last(f) \in 1 .. Len(pairs)
    BY <2>1 DEF LastPairOf
  <2>3. pairs[last(f)] \in FieldPair
    BY <2>2
  <2> QED
    BY <2>3 DEF FieldPair
<1>2. after = [f \in Members |-> IF LastPairOf(pairs, f) = {} THEN hash[f] ELSE pairs[last(f)].val]
  BY DEF ApplyFieldValuePairs
<1> HIDE DEF last
<1>3. after \in [Members -> Strings \cup {None}]
  <2>1. ASSUME NEW f \in Members
        PROVE  (IF LastPairOf(pairs, f) = {} THEN hash[f] ELSE pairs[last(f)].val)
                  \in Strings \cup {None}
    BY <1>1
  <2> QED
    BY <1>2, <2>1
<1>4. ASSUME Len(pairs) # 0
      PROVE  after # NoFields
  <2> DEFINE n == Len(pairs)
             f == pairs[n].member
  <2>1. n \in 1 .. n /\ pairs[n] \in FieldPair
    BY <1>4
  <2>2. f \in Members
    BY <2>1 DEF FieldPair
  <2>3. n \in LastPairOf(pairs, f)
    BY <2>1 DEF LastPairOf
  <2> HIDE DEF f
  <2>4. after[f] \in Strings
    BY <1>1, <1>2, <2>2, <2>3
  <2>5. NoFields[f] = None
    BY <2>2 DEF NoFields
  <2> QED
    BY <2>4, <2>5, NoneAssumption
<1> QED
  BY <1>3, <1>4

LEMMA HSetSound ==
    ASSUME NEW c \in Command, NEW old \in Object \cup {None}, ~WrongType(old, "hash"),
           Len(c.fields) # 0, NEW r \in HSet(c, old)
    PROVE  Sound(r)
<1> DEFINE after == ApplyFieldValuePairs(c.fields, FieldsOf(old))
<1>1. c.fields \in Seq(FieldPair)
  BY DEF Command
<1>2. after \in [Members -> Strings \cup {None}] /\ after # NoFields
  BY <1>1, HashFieldsType, ApplyFieldValuePairsType
<1>3. r = StoreAs("hash", after, DeadlineOf(old), c)
  BY DEF HSet
<1> HIDE DEF after
<1> QED
  BY <1>2, <1>3, DeadlineOfType, StoreHash

LEMMA WithoutType ==
    ASSUME NEW R, NEW fields \in [Members -> R \cup {None}], NEW members
    PROVE  Without(fields, members) \in [Members -> R \cup {None}]
BY DEF Without

LEMMA RemoveFieldsSound ==
    ASSUME NEW c \in Command, NEW old \in Object \cup {None}, NEW type \in {"hash", "zset"},
           ~WrongType(old, type), NEW r \in RemoveFields(type, c, old)
    PROVE  Sound(r)
<1>1. c.members \in SUBSET Members
  BY DEF Command
<1>2. old # None
  BY <1>1 DEF RemoveFields, FieldsOf, NoFields
<1>3. \/ r = EraseKey(c)
      \/ /\ r = StoreAs(type, Without(old.value, c.members), old.deadline, c)
         /\ Without(old.value, c.members) # NoFields
  BY DEF RemoveFields
<1>4. old.deadline \in Deadlines
  BY <1>2, DeadlineOfType DEF DeadlineOf
<1>5. CASE type = "hash"
  <2>1. Without(old.value, c.members) \in [Members -> Strings \cup {None}]
    BY <1>2, <1>5, HashFieldsType, WithoutType DEF FieldsOf
  <2> QED
    BY <1>3, <1>4, <1>5, <2>1, EraseSound, StoreHash
<1>6. CASE type = "zset"
  <2>1. Without(old.value, c.members) \in [Members -> Scores \cup {None}]
    BY <1>2, <1>6, ZSetFieldsType, WithoutType DEF FieldsOf
  <2> QED
    BY <1>3, <1>4, <1>6, <2>1, EraseSound, StoreZSet
<1> QED
  BY <1>5, <1>6

LEMMA HIncrBySound ==
    ASSUME NEW c \in Command, NEW old \in Object \cup {None}, ~WrongType(old, "hash"),
           Len(c.fields) = 1, ~HIncrByError(c, old), NEW r \in HIncrBy(c, old)
    PROVE  Sound(r)
<1> DEFINE m == c.fields[1].member
           x == CurrentField(c, old)
           y == ParseInt64(c.fields[1].val)
           after == [FieldsOf(old) EXCEPT ![m] = TextOf[x + y]]
<1>1. c.fields \in Seq(FieldPair)
  BY DEF Command
<1>2. c.fields[1] \in FieldPair
  BY <1>1
<1>3. m \in Members /\ y \in I64 \cup {None}
  BY <1>2, TextAssumption DEF FieldPair, ParseInt64
<1>4. FieldsOf(old) \in [Members -> Strings \cup {None}]
  BY HashFieldsType
<1>5. x \in I64 \cup {None}
  BY <1>3, <1>4, TextAssumption DEF CurrentField, ParseInt64
<1>6. x # None /\ y # None /\ ~AddWouldOverflow(x, y)
  BY DEF HIncrByError
<1>7. r = StoreAs("hash", after, DeadlineOf(old), c)
  BY DEF HIncrBy
<1> HIDE DEF x, y, m
<1>8. x + y \in I64
  BY <1>3, <1>5, <1>6, TextAssumption DEF I64, AddWouldOverflow
<1>9. TextOf[x + y] \in Strings
  BY <1>8, TextAssumption
<1>10. after \in [Members -> Strings \cup {None}] /\ after[m] \in Strings
  BY <1>3, <1>4, <1>9
<1>11. after # NoFields
  BY <1>3, <1>10, NoneAssumption DEF NoFields
<1> HIDE DEF after
<1> QED
  BY <1>7, <1>10, <1>11, DeadlineOfType, StoreHash

-----------------------------------------------------------------------------
(* Sorted sets.                                                            *)

LEMMA SmallestOf ==
    ASSUME NEW S \in SUBSET Nat, S # {}
    PROVE  \E n \in S : \A m \in S : n <= m
<1>1. PICK R : R = {ss \in Nat \X Nat : ss[1] < ss[2]}
  OBVIOUS
<1>2. IsWellFoundedOn(R, Nat)
  BY <1>1, NatLessThanWellFounded, Zenon DEF OpToRel
<1>3. PICK n \in S : \A m \in S : ~(<<m, n>> \in R)
  BY <1>2, WFMin
<1>4. ASSUME NEW m \in S
      PROVE  n <= m
  <2>1. m \in Nat /\ n \in Nat
    OBVIOUS
  <2>2. CASE m < n
    <3>1. <<m, n>> \in Nat \X Nat /\ <<m, n>>[1] = m /\ <<m, n>>[2] = n
      BY <2>1
    <3>2. <<m, n>> \in R
      BY <1>1, <2>2, <3>1, Zenon
    <3> QED
      BY <1>3, <3>2
  <2> QED
    BY <2>1, <2>2
<1> QED
  BY <1>4

(* How late a pair comes in the order of precedence that the options give. *)
Rank(opt, pairs, i) ==
    IF "NX" \in opt THEN i
    ELSE IF "GT" \in opt THEN MaxScore - pairs[i].score
    ELSE IF "LT" \in opt THEN pairs[i].score + MaxScore
    ELSE Len(pairs) - i

(* Of the pairs admitted for a member, one decides.                        *)
LEMMA DecidingPairExists ==
    ASSUME NEW opt, NEW pairs \in Seq(ScorePair), NEW held, NEW m,
           NEW i \in 1 .. Len(pairs), pairs[i].member = m,
           Admits(opt, held[m], pairs[i].score)
    PROVE  DecidingPairs(opt, pairs, held, m) # {}
<1> DEFINE A == {j \in 1 .. Len(pairs) :
                    pairs[j].member = m /\ Admits(opt, held[m], pairs[j].score)}
           ranks == {Rank(opt, pairs, j) : j \in A}
<1>1. \A j \in 1 .. Len(pairs) : pairs[j] \in ScorePair
  OBVIOUS
<1>2. \A j \in 1 .. Len(pairs) : pairs[j].score \in Scores
  BY <1>1 DEF ScorePair
<1>3. \A j \in A : Rank(opt, pairs, j) \in Nat
  BY <1>2, TextAssumption, SMTT(30) DEF Rank, Scores
<1>4. ranks \in SUBSET Nat
  BY <1>3
<1>5. ranks # {}
  OBVIOUS
<1> HIDE DEF ranks
<1>6. PICK n \in ranks : \A k \in ranks : n <= k
  BY <1>4, <1>5, SmallestOf
<1>7. PICK d \in A : n = Rank(opt, pairs, d)
  BY <1>6 DEF ranks
<1>8. \A j \in A : Rank(opt, pairs, d) <= Rank(opt, pairs, j)
  BY <1>6, <1>7 DEF ranks
<1>9. \A j \in A : ~Overrides(opt, pairs, j, d)
  BY <1>2, <1>7, <1>8, TextAssumption DEF Rank, Overrides, Scores
<1> QED
  BY <1>7, <1>9 DEF DecidingPairs

LEMMA ApplyScorePairsType ==
    ASSUME NEW opt, NEW pairs \in Seq(ScorePair), NEW held \in [Members -> Scores \cup {None}]
    PROVE  /\ ApplyScorePairs(opt, pairs, held) \in [Members -> Scores \cup {None}]
           /\ ScoresChange(opt, pairs, held) => ApplyScorePairs(opt, pairs, held) # NoFields
<1> DEFINE after == ApplyScorePairs(opt, pairs, held)
           deciding(m) == DecidingPairs(opt, pairs, held, m)
           pick(m) == CHOOSE i \in deciding(m) : TRUE
<1>1. ASSUME NEW m \in Members, deciding(m) # {}
      PROVE  pairs[pick(m)].score \in Scores
  <2>1. pick(m) \in deciding(m)
    BY <1>1
  <2>2. pick(m) \in 1 .. Len(pairs)
    BY <2>1 DEF DecidingPairs
  <2>3. pairs[pick(m)] \in ScorePair
    BY <2>2
  <2> QED
    BY <2>3 DEF ScorePair
<1>2. after = [m \in Members |-> IF deciding(m) = {} THEN held[m] ELSE pairs[pick(m)].score]
  BY DEF ApplyScorePairs
<1> HIDE DEF pick
<1>3. after \in [Members -> Scores \cup {None}]
  <2> HIDE DEF deciding
  <2>1. ASSUME NEW m \in Members
        PROVE  (IF deciding(m) = {} THEN held[m] ELSE pairs[pick(m)].score) \in Scores \cup {None}
    BY <1>1
  <2> QED
    BY <1>2, <2>1
<1>4. ASSUME ScoresChange(opt, pairs, held)
      PROVE  after # NoFields
  <2>1. PICK i \in 1 .. Len(pairs) : Admits(opt, held[pairs[i].member], pairs[i].score)
    BY <1>4 DEF ScoresChange
  <2> DEFINE m == pairs[i].member
  <2>2. pairs[i] \in ScorePair
    BY <2>1
  <2>3. m \in Members
    BY <2>2 DEF ScorePair
  <2>4. deciding(m) # {}
    BY <2>1, DecidingPairExists
  <2> HIDE DEF m, deciding
  <2>5. after[m] \in Scores
    BY <1>1, <1>2, <2>3, <2>4
  <2>6. after[m] # None
    BY <2>5, NoneAssumption DEF Scores
  <2> QED
    BY <2>3, <2>6 DEF NoFields
<1> QED
  BY <1>3, <1>4

LEMMA ZAddSound ==
    ASSUME NEW c \in Command, NEW old \in Object \cup {None}, ~WrongType(old, "zset"),
           NEW r \in ZAdd(c, old)
    PROVE  Sound(r)
<1> DEFINE after == ApplyScorePairs(c.opts, c.scores, FieldsOf(old))
<1>1. c.scores \in Seq(ScorePair)
  BY DEF Command
<1>2. ScoresChange(c.opts, c.scores, FieldsOf(old)) /\ r = StoreAs("zset", after, DeadlineOf(old), c)
  BY DEF ZAdd
<1>3. after \in [Members -> Scores \cup {None}] /\ after # NoFields
  BY <1>1, <1>2, ZSetFieldsType, ApplyScorePairsType
<1> HIDE DEF after
<1> QED
  BY <1>2, <1>3, DeadlineOfType, StoreZSet

LEMMA IncrementZSetMemberSound ==
    ASSUME NEW c \in Command, NEW old \in Object \cup {None}, ~WrongType(old, "zset"),
           Len(c.scores) = 1, ~ZIncrError(c, old), NEW r \in IncrementZSetMember(c, old)
    PROVE  Sound(r)
<1> DEFINE m == c.scores[1].member
           after == [FieldsOf(old) EXCEPT ![m] = NextScore(c, old)]
<1>1. c.scores \in Seq(ScorePair)
  BY DEF Command
<1>2. c.scores[1] \in ScorePair
  BY <1>1
<1>3. m \in Members
  BY <1>2 DEF ScorePair
<1>4. ~ZIncrPrevented(c, old) /\ r = StoreAs("zset", after, DeadlineOf(old), c)
  BY DEF IncrementZSetMember
<1>5. NextScore(c, old) \in Scores
  BY <1>4 DEF ZIncrError
<1>6. FieldsOf(old) \in [Members -> Scores \cup {None}]
  BY ZSetFieldsType
<1> HIDE DEF m
<1>7. after \in [Members -> Scores \cup {None}] /\ after[m] \in Scores
  BY <1>3, <1>5, <1>6
<1>8. after # NoFields
  BY <1>3, <1>7, NoneAssumption DEF NoFields, Scores
<1> HIDE DEF after
<1> QED
  BY <1>4, <1>7, <1>8, DeadlineOfType, StoreZSet

-----------------------------------------------------------------------------
(* Every command.                                                          *)

LEMMA MutatorSound ==
    ASSUME NEW c \in Command, c.op \in MutatorOps, NEW old \in Object \cup {None},
           NEW stamp \in Deadlines, ~IsError(c, old, stamp), NEW r \in Mutator(c, old, stamp)
    PROVE  Sound(r)
<1>1. CASE c.op = "SADD"
  BY <1>1, SAddSound DEF Mutator, IsError, TypeError, SetOps
<1>2. CASE c.op = "SREM"
  BY <1>2, SRemSound DEF Mutator, IsError, TypeError, SetOps
<1>3. CASE c.op = "SPOP"
  BY <1>3, SPopSound DEF Mutator, IsError, TypeError, SetOps
<1>4. CASE c.op = "SET"
  BY <1>4, SetCmdSound DEF Mutator, IsError
<1>5. CASE c.op \in {"SETNX", "GETSET"}
  BY <1>5, PlainStringSound DEF Mutator
<1>6. CASE c.op = "APPEND"
  BY <1>6, AppendSound DEF Mutator, IsError, TypeError, StringOps
<1>7. CASE c.op \in {"INCRBY", "DECRBY"}
  BY <1>7, IntegerMutationSound DEF Mutator, IsError, TypeError, StringOps
<1>8. CASE c.op \in {"HSET", "HMSET"}
  BY <1>8, HSetSound DEF Mutator, IsError, ArityError, TypeError, HashOps
<1>9. CASE c.op = "HDEL"
  BY <1>9, RemoveFieldsSound DEF Mutator, IsError, TypeError, HashOps
<1>10. CASE c.op = "HINCRBY"
  BY <1>10, HIncrBySound DEF Mutator, IsError, ArityError, TypeError, HashOps
<1>11. CASE c.op = "ZREM"
  BY <1>11, RemoveFieldsSound DEF Mutator, IsError, TypeError, ZSetOps
<1>12. CASE c.op \in {"ZADD", "ZINCRBY"}
  <2>1. ~WrongType(old, "zset")
    BY <1>12 DEF IsError, TypeError, ZSetOps
  <2>2. CASE IsZIncr(c)
    <3>1. Len(c.scores) = 1 /\ ~ZIncrError(c, old)
      BY <2>2 DEF IsError, ArityError, ZAddOptionError, IsZIncr
    <3>2. r \in IncrementZSetMember(c, old)
      BY <1>12, <2>2 DEF Mutator
    <3> QED
      BY <2>1, <3>1, <3>2, IncrementZSetMemberSound
  <2>3. CASE ~IsZIncr(c)
    BY <1>12, <2>1, <2>3, ZAddSound DEF Mutator
  <2> QED
    BY <2>2, <2>3
<1> QED
  BY <1>1, <1>2, <1>3, <1>4, <1>5, <1>6, <1>7, <1>8, <1>9, <1>10, <1>11, <1>12
  DEF MutatorOps, SetOps, HashOps, ZSetOps, StringOps

(* A command replaces the object under one key by what its mutator         *)
(* returned and stamps the record with that object's deadline.             *)
LEMMA ChangedType ==
    ASSUME NEW map \in ObjectMap, NEW k \in Keys, NEW r \in MutationResult
    PROVE  /\ Changed(map, k, r) \in Outcome
           /\ Changed(map, k, r).map[k] = r.obj
           /\ Changed(map, k, r).cmd = r.cmd
           /\ \A j \in Keys \ {k} : Changed(map, k, r).map[j] = map[j]
<1>1. r.obj \in Object \cup {None} /\ r.cmd \in Command
  BY DEF MutationResult
<1>2. DeadlineOf(r.obj) \in Deadlines
  BY <1>1, DeadlineOfType
<1>3. [map EXCEPT ![k] = r.obj] \in ObjectMap
  BY <1>1 DEF ObjectMap
<1> QED
  BY <1>1, <1>2, <1>3 DEF Changed, Outcome, ObjectMap

(* The results of a command are all of the form Changed(map, key, r).      *)
LEMMA MutateResults ==
    ASSUME NEW map \in ObjectMap, NEW c \in Command, c.op \in MutatorOps,
           NEW stamp \in Deadlines, NEW o \in Mutate(map, c, stamp)
    PROVE  LET old == Existing(map, c.key, stamp)
           IN  /\ ~IsError(c, old, stamp)
               /\ old \in Object \cup {None}
               /\ \E r \in Mutator(c, old, stamp) : Sound(r) /\ o = Changed(map, c.key, r)
<1> DEFINE old == Existing(map, c.key, stamp)
<1>1. old \in Object \cup {None}
  BY ExistingType DEF Command
<1>2. ~IsError(c, old, stamp) /\ \E r \in Mutator(c, old, stamp) : o = Changed(map, c.key, r)
  BY DEF Mutate
<1> QED
  BY <1>1, <1>2, MutatorSound

(* A deletion, the client's or the sweeper's, erases a stored object and   *)
(* logs a DEL.                                                             *)
LEMMA DelResults ==
    ASSUME NEW map \in ObjectMap, NEW k \in Keys, NEW stamp,
           NEW o \in Del(map, k, stamp) \cup DeleteExpiredKey(map, k, stamp)
    PROVE  /\ map[k] # None
           /\ Sound(EraseKey(Cmd("DEL", k, {})))
           /\ o = Changed(map, k, EraseKey(Cmd("DEL", k, {})))
<1>1. Cmd("DEL", k, {}) \in Command
  BY CmdType DEF Ops
<1> QED
  BY <1>1, EraseSound DEF Del, DeleteExpiredKey, Existing

LEMMA ExpireResults ==
    ASSUME NEW map \in ObjectMap, NEW c \in Command, c.num > 0, NEW stamp \in Deadlines,
           NEW o \in Expire(map, c, stamp)
    PROVE  \E d \in Deadlines :
             LET r == [obj |-> WithDeadline(map[c.key], d), cmd |-> c]
             IN  /\ Existing(map, c.key, stamp) = map[c.key]
                 /\ map[c.key] \in Object
                 /\ r \in MutationResult
                 /\ HasContent(map[c.key]) => Sound(r)
                 /\ Expire(map, c, stamp) = {o}
                 /\ o = Changed(map, c.key, r)
<1> DEFINE deadline == SaturatingDeadlineUs(stamp, SaturatingTtlUs(c.num))
           obj == WithDeadline(map[c.key], deadline)
<1>1. c.key \in Keys /\ c.num \in Int
  BY DEF Command
<1>2. SaturatingTtlUs(c.num) \in Nat
  BY <1>1, TimeAssumption DEF SaturatingTtlUs
<1>3. deadline \in Deadlines
  BY <1>2, TimeAssumption DEF SaturatingDeadlineUs, Deadlines
<1>4. /\ Existing(map, c.key, stamp) # None
      /\ o = Changed(map, c.key, [obj |-> obj, cmd |-> c])
      /\ Expire(map, c, stamp) = {o}
  BY <1>1 DEF Expire
<1>5. Existing(map, c.key, stamp) = map[c.key] /\ map[c.key] \in Object
  BY <1>1, <1>4, ExistingType
<1> HIDE DEF deadline
<1>6. obj \in Object /\ obj.type = map[c.key].type /\ obj.value = map[c.key].value
  BY <1>3, <1>5 DEF WithDeadline, Object, StringObject, SetObject, HashObject, ZSetObject
<1>7. HasContent(map[c.key]) => HasContent(obj)
  BY <1>6 DEF HasContent
<1> HIDE DEF obj
<1>8. [obj |-> obj, cmd |-> c] \in MutationResult
  BY <1>6 DEF MutationResult
<1> QED
  BY <1>3, <1>4, <1>5, <1>7, <1>8 DEF Sound, obj

(* What every change to the slot has in common: it comes from one key and  *)
(* a typed result, and the result has content if the slot had.             *)
LEMMA OutcomeIsChange ==
    ASSUME NEW map \in ObjectMap, NEW c \in Command, NEW stamp \in Deadlines,
           NEW o \in Outcomes(map, c, stamp)
    PROVE  \E r \in MutationResult :
             /\ o = Changed(map, c.key, r)
             /\ \/ Sound(r)
                \/ /\ map[c.key] # None
                   /\ HasContent(map[c.key]) => Sound(r)
<1>1. c.key \in Keys /\ c.op \in Ops /\ c.num \in Int
  BY DEF Command
<1>2. ASSUME o \in Del(map, c.key, stamp) \cup DeleteExpiredKey(map, c.key, stamp)
      PROVE  \E r \in MutationResult : o = Changed(map, c.key, r) /\ Sound(r)
  BY <1>1, <1>2, DelResults DEF Sound
<1>3. CASE c.op \in {"DEL", "SWEEP"}
  BY <1>2, <1>3 DEF Outcomes, MutatorOps, SetOps, HashOps, ZSetOps, StringOps
<1>4. CASE c.op = "EXPIRE" /\ c.num <= 0
  <2>1. o \in Del(map, c.key, stamp)
    BY <1>4 DEF Outcomes, Expire, MutatorOps, SetOps, HashOps, ZSetOps, StringOps
  <2> QED
    BY <1>2, <2>1
<1>5. CASE c.op = "EXPIRE" /\ ~(c.num <= 0)
  <2>1. c.num > 0 /\ o \in Expire(map, c, stamp)
    BY <1>1, <1>5 DEF Outcomes, MutatorOps, SetOps, HashOps, ZSetOps, StringOps
  <2>2. PICK d \in Deadlines :
          LET r == [obj |-> WithDeadline(map[c.key], d), cmd |-> c]
          IN  /\ map[c.key] \in Object
              /\ r \in MutationResult
              /\ HasContent(map[c.key]) => Sound(r)
              /\ o = Changed(map, c.key, r)
    BY <2>1, ExpireResults
  <2> QED
    BY <2>2, NoneAssumption
<1>6. CASE c.op \in MutatorOps
  <2>1. o \in Mutate(map, c, stamp)
    BY <1>6 DEF Outcomes, MutatorOps, SetOps, HashOps, ZSetOps, StringOps
  <2>2. \E r : Sound(r) /\ o = Changed(map, c.key, r)
    BY <1>6, <2>1, MutateResults
  <2> QED
    BY <2>2 DEF Sound
<1> QED
  BY <1>1, <1>3, <1>4, <1>5, <1>6 DEF Ops

(* Every outcome of every command is well typed: what is stored stays an   *)
(* object with a deadline inside uint64 and integers inside int64,         *)
(* whatever amounts a client gives.                                        *)
THEOREM OutcomesTyped ==
    ASSUME NEW map \in ObjectMap, NEW c \in Command, NEW stamp \in Deadlines
    PROVE  Outcomes(map, c, stamp) \subseteq Outcome
<1> SUFFICES ASSUME NEW o \in Outcomes(map, c, stamp)
             PROVE  o \in Outcome
  OBVIOUS
<1>1. c.key \in Keys
  BY DEF Command
<1> QED
  BY <1>1, OutcomeIsChange, ChangedType

(* A command touches no key but its own.                                   *)
LEMMA OutcomeChangesOneKey ==
    ASSUME NEW map \in ObjectMap, NEW c \in Command, NEW stamp \in Deadlines,
           NEW o \in Outcomes(map, c, stamp), NEW j \in Keys, j # c.key
    PROVE  o.map[j] = map[j]
<1>1. c.key \in Keys
  BY DEF Command
<1> QED
  BY <1>1, OutcomeIsChange, ChangedType

(* No command leaves an empty container behind.                            *)
THEOREM OutcomeHasContent ==
    ASSUME NEW map \in ObjectMap, NEW c \in Command, NEW stamp \in Deadlines,
           NEW o \in Outcomes(map, c, stamp),
           \A k \in Keys : map[k] # None => HasContent(map[k]),
           NEW k \in Keys, o.map[k] # None
    PROVE  HasContent(o.map[k])
<1>1. c.key \in Keys
  BY DEF Command
<1>2. CASE k # c.key
  <2>1. o.map[k] = map[k]
    BY <1>2, OutcomeChangesOneKey
  <2> QED
    BY <2>1
<1>3. CASE k = c.key
  <2>1. PICK r \in MutationResult : o = Changed(map, k, r) /\ Sound(r)
    BY <1>1, <1>3, OutcomeIsChange
  <2>2. o.map[k] = r.obj
    BY <2>1, ChangedType
  <2> QED
    BY <2>1, <2>2 DEF Sound
<1> QED
  BY <1>2, <1>3

-----------------------------------------------------------------------------
(* Replay.  A logged command, executed at its time stamp on the map the    *)
(* primary had, produces the primary's next map.                           *)

(* The deadline stamped on a record is the one the stored object has.      *)
LEMMA ChangedReplay ==
    ASSUME NEW map \in ObjectMap, NEW k \in Keys, NEW r \in MutationResult,
           NEW o, o = Changed(map, k, r)
    PROVE  SetReplicaDeadline(o.map, k, o.deadline) = o.map
<1>1. /\ o.map \in ObjectMap
      /\ o.map[k] = r.obj
      /\ o.deadline = DeadlineOf(r.obj)
      /\ r.obj \in Object \cup {None}
  <2>1. o \in Outcome /\ o.map[k] = r.obj
    BY ChangedType
  <2>2. o.deadline = DeadlineOf(r.obj)
    BY DEF Changed
  <2>3. r.obj \in Object \cup {None}
    BY DEF MutationResult
  <2> QED
    BY <2>1, <2>2, <2>3 DEF Outcome
<1>2. CASE r.obj = None
  BY <1>1, <1>2 DEF SetReplicaDeadline
<1>3. CASE r.obj # None
  <2>1. WithDeadline(r.obj, r.obj.deadline) = r.obj
    BY <1>1, <1>3 DEF WithDeadline, Object, StringObject, SetObject, HashObject, ZSetObject
  <2>2. [o.map EXCEPT ![k] = WithDeadline(@, o.deadline)] = [o.map EXCEPT ![k] = r.obj]
    BY <1>1, <1>3, <2>1 DEF DeadlineOf
  <2>3. [o.map EXCEPT ![k] = r.obj] = o.map
    BY <1>1 DEF ObjectMap
  <2> QED
    BY <1>1, <1>3, <2>2, <2>3 DEF SetReplicaDeadline
<1> QED
  BY <1>2, <1>3

(* A command whose only outcome is o and that is logged as it stands.      *)
LEMMA SingletonReplay ==
    ASSUME NEW map, NEW c, NEW stamp, NEW o, NEW seq,
           c.op # "DEL", ~IsError(c, Existing(map, c.key, stamp), stamp),
           Outcomes(map, c, stamp) = {o},
           o.cmd = c,
           SetReplicaDeadline(o.map, c.key, o.deadline) = o.map
    PROVE  ApplyRecord(map, Record(seq, o, stamp)) = {o.map}
<1> DEFINE r == Record(seq, o, stamp)
<1>1. r.cmd = c /\ r.at = stamp /\ r.deadline = o.deadline
  BY DEF Record
<1>2. Executed(map, c, stamp) = {o.map}
  BY DEF Executed
<1> QED
  BY <1>1, <1>2 DEF ApplyRecord

(* Every mutator but SPOP's is deterministic and logs the command itself.  *)
LEMMA MutatorLogsItself ==
    ASSUME NEW c, NEW old, NEW stamp, c.op \in MutatorOps \ {"SPOP"},
           NEW r \in Mutator(c, old, stamp)
    PROVE  Mutator(c, old, stamp) = {r} /\ r.cmd = c
<1> USE DEF StoreAs, EraseKey
<1>1. CASE c.op \in {"SADD", "SREM"}
  BY <1>1 DEF Mutator, SAdd, SRem, RemoveMembers
<1>2. CASE c.op \in {"SET", "SETNX", "GETSET", "APPEND"}
  BY <1>2 DEF Mutator, SetCmd, SetNx, GetSet, AppendTo
<1>3. CASE c.op \in {"INCRBY", "DECRBY"}
  BY <1>3 DEF Mutator, IntegerMutation
<1>4. CASE c.op \in {"HSET", "HMSET", "HINCRBY"}
  BY <1>4 DEF Mutator, HSet, HIncrBy
<1>5. CASE c.op \in {"HDEL", "ZREM"}
  BY <1>5 DEF Mutator, RemoveFields
<1>6. CASE c.op \in {"ZADD", "ZINCRBY"}
  BY <1>6 DEF Mutator, ZAdd, IncrementZSetMember
<1> QED
  BY <1>1, <1>2, <1>3, <1>4, <1>5, <1>6 DEF MutatorOps, SetOps, HashOps, ZSetOps, StringOps

LEMMA MutateReplay ==
    ASSUME NEW map \in ObjectMap, NEW c \in Command, c.op \in MutatorOps \ {"SPOP"},
           NEW stamp \in Deadlines, NEW seq, NEW o \in Mutate(map, c, stamp)
    PROVE  ApplyRecord(map, Record(seq, o, stamp)) = {o.map}
<1> DEFINE old == Existing(map, c.key, stamp)
<1>1. c.key \in Keys
  BY DEF Command
<1>2. PICK r \in Mutator(c, old, stamp) : Sound(r) /\ o = Changed(map, c.key, r)
  BY MutateResults
<1>3. ~IsError(c, old, stamp)
  BY MutateResults
<1>4. Mutator(c, old, stamp) = {r} /\ r.cmd = c
  BY <1>2, MutatorLogsItself
<1>5. Outcomes(map, c, stamp) = {o}
  <2>1. Outcomes(map, c, stamp) = Mutate(map, c, stamp)
    BY DEF Outcomes, MutatorOps, SetOps, HashOps, ZSetOps, StringOps
  <2> HIDE DEF old
  <2>2. Mutate(map, c, stamp) = {Changed(map, c.key, x) : x \in Mutator(c, old, stamp)}
    BY <1>3 DEF Mutate, old
  <2> QED
    BY <1>2, <1>4, <2>1, <2>2
<1>6. SetReplicaDeadline(o.map, c.key, o.deadline) = o.map
  BY <1>1, <1>2, ChangedReplay DEF Sound
<1>7. o.cmd = c
  BY <1>2, <1>4 DEF Changed
<1>8. c.op # "DEL"
  BY DEF MutatorOps, SetOps, HashOps, ZSetOps, StringOps
<1> QED
  BY <1>3, <1>5, <1>6, <1>7, <1>8, SingletonReplay

(* SPOP: the record is the SREM of the members that were picked.           *)
LEMMA SPopReplay ==
    ASSUME NEW map \in ObjectMap, NEW c \in Command, c.op = "SPOP",
           NEW stamp \in Deadlines, NEW seq, NEW o \in Mutate(map, c, stamp)
    PROVE  ApplyRecord(map, Record(seq, o, stamp)) = {o.map}
<1> DEFINE old == Existing(map, c.key, stamp)
<1>1. c.op \in MutatorOps
  BY DEF MutatorOps, SetOps
<1>2. PICK r \in Mutator(c, old, stamp) : o = Changed(map, c.key, r)
  BY <1>1, MutateResults
<1>3. ~IsError(c, old, stamp) /\ old \in Object \cup {None}
  BY <1>1, MutateResults
<1>4. ~WrongType(old, "set")
  BY <1>3 DEF IsError, TypeError, SetOps
<1>5. r \in SPop(c, old)
  BY <1>2 DEF Mutator
<1>6. PICK S \in SUBSET Members :
        /\ S # {} /\ S \subseteq old.value
        /\ Cmd("SREM", c.key, S) \in Command
        /\ r = RemoveMembers(old, S, Cmd("SREM", c.key, S))
  BY <1>3, <1>4, <1>5, SPopPicks
<1>7. old # None
  BY <1>3, <1>4, <1>5, SPopPicks
<1> DEFINE d == Cmd("SREM", c.key, S)
<1>8. d.op = "SREM" /\ d.key = c.key /\ d.members = S
  BY DEF Cmd
<1>9. ~IsError(d, old, stamp)
  BY <1>4, <1>6, <1>8 DEF IsError, ArityError, TypeError, IsZIncr, SetOps, HashOps, ZSetOps, StringOps
<1>10. r \in Mutator(d, old, stamp)
  <2>1. MembersOf(old) \cap S # {}
    BY <1>6, <1>7 DEF MembersOf
  <2> QED
    BY <1>6, <1>8, <2>1 DEF Mutator, SRem
<1>11. o \in Mutate(map, d, stamp)
  BY <1>2, <1>8, <1>9, <1>10 DEF Mutate
<1>12. d.op \in MutatorOps \ {"SPOP"}
  BY <1>8 DEF MutatorOps, SetOps
<1> HIDE DEF d
<1> QED
  BY <1>6, <1>11, <1>12, MutateReplay DEF d

(* A logged DEL erases the stored object even when it is expired: at time  *)
(* 0 nothing is.                                                           *)
LEMMA DelReplay ==
    ASSUME NEW map \in ObjectMap, NEW k \in Keys, NEW stamp \in Deadlines, NEW seq,
           NEW o \in Del(map, k, stamp) \cup DeleteExpiredKey(map, k, stamp)
    PROVE  ApplyRecord(map, Record(seq, o, stamp)) = {o.map}
<1> DEFINE d == Cmd("DEL", k, {})
           r == Record(seq, o, stamp)
<1>1. map[k] # None /\ o = Changed(map, k, EraseKey(d))
  BY DelResults
<1>2. map[k] \in Object
  BY <1>1 DEF ObjectMap
<1>3. map[k].deadline \in Nat
  BY <1>2, TimeAssumption DEF Object, StringObject, SetObject, HashObject, ZSetObject, Deadlines
<1>4. ~IsExpired(map[k], 0)
  BY <1>3 DEF IsExpired
<1>5. r.cmd = d /\ d.op = "DEL" /\ d.key = k
  BY <1>1 DEF Record, Changed, EraseKey, Cmd
<1>6. Del(map, k, 0) = {o}
  BY <1>1, <1>4 DEF Del, Existing
<1>7. Outcomes(map, d, 0) = {o}
  BY <1>5, <1>6 DEF Outcomes, MutatorOps, SetOps, HashOps, ZSetOps, StringOps
<1>8. Executed(map, d, 0) = {o.map}
  BY <1>7 DEF Executed
<1> QED
  BY <1>5, <1>8 DEF ApplyRecord

LEMMA ExpireReplay ==
    ASSUME NEW map \in ObjectMap, NEW c \in Command, NEW stamp \in Deadlines, NEW seq,
           c.op = "EXPIRE", NEW o \in Expire(map, c, stamp)
    PROVE  ApplyRecord(map, Record(seq, o, stamp)) = {o.map}
<1>1. c.key \in Keys /\ c.num \in Int
  BY DEF Command
<1>2. CASE c.num <= 0
  BY <1>1, <1>2, DelReplay DEF Expire
<1>3. CASE ~(c.num <= 0)
  <2>1. c.num > 0
    BY <1>1, <1>3
  <2>2. PICK d \in Deadlines :
          LET r == [obj |-> WithDeadline(map[c.key], d), cmd |-> c]
          IN  /\ r \in MutationResult
              /\ Expire(map, c, stamp) = {o}
              /\ o = Changed(map, c.key, r)
    BY <2>1, ExpireResults
  <2>3. SetReplicaDeadline(o.map, c.key, o.deadline) = o.map
    BY <1>1, <2>2, ChangedReplay
  <2>4. o.cmd = c
    BY <2>2 DEF Changed
  <2>5. Outcomes(map, c, stamp) = {o}
    BY <2>2 DEF Outcomes, MutatorOps, SetOps, HashOps, ZSetOps, StringOps
  <2>6. ~IsError(c, Existing(map, c.key, stamp), stamp)
    BY DEF IsError, ArityError, TypeError, IsZIncr, SetOps, HashOps, ZSetOps, StringOps
  <2> QED
    BY <2>3, <2>4, <2>5, <2>6, SingletonReplay
<1> QED
  BY <1>2, <1>3

(* The record of any write, replayed on the map the primary had before it, *)
(* yields exactly the map the primary has after it and never an error.     *)
THEOREM ReplayReproducesWrite ==
    ASSUME NEW map \in ObjectMap, NEW c \in Command, NEW stamp \in Deadlines, NEW seq,
           NEW o \in Outcomes(map, c, stamp)
    PROVE  ApplyRecord(map, Record(seq, o, stamp)) = {o.map}
<1>1. c.key \in Keys /\ c.op \in Ops
  BY DEF Command
<1>2. CASE c.op \in {"DEL", "SWEEP"}
  <2>1. o \in Del(map, c.key, stamp) \cup DeleteExpiredKey(map, c.key, stamp)
    BY <1>2 DEF Outcomes, MutatorOps, SetOps, HashOps, ZSetOps, StringOps
  <2> QED
    BY <1>1, <2>1, DelReplay
<1>3. CASE c.op = "EXPIRE"
  <2>1. o \in Expire(map, c, stamp)
    BY <1>3 DEF Outcomes, MutatorOps, SetOps, HashOps, ZSetOps, StringOps
  <2> QED
    BY <1>3, <2>1, ExpireReplay
<1>4. CASE c.op \in MutatorOps
  <2>1. o \in Mutate(map, c, stamp)
    BY <1>4 DEF Outcomes, MutatorOps, SetOps, HashOps, ZSetOps, StringOps
  <2> QED
    BY <1>4, <2>1, MutateReplay, SPopReplay
<1> QED
  BY <1>1, <1>2, <1>3, <1>4 DEF Ops

-----------------------------------------------------------------------------
(* The slot that runs them.                                                *)

LEMMA NoCommandType == NoCommand \in Command
BY KeysAssumption, CmdType DEF NoCommand, Ops

LEMMA EmptyMapType == EmptyMap \in ObjectMap
BY DEF EmptyMap, ObjectMap

LEMMA NoOutcomeType == NoOutcome \in Outcome
BY NoCommandType, EmptyMapType, TimeAssumption DEF NoOutcome, Outcome, Deadlines

LEMMA IssuedType == Issued \subseteq Command
<1>1. \A k \in Keys : Cmd("SWEEP", k, {}) \in Command
  BY CmdType DEF Ops
<1> QED
  BY <1>1, CommandAssumption DEF Issued

(* The number of records an acknowledgement pops from a gapless log.       *)
LEMMA AckCountType ==
    ASSUME NEW log \in Seq(BinlogRecord), NEW last \in Nat, NEW seq \in Nat,
           Gapless(log, last)
    PROVE  AckCount(log, seq) \in 0 .. Len(log)
<1> DEFINE L == Len(log)
           first == last - L
           P(n) == /\ \A i \in 1 .. n : log[i].seq <= seq
                   /\ n < L => log[n + 1].seq > seq
<1>0. L \in Nat
  OBVIOUS
<1> USE DEF Gapless
<1>1. \E n \in 0 .. L : P(n)
  <2>1. CASE seq < first
    <3>1. P(0)
      BY <1>0, <2>1
    <3> QED
      BY <1>0, <3>1
  <2>2. CASE seq >= last
    <3>1. P(L)
      BY <1>0, <2>2
    <3> QED
      BY <1>0, <3>1
  <2>3. CASE first <= seq /\ seq < last
    <3> DEFINE n == seq - first
    <3>1. n \in 0 .. L
      BY <1>0, <2>3
    <3>2. P(n)
      BY <1>0, <2>3, <3>1
    <3> QED
      BY <3>1, <3>2
  <2> QED
    BY <1>0, <2>1, <2>2, <2>3
<1> QED
  BY <1>1 DEF AckCount

LEMMA AckThroughSuffix ==
    ASSUME NEW log \in Seq(BinlogRecord), NEW last \in Nat, NEW seq \in Nat,
           Gapless(log, last)
    PROVE  /\ AckThrough(log, seq) \in Seq(BinlogRecord)
           /\ Len(AckThrough(log, seq)) = Len(log) - AckCount(log, seq)
           /\ \A i \in 1 .. Len(AckThrough(log, seq)) :
                AckThrough(log, seq)[i] = log[AckCount(log, seq) + i]
<1> DEFINE n == AckCount(log, seq)
<1>1. n \in 0 .. Len(log)
  BY AckCountType
<1> HIDE DEF n
<1>2. /\ SubSeq(log, n + 1, Len(log)) \in Seq(BinlogRecord)
      /\ Len(SubSeq(log, n + 1, Len(log))) = Len(log) - n
      /\ \A i \in 1 .. Len(log) - n : SubSeq(log, n + 1, Len(log))[i] = log[n + i]
  BY <1>1
<1> QED
  BY <1>1, <1>2 DEF AckThrough, n

(* Trimming and appending keep a log gapless.                              *)
LEMMA AckThroughGapless ==
    ASSUME NEW log \in Seq(BinlogRecord), NEW last \in Nat, NEW seq \in Nat,
           Gapless(log, last)
    PROVE  Gapless(AckThrough(log, seq), last)
<1> DEFINE n == AckCount(log, seq)
           s == AckThrough(log, seq)
<1>1. n \in 0 .. Len(log)
  BY AckCountType
<1>2. /\ Len(s) = Len(log) - n
      /\ \A i \in 1 .. Len(s) : s[i] = log[n + i]
  BY AckThroughSuffix
<1> HIDE DEF n, s
<1>3. ASSUME NEW i \in 1 .. Len(s)
      PROVE  s[i].seq = last - Len(s) + i
  <2>1. n + i \in 1 .. Len(log)
    BY <1>1, <1>2
  <2>2. log[n + i].seq = last - Len(log) + (n + i)
    BY <2>1 DEF Gapless
  <2>3. Len(log) \in Nat /\ Len(s) \in Nat /\ n \in Nat /\ i \in Nat
    BY <1>1, <1>2
  <2>4. last - Len(log) + (n + i) = last - Len(s) + i
    BY <1>2, <2>3
  <2>5. s[i] = log[n + i]
    BY <1>2
  <2> QED
    BY <2>2, <2>4, <2>5
<1> QED
  BY <1>3 DEF Gapless, s

LEMMA AppendGapless ==
    ASSUME NEW log \in Seq(BinlogRecord), NEW last \in Nat, NEW r \in BinlogRecord,
           r.seq = last + 1, Gapless(log, last)
    PROVE  Gapless(Append(log, r), last + 1)
<1> DEFINE s == Append(log, r)
<1>1. Len(s) = Len(log) + 1 /\ Len(log) \in Nat
  OBVIOUS
<1>2. \A i \in 1 .. Len(log) : s[i] = log[i]
  OBVIOUS
<1>3. s[Len(log) + 1] = r
  OBVIOUS
<1> HIDE DEF s
<1>4. ASSUME NEW i \in 1 .. Len(s)
      PROVE  s[i].seq = last + 1 - Len(s) + i
  <2>1. CASE i \in 1 .. Len(log)
    BY <1>1, <1>2, <2>1 DEF Gapless
  <2>2. CASE i = Len(log) + 1
    BY <1>1, <1>3, <2>2
  <2> QED
    BY <1>1, <2>1, <2>2
<1> QED
  BY <1>4 DEF Gapless, s

-----------------------------------------------------------------------------
(* Type correctness: in every reachable state of the slot and its threads  *)
(* every stored object is well formed and no deadline exceeds uint64.      *)
(* LogContiguous is carried along because trimming needs it.               *)

LEMMA InitType == Init => TypeOK /\ LogContiguous
<1> SUFFICES ASSUME Init PROVE TypeOK /\ LogContiguous
  OBVIOUS
<1>1. /\ 1 \in Deadlines
      /\ 1 \in 1 .. MaxTime
      /\ 0 \in 0 .. MaxCalls
  BY TimeAssumption, BoundAssumption DEF Deadlines
<1>2. <<EmptyMap>> \in Seq(ObjectMap)
  BY EmptyMapType
<1>3. TypeOK
  BY <1>1, <1>2, NoCommandType, NoOutcomeType, EmptyMapType DEF Init, TypeOK
<1>4. LogContiguous
  BY DEF Init, LogContiguous, Gapless
<1> QED
  BY <1>3, <1>4

LEMMA ReturnType ==
    ASSUME TypeOK, NEW t \in Threads, Return(t)
    PROVE  /\ pc' \in [Threads -> {"idle", "lock", "append", "publish"}]
           /\ cmd' \in [Threads -> Command]
           /\ now' \in [Threads -> Deadlines]
           /\ next' \in [Threads -> Outcome]
<1>1. 1 \in Deadlines
  BY TimeAssumption DEF Deadlines
<1> QED
  BY <1>1, NoCommandType, NoOutcomeType DEF TypeOK, Return

LEMMA StepType == TypeOK /\ LogContiguous /\ [Next]_vars => TypeOK' /\ LogContiguous'
<1> SUFFICES ASSUME TypeOK, LogContiguous, [Next]_vars
             PROVE  TypeOK' /\ LogContiguous'
  OBVIOUS
<1> USE DEF TypeOK
<1>1. CASE Tick
  BY <1>1, BoundAssumption DEF Tick, slotVars, LogContiguous
<1>2. ASSUME NEW t \in Clients, Call(t)
      PROVE  TypeOK' /\ LogContiguous'
  <2>1. clock \in Deadlines
    BY BoundAssumption, TimeAssumption DEF Deadlines
  <2>2. t \in Threads
    BY DEF Threads
  <2>3. PICK c \in Commands : cmd' = [cmd EXCEPT ![t] = c]
    BY <1>2 DEF Call
  <2>4. c \in Command
    BY <2>3, CommandAssumption
  <2>5. cmd' \in [Threads -> Command]
    BY <2>2, <2>3, <2>4
  <2>6. calls' \in 0 .. MaxCalls
    BY <1>2, BoundAssumption DEF Call
  <2> QED
    BY <1>2, <2>1, <2>2, <2>5, <2>6 DEF Call, slotVars, LogContiguous
<1>2a. CASE SweepOnce
  <2>1. clock \in Deadlines
    BY BoundAssumption, TimeAssumption DEF Deadlines
  <2> QED
    BY <1>2a, <2>1 DEF SweepOnce, slotVars, LogContiguous, Threads
<1>3. CASE SweepSnapshot
  <2>1. expiredKeys' \in SUBSET Keys
    BY <1>3 DEF SweepSnapshot, ExpiredIn
  <2> QED
    BY <1>3, <2>1 DEF SweepSnapshot, slotVars, LogContiguous
<1>4. CASE SweepNextKey
  <2>1. PICK k \in expiredKeys : /\ cmd' = [cmd EXCEPT ![Sweeper] = Cmd("SWEEP", k, {})]
                                 /\ expiredKeys' = expiredKeys \ {k}
    BY <1>4 DEF SweepNextKey
  <2>2. Cmd("SWEEP", k, {}) \in Command
    BY <2>1, CmdType DEF Ops
  <2>3. cmd' \in [Threads -> Command]
    BY <2>1, <2>2
  <2> QED
    BY <1>4, <2>1, <2>3 DEF SweepNextKey, slotVars, LogContiguous, Threads
<1>5. ASSUME NEW t \in Threads, ReturnUnchanged(t)
      PROVE  TypeOK' /\ LogContiguous'
  BY <1>5, ReturnType DEF ReturnUnchanged, slotVars, LogContiguous
<1>6. ASSUME NEW t \in Threads, LockAndCompute(t)
      PROVE  TypeOK' /\ LogContiguous'
  <2>1. PICK o \in Outcomes(objMap, cmd[t], now[t]) : next' = [next EXCEPT ![t] = o]
    BY <1>6 DEF LockAndCompute
  <2>2. o \in Outcome
    BY <2>1, OutcomesTyped
  <2> QED
    BY <1>6, <2>1, <2>2 DEF LockAndCompute, LogContiguous
<1>7. ASSUME NEW t \in Threads, AppendLog(t)
      PROVE  TypeOK' /\ LogContiguous'
  <2> DEFINE r == Record(slotSeq + 1, next[t], now[t])
  <2>1. r \in BinlogRecord
    BY DEF Record, BinlogRecord, Outcome
  <2>2. r.seq = slotSeq + 1
    BY DEF Record
  <2> HIDE DEF r
  <2>3. binlog' = Append(binlog, r)
    BY <1>7 DEF AppendLog, r
  <2>4. binlog' \in Seq(BinlogRecord)
    BY <2>1, <2>3
  <2>5. Gapless(binlog', slotSeq + 1)
    BY <2>1, <2>2, <2>3, AppendGapless DEF LogContiguous
  <2>6. LogContiguous'
    BY <1>7, <2>5 DEF AppendLog, LogContiguous
  <2> QED
    BY <1>7, <2>4, <2>6 DEF AppendLog
<1>8. ASSUME NEW t \in Threads, Publish(t)
      PROVE  TypeOK' /\ LogContiguous'
  <2>1. objMap' \in ObjectMap
    BY <1>8 DEF Publish, Outcome
  <2>2. history' \in Seq(ObjectMap)
    BY <1>8, <2>1 DEF Publish
  <2> QED
    BY <1>8, <2>1, <2>2, ReturnType DEF Publish, LogContiguous
<1>9. ASSUME NEW seq \in 1 .. slotSeq, AckLogsThrough(seq)
      PROVE  TypeOK' /\ LogContiguous'
  <2>1. seq \in Nat
    OBVIOUS
  <2>2. binlog' = AckThrough(binlog, seq) /\ slotSeq' = slotSeq
    BY <1>9 DEF AckLogsThrough
  <2>3. binlog' \in Seq(BinlogRecord)
    BY <2>1, <2>2, AckThroughSuffix DEF LogContiguous
  <2>4. LogContiguous'
    BY <2>1, <2>2, AckThroughGapless DEF LogContiguous
  <2> QED
    BY <1>9, <2>3, <2>4 DEF AckLogsThrough
<1>10. CASE UNCHANGED vars
  BY <1>10 DEF vars, slotVars, LogContiguous
<1> QED
  BY <1>1, <1>2, <1>2a, <1>3, <1>4, <1>5, <1>6, <1>7, <1>8, <1>9, <1>10 DEF Next, Step

(* Type correctness of the slot and of the threads' locals.                *)
THEOREM TypeCorrect == Spec => []TypeOK
<1>1. Spec => [](TypeOK /\ LogContiguous)
  BY InitType, StepType, PTL DEF Spec
<1> QED
  BY <1>1, PTL

(* The retained binlog of a slot never has a gap and ends at slot_seq_,    *)
(* whatever the interleaving of writers, sweeper and trimming.             *)
THEOREM LogHasNoGap == Spec => []LogContiguous
<1>1. Spec => [](TypeOK /\ LogContiguous)
  BY InitType, StepType, PTL DEF Spec
<1> QED
  BY <1>1, PTL

-----------------------------------------------------------------------------
(* The inductive invariant.                                                *)

LEMMA SlotInvInit == Init => SlotInv
<1> SUFFICES ASSUME Init PROVE SlotInv
  OBVIOUS
<1>1. MutexHeld /\ PendingIsCurrent /\ PendingIsLogged
  BY ThreadAssumption DEF Init, MutexHeld, PendingIsCurrent, PendingIsLogged
<1>2. StampsAndCommands
  BY BoundAssumption DEF Init, StampsAndCommands
<1>3. SnapshotConsistent
  BY DEF Init, SnapshotConsistent
<1>4. LogContiguous /\ Len(binlog) <= slotSeq
  BY DEF Init, LogContiguous, Gapless
<1> QED
  BY <1>1, <1>2, <1>3, <1>4 DEF SlotInv

(* A step of a thread that is not writing changes neither the slot nor the *)
(* threads that are.                                                       *)
LEMMA QuietStep ==
    ASSUME TypeOK, SlotInv, NEW t \in Threads,
           pc[t] \notin {"append", "publish"},
           pc' \in [Threads -> {"idle", "lock", "append", "publish"}],
           pc'[t] \notin {"append", "publish"},
           \A u \in Threads \ {t} :
               pc'[u] = pc[u] /\ cmd'[u] = cmd[u] /\ now'[u] = now[u] /\ next'[u] = next[u],
           now'[t] \in 1 .. MaxTime,
           pc'[t] # "idle" => cmd'[t] \in Issued,
           UNCHANGED <<slotVars, history>>
    PROVE  SlotInv'
<1>1. MutexHeld'
  BY DEF SlotInv, MutexHeld, slotVars
<1>2. PendingIsCurrent'
  BY DEF SlotInv, PendingIsCurrent, slotVars
<1>3. PendingIsLogged'
  BY DEF SlotInv, PendingIsLogged, slotVars
<1>4. StampsAndCommands'
  BY DEF SlotInv, StampsAndCommands
<1>5. (\E u \in Threads : pc'[u] = "publish") <=> (\E u \in Threads : pc[u] = "publish")
  OBVIOUS
<1>6. SnapshotConsistent'
  BY <1>5 DEF SlotInv, SnapshotConsistent, slotVars
<1>7. LogContiguous' /\ (Len(binlog) <= slotSeq)'
  BY DEF SlotInv, LogContiguous, slotVars
<1> QED
  BY <1>1, <1>2, <1>3, <1>4, <1>6, <1>7 DEF SlotInv

LEMMA SlotInvLock ==
    ASSUME TypeOK, TypeOK', SlotInv, NEW t \in Threads, LockAndCompute(t)
    PROVE  SlotInv'
<1> USE DEF LockAndCompute
<1>1. \A u \in Threads : pc[u] \notin {"append", "publish"}
  BY ThreadAssumption DEF SlotInv, MutexHeld
<1>2. pc' = [pc EXCEPT ![t] = "append"] /\ writeMutex' = t
  OBVIOUS
<1>3. MutexHeld'
  BY <1>1, <1>2 DEF TypeOK, MutexHeld
<1>4. PendingIsCurrent'
  <2>1. PICK o \in Outcomes(objMap, cmd[t], now[t]) : next' = [next EXCEPT ![t] = o]
    OBVIOUS
  <2>2. next'[t] \in Outcomes(objMap, cmd[t], now[t])
    BY <2>1 DEF TypeOK
  <2> QED
    BY <1>1, <1>2, <2>2 DEF TypeOK, PendingIsCurrent
<1>5. PendingIsLogged'
  BY <1>1, <1>2 DEF TypeOK, PendingIsLogged
<1>6. StampsAndCommands'
  BY DEF SlotInv, StampsAndCommands, TypeOK
<1>7. ~\E u \in Threads : pc'[u] = "publish"
  BY <1>1, <1>2 DEF TypeOK
<1>8. SnapshotConsistent'
  BY <1>1, <1>7 DEF SlotInv, SnapshotConsistent
<1>9. LogContiguous' /\ (Len(binlog) <= slotSeq)'
  BY DEF SlotInv, LogContiguous
<1> QED
  BY <1>3, <1>4, <1>5, <1>6, <1>8, <1>9 DEF SlotInv

LEMMA SlotInvAppend ==
    ASSUME TypeOK, TypeOK', LogContiguous', SlotInv, NEW t \in Threads, AppendLog(t)
    PROVE  SlotInv'
<1> USE DEF AppendLog
<1>1. writeMutex = t /\ \A u \in Threads \ {t} : pc[u] \notin {"append", "publish"}
  BY DEF SlotInv, MutexHeld
<1>2. pc' = [pc EXCEPT ![t] = "publish"] /\ writeMutex' = t
  BY <1>1
<1>3. MutexHeld'
  BY <1>1, <1>2 DEF TypeOK, MutexHeld
<1>4. PendingIsCurrent'
  BY <1>1, <1>2 DEF SlotInv, TypeOK, PendingIsCurrent
<1> DEFINE r == Record(slotSeq + 1, next[t], now[t])
<1>5. r \in BinlogRecord
  BY DEF Record, BinlogRecord, Outcome, TypeOK
<1>6. /\ Len(binlog') = Len(binlog) + 1
      /\ binlog'[Len(binlog) + 1] = r
      /\ Len(binlog) \in Nat
  <2> HIDE DEF r
  <2>1. binlog' = Append(binlog, r)
    BY DEF r
  <2> QED
    BY <1>5, <2>1 DEF TypeOK
<1>7. PendingIsLogged'
  BY <1>1, <1>2, <1>6 DEF TypeOK, PendingIsLogged
<1>8. StampsAndCommands'
  BY DEF SlotInv, StampsAndCommands, TypeOK
<1>9. SnapshotConsistent'
  <2>1. ~\E u \in Threads : pc[u] = "publish"
    BY <1>1
  <2>2. slotSeq = publishedSeq
    BY <2>1 DEF SlotInv, SnapshotConsistent, TypeOK
  <2>3. \E u \in Threads : pc'[u] = "publish"
    BY <1>2 DEF TypeOK
  <2>4. slotSeq' = publishedSeq' + 1
    BY <2>2
  <2> QED
    BY <2>3, <2>4 DEF SlotInv, SnapshotConsistent
<1>10. (Len(binlog) <= slotSeq)'
  BY <1>6 DEF SlotInv, TypeOK
<1> QED
  BY <1>3, <1>4, <1>7, <1>8, <1>9, <1>10 DEF SlotInv

LEMMA SlotInvPublish ==
    ASSUME TypeOK, TypeOK', SlotInv, NEW t \in Threads, Publish(t)
    PROVE  SlotInv'
<1> USE DEF Publish, Return
<1>1. writeMutex = t /\ \A u \in Threads \ {t} : pc[u] \notin {"append", "publish"}
  BY DEF SlotInv, MutexHeld
<1>2. pc' = [pc EXCEPT ![t] = "idle"] /\ writeMutex' = NoThread
  OBVIOUS
<1>3. \A u \in Threads : pc'[u] \notin {"append", "publish"}
  BY <1>1, <1>2 DEF TypeOK
<1>4. MutexHeld'
  BY <1>2, <1>3, ThreadAssumption DEF MutexHeld
<1>5. PendingIsCurrent' /\ PendingIsLogged'
  BY <1>3 DEF PendingIsCurrent, PendingIsLogged
<1>6. StampsAndCommands'
  BY BoundAssumption DEF SlotInv, StampsAndCommands, TypeOK
<1>7. SnapshotConsistent'
  <2>1. Len(history) = publishedSeq + 1 /\ slotSeq = publishedSeq + 1
    BY DEF SlotInv, SnapshotConsistent
  <2>2. history' = Append(history, objMap') /\ objMap' \in ObjectMap
    BY DEF TypeOK
  <2>3. Len(history') = Len(history) + 1 /\ history'[Len(history) + 1] = objMap'
    BY <2>2 DEF TypeOK
  <2>4. ~\E u \in Threads : pc'[u] = "publish"
    BY <1>3
  <2> QED
    BY <2>1, <2>3, <2>4 DEF SnapshotConsistent, TypeOK
<1>8. LogContiguous' /\ (Len(binlog) <= slotSeq)'
  BY DEF SlotInv, LogContiguous
<1> QED
  BY <1>4, <1>5, <1>6, <1>7, <1>8 DEF SlotInv

LEMMA SlotInvAck ==
    ASSUME TypeOK, TypeOK', LogContiguous', SlotInv,
           NEW seq \in 1 .. slotSeq, AckLogsThrough(seq)
    PROVE  SlotInv'
<1> USE DEF AckLogsThrough
<1>1. \A u \in Threads : pc[u] \notin {"append", "publish"}
  BY ThreadAssumption DEF SlotInv, MutexHeld
<1>2. MutexHeld' /\ PendingIsCurrent' /\ PendingIsLogged'
  BY <1>1 DEF SlotInv, MutexHeld, PendingIsCurrent, PendingIsLogged
<1>3. StampsAndCommands' /\ SnapshotConsistent'
  BY DEF SlotInv, StampsAndCommands, SnapshotConsistent
<1>4. (Len(binlog) <= slotSeq)'
  <2>1. seq \in Nat /\ slotSeq \in Nat /\ binlog \in Seq(BinlogRecord)
    BY DEF TypeOK
  <2>2. Gapless(binlog, slotSeq)
    BY DEF SlotInv, LogContiguous
  <2>3. Len(binlog') = Len(binlog) - AckCount(binlog, seq)
    BY <2>1, <2>2, AckThroughSuffix
  <2>4. AckCount(binlog, seq) \in 0 .. Len(binlog)
    BY <2>1, <2>2, AckCountType
  <2> QED
    BY <2>1, <2>3, <2>4 DEF SlotInv
<1> QED
  BY <1>2, <1>3, <1>4 DEF SlotInv

LEMMA SlotInvStep ==
    TypeOK /\ TypeOK' /\ LogContiguous' /\ SlotInv /\ [Next]_vars => SlotInv'
<1> SUFFICES ASSUME TypeOK, TypeOK', LogContiguous', SlotInv, [Next]_vars
             PROVE  SlotInv'
  OBVIOUS
<1>0. clock \in 1 .. MaxTime
  BY DEF TypeOK
<1>1. CASE Tick
  <2>1. UNCHANGED <<slotVars, pc, cmd, now, next, history>>
    BY <1>1 DEF Tick
  <2> QED
    BY <2>1 DEF SlotInv, slotVars, MutexHeld, PendingIsCurrent, PendingIsLogged,
                StampsAndCommands, SnapshotConsistent, LogContiguous
<1>2. ASSUME NEW t \in Clients, Call(t)
      PROVE  SlotInv'
  <2>1. t \in Threads
    BY DEF Threads
  <2>2. PICK c \in Commands : cmd' = [cmd EXCEPT ![t] = c]
    BY <1>2 DEF Call
  <2>3. cmd'[t] \in Issued
    BY <2>1, <2>2 DEF Issued, TypeOK
  <2>4. /\ pc[t] = "idle" /\ pc'[t] = "lock" /\ now'[t] = clock
        /\ \A u \in Threads \ {t} :
             pc'[u] = pc[u] /\ cmd'[u] = cmd[u] /\ now'[u] = now[u] /\ next'[u] = next[u]
        /\ UNCHANGED <<slotVars, history>>
    BY <1>2, <2>1, <2>2 DEF Call, TypeOK
  <2> QED
    BY <1>0, <2>1, <2>3, <2>4, QuietStep DEF TypeOK
<1>2a. CASE SweepOnce
  <2>1. Sweeper \in Threads
    BY DEF Threads
  <2>2. /\ pc[Sweeper] = "idle" /\ pc' = pc /\ now'[Sweeper] = clock
        /\ \A u \in Threads \ {Sweeper} :
             pc'[u] = pc[u] /\ cmd'[u] = cmd[u] /\ now'[u] = now[u] /\ next'[u] = next[u]
        /\ UNCHANGED <<slotVars, history>>
    BY <1>2a, <2>1 DEF SweepOnce, TypeOK
  <2> QED
    BY <1>0, <2>1, <2>2, QuietStep DEF TypeOK
<1>3. CASE SweepSnapshot
  BY <1>3
  DEF SweepSnapshot, SlotInv, slotVars, MutexHeld, PendingIsCurrent, PendingIsLogged,
      StampsAndCommands, SnapshotConsistent, LogContiguous
<1>4. CASE SweepNextKey
  <2>1. Sweeper \in Threads
    BY DEF Threads
  <2>2. PICK k \in expiredKeys : cmd' = [cmd EXCEPT ![Sweeper] = Cmd("SWEEP", k, {})]
    BY <1>4 DEF SweepNextKey
  <2>3. cmd'[Sweeper] \in Issued
    BY <2>1, <2>2 DEF Issued, TypeOK
  <2>4. /\ pc[Sweeper] = "idle" /\ pc'[Sweeper] = "lock" /\ now'[Sweeper] = now[Sweeper]
        /\ \A u \in Threads \ {Sweeper} :
             pc'[u] = pc[u] /\ cmd'[u] = cmd[u] /\ now'[u] = now[u] /\ next'[u] = next[u]
        /\ UNCHANGED <<slotVars, history>>
    BY <1>4, <2>1, <2>2 DEF SweepNextKey, TypeOK
  <2>5. now'[Sweeper] \in 1 .. MaxTime
    BY <2>1, <2>4 DEF SlotInv, StampsAndCommands
  <2> QED
    BY <2>1, <2>3, <2>4, <2>5, QuietStep DEF TypeOK
<1>5. ASSUME NEW t \in Threads, ReturnUnchanged(t)
      PROVE  SlotInv'
  <2>1. /\ pc[t] = "lock" /\ pc'[t] = "idle"
        /\ \A u \in Threads \ {t} :
             pc'[u] = pc[u] /\ cmd'[u] = cmd[u] /\ now'[u] = now[u] /\ next'[u] = next[u]
        /\ UNCHANGED <<slotVars, history>>
    BY <1>5 DEF ReturnUnchanged, Return, TypeOK
  <2>2. now'[t] \in 1 .. MaxTime
    BY <1>5, BoundAssumption
    DEF ReturnUnchanged, Return, TypeOK, SlotInv, StampsAndCommands
  <2> QED
    BY <2>1, <2>2, QuietStep DEF TypeOK
<1>6. ASSUME NEW t \in Threads, LockAndCompute(t)
      PROVE  SlotInv'
  BY <1>6, SlotInvLock
<1>7. ASSUME NEW t \in Threads, AppendLog(t)
      PROVE  SlotInv'
  BY <1>7, SlotInvAppend
<1>8. ASSUME NEW t \in Threads, Publish(t)
      PROVE  SlotInv'
  BY <1>8, SlotInvPublish
<1>9. ASSUME NEW seq \in 1 .. slotSeq, AckLogsThrough(seq)
      PROVE  SlotInv'
  BY <1>9, SlotInvAck
<1>10. CASE UNCHANGED vars
  BY <1>10 DEF vars, slotVars, SlotInv, MutexHeld, PendingIsCurrent, PendingIsLogged,
               StampsAndCommands, SnapshotConsistent, LogContiguous
<1> QED
  BY <1>1, <1>2, <1>2a, <1>3, <1>4, <1>5, <1>6, <1>7, <1>8, <1>9, <1>10 DEF Next, Step

(* Mutual exclusion of the writers, and what it buys: the outcome a writer *)
(* computed is never stale, and map and published_seq_ always belong       *)
(* together.                                                               *)
THEOREM SlotInvariant == Spec => []SlotInv
<1>1. Init => TypeOK /\ LogContiguous /\ SlotInv
  BY InitType, SlotInvInit
<1>2. /\ TypeOK /\ LogContiguous /\ SlotInv
      /\ [Next]_vars
      => TypeOK' /\ LogContiguous' /\ SlotInv'
  BY StepType, SlotInvStep
<1>3. Spec => [](TypeOK /\ LogContiguous /\ SlotInv)
  BY <1>1, <1>2, PTL DEF Spec
<1> QED
  BY <1>3, PTL

(* A snapshot taken at any moment, even between the log append and the     *)
(* publication of a write, pairs the map with the number of the write that *)
(* produced it.                                                            *)
THEOREM SnapshotsAreConsistent == Spec => []SnapshotConsistent
<1>1. SlotInv => SnapshotConsistent
  BY DEF SlotInv
<1> QED
  BY <1>1, SlotInvariant, PTL

-----------------------------------------------------------------------------
(* Replay.                                                                 *)

LEMMA ReplayInit == Init => ReplayMatches
BY DEF Init, ReplayMatches

LEMMA ReplayPublish ==
    ASSUME TypeOK, TypeOK', SlotInv, ReplayMatches, NEW t \in Threads, Publish(t)
    PROVE  ReplayMatches'
<1> USE DEF Publish
<1>1. /\ Len(history) = publishedSeq + 1
      /\ slotSeq = publishedSeq + 1
      /\ objMap = history[publishedSeq + 1]
  BY DEF SlotInv, SnapshotConsistent
<1>2. /\ history' = Append(history, next[t].map)
      /\ next[t].map \in ObjectMap
      /\ history \in Seq(ObjectMap)
  BY DEF TypeOK, Outcome
<1>3. /\ Len(history') = Len(history) + 1
      /\ \A n \in 1 .. Len(history) : history'[n] = history[n]
      /\ history'[Len(history) + 1] = next[t].map
  BY <1>2
<1>4. /\ binlog' = binlog /\ binlog \in Seq(BinlogRecord)
      /\ Len(binlog) \in Nat /\ Len(binlog) <= slotSeq
      /\ \A i \in 1 .. Len(binlog) : binlog[i].seq = slotSeq - Len(binlog) + i
  BY DEF TypeOK, SlotInv, LogContiguous, Gapless
<1>5. slotSeq \in Nat /\ publishedSeq \in Nat
  BY DEF TypeOK
<1>6. ASSUME NEW i \in 1 .. Len(binlog), binlog[i].seq < Len(history')
      PROVE  ApplyRecord(history'[binlog[i].seq], binlog[i]) = {history'[binlog[i].seq + 1]}
  <2> DEFINE r == binlog[i]
  <2>1. r.seq \in 1 .. slotSeq /\ r.seq = slotSeq - Len(binlog) + i
    BY <1>4, <1>5
  <2>2. history'[r.seq] = history[r.seq]
    BY <1>1, <1>3, <1>5, <2>1
  <2>3. CASE r.seq < Len(history)
    <3>1. ApplyRecord(history[r.seq], r) = {history[r.seq + 1]}
      BY <2>3 DEF ReplayMatches
    <3>2. r.seq + 1 \in 1 .. Len(history)
      <4> HIDE DEF r
      <4> QED
        BY ONLY <1>1, <1>5, <2>1, <2>3
    <3>3. history'[r.seq + 1] = history[r.seq + 1]
      BY <1>3, <3>2
    <3> QED
      BY <2>2, <3>1, <3>3
  <2>4. CASE ~(r.seq < Len(history))
    <3>0. r.seq = slotSeq
      BY <1>1, <1>5, <2>1, <2>4
    <3>1. r.seq = slotSeq /\ i = Len(binlog)
      <4> HIDE DEF r
      <4>1. slotSeq = slotSeq - Len(binlog) + i
        BY <2>1, <3>0
      <4> QED
        BY <1>4, <1>5, <3>0, <4>1
    <3>2. r = Record(slotSeq, next[t], now[t])
      BY <3>1 DEF SlotInv, PendingIsLogged
    <3>3. next[t] \in Outcomes(objMap, cmd[t], now[t])
      BY DEF SlotInv, PendingIsCurrent
    <3>4. objMap \in ObjectMap /\ cmd[t] \in Command /\ now[t] \in Deadlines
      BY DEF TypeOK
    <3>5. ApplyRecord(objMap, r) = {next[t].map}
      BY <3>2, <3>3, <3>4, ReplayReproducesWrite
    <3>6. history[r.seq] = objMap /\ history'[r.seq + 1] = next[t].map
      BY <1>1, <1>3, <3>1
    <3> QED
      BY <2>2, <3>5, <3>6
  <2> QED
    BY <2>3, <2>4
<1> QED
  BY <1>4, <1>6 DEF ReplayMatches

LEMMA ReplayStep ==
    TypeOK /\ TypeOK' /\ SlotInv /\ ReplayMatches /\ [Next]_vars => ReplayMatches'
<1> SUFFICES ASSUME TypeOK, TypeOK', SlotInv, ReplayMatches, [Next]_vars
             PROVE  ReplayMatches'
  OBVIOUS
<1>1. CASE UNCHANGED <<binlog, history>>
  BY <1>1 DEF ReplayMatches
<1>2. ASSUME NEW t \in Threads, AppendLog(t)
      PROVE  ReplayMatches'
  <2> DEFINE r == Record(slotSeq + 1, next[t], now[t])
  <2>1. r \in BinlogRecord /\ r.seq = slotSeq + 1
    BY DEF Record, BinlogRecord, Outcome, TypeOK
  <2> HIDE DEF r
  <2>2. binlog' = Append(binlog, r) /\ history' = history
    BY <1>2 DEF AppendLog, r
  <2>3. /\ Len(binlog') = Len(binlog) + 1 /\ Len(binlog) \in Nat
        /\ \A i \in 1 .. Len(binlog) : binlog'[i] = binlog[i]
        /\ binlog'[Len(binlog) + 1] = r
    BY <2>1, <2>2 DEF TypeOK
  <2>4. ~(r.seq < Len(history))
    BY <2>1 DEF SlotInv, SnapshotConsistent, TypeOK
  <2>5. ASSUME NEW i \in 1 .. Len(binlog'), binlog'[i].seq < Len(history)
        PROVE  ApplyRecord(history[binlog'[i].seq], binlog'[i]) = {history[binlog'[i].seq + 1]}
    <3>1. i \in 1 .. Len(binlog)
      BY <2>3, <2>4, <2>5
    <3>2. binlog'[i] = binlog[i]
      BY <2>3, <3>1
    <3> QED
      BY <2>5, <3>1, <3>2 DEF ReplayMatches
  <2> QED
    BY <2>2, <2>5 DEF ReplayMatches
<1>3. ASSUME NEW t \in Threads, Publish(t)
      PROVE  ReplayMatches'
  BY <1>3, ReplayPublish
<1>4. ASSUME NEW seq \in 1 .. slotSeq, AckLogsThrough(seq)
      PROVE  ReplayMatches'
  <2>1. seq \in Nat /\ slotSeq \in Nat /\ binlog \in Seq(BinlogRecord)
    BY DEF TypeOK
  <2>2. Gapless(binlog, slotSeq)
    BY DEF SlotInv, LogContiguous
  <2> DEFINE n == AckCount(binlog, seq)
  <2>3. binlog' = AckThrough(binlog, seq) /\ history' = history
    BY <1>4 DEF AckLogsThrough
  <2>4. n \in 0 .. Len(binlog)
    BY <2>1, <2>2, AckCountType
  <2>5. /\ Len(binlog') = Len(binlog) - n
        /\ \A i \in 1 .. Len(binlog') : binlog'[i] = binlog[n + i]
    BY <2>1, <2>2, <2>3, AckThroughSuffix
  <2> HIDE DEF n
  <2>6. ASSUME NEW i \in 1 .. Len(binlog'), binlog'[i].seq < Len(history)
        PROVE  ApplyRecord(history[binlog'[i].seq], binlog'[i]) = {history[binlog'[i].seq + 1]}
    <3>1. n + i \in 1 .. Len(binlog)
      BY <2>4, <2>5
    <3>2. binlog'[i] = binlog[n + i]
      BY <2>5
    <3> QED
      BY <2>6, <3>1, <3>2 DEF ReplayMatches
  <2> QED
    BY <2>3, <2>6 DEF ReplayMatches
<1> QED
  BY <1>1, <1>2, <1>3, <1>4
  DEF Next, Step, Tick, Call, SweepOnce, SweepSnapshot, SweepNextKey, ReturnUnchanged,
      LockAndCompute, vars, slotVars

(* Replicas cannot diverge: every retained record, replayed on the map its *)
(* write started from, yields the map its write published.                 *)
THEOREM ReplayIsFaithful == Spec => []ReplayMatches
<1>1. Init => TypeOK /\ LogContiguous /\ SlotInv /\ ReplayMatches
  BY InitType, SlotInvInit, ReplayInit
<1>2. /\ TypeOK /\ LogContiguous /\ SlotInv /\ ReplayMatches
      /\ [Next]_vars
      => TypeOK' /\ LogContiguous' /\ SlotInv' /\ ReplayMatches'
  BY StepType, SlotInvStep, ReplayStep
<1>3. Spec => [](TypeOK /\ LogContiguous /\ SlotInv /\ ReplayMatches)
  BY <1>1, <1>2, PTL DEF Spec
<1> QED
  BY <1>3, PTL

-----------------------------------------------------------------------------
(* Refinement.                                                             *)

PublishedLog == SubSeq(binlog, 1, Len(binlog) - (slotSeq - publishedSeq))

LEMMA RefinementInit == Init => Atomic!AInit
<1> SUFFICES ASSUME Init PROVE Atomic!AInit
  OBVIOUS
<1>1. SubSeq(<<>>, 1, 0) = <<>>
  OBVIOUS
<1>2. PublishedLog = <<>>
  BY <1>1 DEF Init, PublishedLog
<1> QED
  BY <1>2 DEF Init, Atomic!AInit, PublishedLog

(* The published part of the log in the states the steps start from.       *)
LEMMA PublishedWhole ==
    ASSUME NEW log \in Seq(BinlogRecord)
    PROVE  SubSeq(log, 1, Len(log)) = log
OBVIOUS

LEMMA PublishedAppend ==
    ASSUME NEW log \in Seq(BinlogRecord), NEW r \in BinlogRecord
    PROVE  SubSeq(Append(log, r), 1, Len(log)) = log
OBVIOUS

LEMMA PublishedLast ==
    ASSUME NEW log \in Seq(BinlogRecord), Len(log) > 0
    PROVE  log = Append(SubSeq(log, 1, Len(log) - 1), log[Len(log)])
OBVIOUS

LEMMA RefinementPublish ==
    ASSUME TypeOK, TypeOK', SlotInv, NEW t \in Threads, Publish(t)
    PROVE  Atomic!ANext
<1> USE DEF Publish
<1>1. slotSeq = publishedSeq + 1 /\ publishedSeq \in Nat
  BY DEF SlotInv, SnapshotConsistent, TypeOK
<1>2. /\ binlog \in Seq(BinlogRecord) /\ Len(binlog) \in Nat /\ Len(binlog) > 0
      /\ binlog[Len(binlog)] = Record(slotSeq, next[t], now[t])
      /\ binlog' = binlog
  BY DEF TypeOK, SlotInv, PendingIsLogged
<1>3. PublishedLog = SubSeq(binlog, 1, Len(binlog) - 1)
  BY <1>1 DEF PublishedLog
<1>4. PublishedLog' = binlog
  <2>1. Len(binlog) - (slotSeq - slotSeq) = Len(binlog)
    BY <1>1, <1>2
  <2>2. PublishedLog' = SubSeq(binlog, 1, Len(binlog) - (slotSeq - slotSeq))
    BY DEF PublishedLog
  <2> QED
    BY <1>2, <2>1, <2>2, PublishedWhole
<1>5. PublishedLog' = Append(PublishedLog, Record(publishedSeq + 1, next[t], now[t]))
  BY <1>1, <1>2, <1>3, <1>4, PublishedLast
<1>6. /\ next[t] \in Outcomes(objMap, cmd[t], now[t])
      /\ cmd[t] \in Issued
      /\ now[t] \in 1 .. MaxTime
  BY DEF SlotInv, PendingIsCurrent, StampsAndCommands
<1>7. /\ objMap' = next[t].map
      /\ publishedSeq' = publishedSeq + 1
  BY <1>1
<1>8. Atomic!Write(cmd[t], now[t])
  BY <1>5, <1>6, <1>7 DEF Atomic!Write, PublishedLog
<1> QED
  BY <1>6, <1>8 DEF Atomic!ANext

(* A step that leaves map, sequence number and published log alone.        *)
LEMMA RefinementStutter ==
    ASSUME UNCHANGED <<objMap, publishedSeq>>, PublishedLog' = PublishedLog
    PROVE  UNCHANGED Atomic!avars
BY DEF Atomic!avars, PublishedLog

LEMMA RefinementAppend ==
    ASSUME TypeOK, SlotInv, NEW t \in Threads, AppendLog(t)
    PROVE  UNCHANGED Atomic!avars
<1> USE DEF AppendLog
<1> DEFINE r == Record(slotSeq + 1, next[t], now[t])
<1>1. r \in BinlogRecord
  BY DEF Record, BinlogRecord, Outcome, TypeOK
<1>2. slotSeq = publishedSeq /\ slotSeq \in Nat
  <2>1. \A u \in Threads : pc[u] # "publish"
    BY DEF SlotInv, MutexHeld
  <2> QED
    BY <2>1 DEF SlotInv, SnapshotConsistent, TypeOK
<1>3. binlog \in Seq(BinlogRecord) /\ Len(binlog) \in Nat
  BY DEF TypeOK
<1>4. PublishedLog = binlog
  <2>1. Len(binlog) - (slotSeq - publishedSeq) = Len(binlog)
    BY <1>2, <1>3
  <2> QED
    BY <1>3, <2>1, PublishedWhole DEF PublishedLog
<1>5. PublishedLog' = binlog
  <2> HIDE DEF r
  <2>1. binlog' = Append(binlog, r) /\ Len(binlog') = Len(binlog) + 1
    BY <1>1, <1>3 DEF r
  <2>2. Len(binlog') - (slotSeq' - publishedSeq') = Len(binlog)
    BY <1>2, <1>3, <2>1
  <2> QED
    BY <1>1, <1>3, <2>1, <2>2, PublishedAppend DEF PublishedLog
<1> QED
  BY <1>4, <1>5, RefinementStutter

LEMMA RefinementAck ==
    ASSUME TypeOK, TypeOK', SlotInv, NEW seq \in 1 .. slotSeq, AckLogsThrough(seq)
    PROVE  [Atomic!ANext]_(Atomic!avars)
<1> USE DEF AckLogsThrough
<1> DEFINE n == AckCount(binlog, seq)
<1>1. seq \in Nat /\ slotSeq \in Nat /\ binlog \in Seq(BinlogRecord) /\ Len(binlog) \in Nat
  BY DEF TypeOK
<1>2. slotSeq = publishedSeq
  <2>1. \A u \in Threads : pc[u] # "publish"
    BY ThreadAssumption DEF SlotInv, MutexHeld
  <2> QED
    BY <2>1 DEF SlotInv, SnapshotConsistent, TypeOK
<1>3. n \in 0 .. Len(binlog)
  BY <1>1, AckCountType DEF SlotInv, LogContiguous
<1>4. PublishedLog = binlog
  <2>1. Len(binlog) - (slotSeq - publishedSeq) = Len(binlog)
    BY <1>1, <1>2
  <2> QED
    BY <1>1, <2>1, PublishedWhole DEF PublishedLog
<1>5. PublishedLog' = binlog'
  <2>1. binlog' \in Seq(BinlogRecord) /\ Len(binlog') \in Nat
    BY DEF TypeOK
  <2>2. Len(binlog') - (slotSeq' - publishedSeq') = Len(binlog')
    BY <1>1, <1>2, <2>1
  <2> QED
    BY <2>1, <2>2, PublishedWhole DEF PublishedLog
<1>6. binlog' = SubSeq(binlog, n + 1, Len(binlog))
  BY DEF AckThrough
<1> HIDE DEF n
<1>7. CASE n = 0
  <2>1. binlog' = binlog
    BY <1>1, <1>6, <1>7, PublishedWhole
  <2> QED
    BY <1>4, <1>5, <2>1, RefinementStutter
<1>8. CASE n \in 1 .. Len(binlog)
  <2>1. Atomic!Trim(n)
    BY <1>4, <1>5, <1>6 DEF Atomic!Trim, PublishedLog
  <2> QED
    BY <1>4, <1>8, <2>1 DEF Atomic!ANext, PublishedLog
<1> QED
  BY <1>3, <1>7, <1>8

LEMMA RefinementStep ==
    TypeOK /\ TypeOK' /\ SlotInv /\ [Next]_vars => [Atomic!ANext]_(Atomic!avars)
<1> SUFFICES ASSUME TypeOK, TypeOK', SlotInv, [Next]_vars
             PROVE  [Atomic!ANext]_(Atomic!avars)
  OBVIOUS
<1>1. CASE UNCHANGED slotVars
  BY <1>1 DEF slotVars, Atomic!avars
<1>2. ASSUME NEW t \in Threads, LockAndCompute(t)
      PROVE  UNCHANGED Atomic!avars
  BY <1>2 DEF LockAndCompute, Atomic!avars
<1>3. ASSUME NEW t \in Threads, AppendLog(t)
      PROVE  UNCHANGED Atomic!avars
  BY <1>3, RefinementAppend
<1>4. ASSUME NEW t \in Threads, Publish(t)
      PROVE  Atomic!ANext
  BY <1>4, RefinementPublish
<1>5. ASSUME NEW seq \in 1 .. slotSeq, AckLogsThrough(seq)
      PROVE  [Atomic!ANext]_(Atomic!avars)
  BY <1>5, RefinementAck
<1> QED
  BY <1>1, <1>2, <1>3, <1>4, <1>5
  DEF Next, Step, Tick, Call, SweepOnce, SweepSnapshot, SweepNextKey, ReturnUnchanged, vars

(* The two-mutex, three-step write path implements atomic writes: clients, *)
(* the sweeper and the replicator can reason as if every write took effect *)
(* at the moment it is published.                                          *)
THEOREM SlotImplementsAtomicSlot == Spec => ImplementsAtomicSlot
<1>1. Init => TypeOK /\ LogContiguous /\ SlotInv
  BY InitType, SlotInvInit
<1>2. /\ TypeOK /\ LogContiguous /\ SlotInv
      /\ [Next]_vars
      => TypeOK' /\ LogContiguous' /\ SlotInv'
  BY StepType, SlotInvStep
<1>3. /\ TypeOK /\ TypeOK' /\ SlotInv
      /\ [Next]_vars
      => [Atomic!ANext]_(Atomic!avars)
  BY RefinementStep
<1> QED
  BY <1>1, <1>2, <1>3, RefinementInit, PTL DEF Spec, ImplementsAtomicSlot, Atomic!ASpec

-----------------------------------------------------------------------------
(* Action properties.                                                      *)

(* A write never undoes a concurrent writer's change to another key, and   *)
(* uses exactly one sequence number.                                       *)
THEOREM WritesChangeOneKey == Spec => OneKeyPerWrite
<1> DEFINE A == objMap' # objMap =>
                  /\ publishedSeq' = publishedSeq + 1
                  /\ \E k \in Keys : \A j \in Keys \ {k} : objMap'[j] = objMap[j]
<1>1. TypeOK /\ SlotInv /\ [Next]_vars => [A]_vars
  <2> SUFFICES ASSUME TypeOK, SlotInv, [Next]_vars, objMap' # objMap
               PROVE  A
    OBVIOUS
  <2>1. PICK t \in Threads : Publish(t)
    BY DEF Next, Step, Tick, Call, SweepOnce, SweepSnapshot, SweepNextKey, ReturnUnchanged,
           LockAndCompute, AppendLog, AckLogsThrough, vars, slotVars
  <2>2. publishedSeq' = publishedSeq + 1
    BY <2>1 DEF Publish, SlotInv, SnapshotConsistent
  <2>3. /\ objMap \in ObjectMap /\ cmd[t] \in Command /\ now[t] \in Deadlines
        /\ next[t] \in Outcomes(objMap, cmd[t], now[t])
        /\ objMap' = next[t].map
    BY <2>1 DEF Publish, TypeOK, SlotInv, PendingIsCurrent
  <2>4. \A j \in Keys \ {cmd[t].key} : objMap'[j] = objMap[j]
    BY <2>3, OutcomeChangesOneKey
  <2>5. cmd[t].key \in Keys
    BY <2>3 DEF Command
  <2> QED
    BY <2>2, <2>4, <2>5
<1>2. Spec => [](TypeOK /\ SlotInv)
  BY TypeCorrect, SlotInvariant, PTL
<1> QED
  BY <1>1, <1>2, PTL DEF Spec, OneKeyPerWrite

LEMMA SweeperInvInit == Init => SweeperInv
BY DEF Init, SweeperInv, Threads

LEMMA SweeperInvStep == TypeOK /\ SweeperInv /\ [Next]_vars => SweeperInv'
<1> SUFFICES ASSUME TypeOK, SweeperInv, [Next]_vars
             PROVE  SweeperInv'
  OBVIOUS
<1> USE DEF SweeperInv
<1>0. Sweeper \in Threads /\ clock \in Nat /\ now[Sweeper] \in Nat
  BY TimeAssumption, BoundAssumption DEF TypeOK, Threads, Deadlines
<1>1. CASE Tick
  BY <1>0, <1>1 DEF Tick
<1>2. ASSUME NEW t \in Clients, Call(t)
      PROVE  SweeperInv'
  <2>1. t # Sweeper
    BY ThreadAssumption
  <2> QED
    BY <1>0, <1>2, <2>1 DEF Call, TypeOK
<1>2a. CASE SweepOnce
  BY <1>0, <1>2a DEF SweepOnce, TypeOK
<1>3. CASE SweepSnapshot
  BY <1>3 DEF SweepSnapshot
<1>4. CASE SweepNextKey
  <2>1. cmd'[Sweeper].op = "SWEEP"
    BY <1>0, <1>4 DEF SweepNextKey, TypeOK, Cmd
  <2> QED
    BY <1>0, <1>4, <2>1 DEF SweepNextKey
<1>5. ASSUME NEW t \in Threads, Step(t)
      PROVE  SweeperInv'
  <2>1. CASE ReturnUnchanged(t)
    BY <1>0, <2>1 DEF ReturnUnchanged, Return, TypeOK
  <2>2. CASE LockAndCompute(t)
    BY <1>0, <2>2 DEF LockAndCompute, TypeOK
  <2>3. CASE AppendLog(t)
    BY <1>0, <2>3 DEF AppendLog, TypeOK
  <2>4. CASE Publish(t)
    BY <1>0, <2>4 DEF Publish, Return, TypeOK
  <2> QED
    BY <1>5, <2>1, <2>2, <2>3, <2>4 DEF Step
<1>6. ASSUME NEW seq \in 1 .. slotSeq, AckLogsThrough(seq)
      PROVE  SweeperInv'
  BY <1>6 DEF AckLogsThrough
<1>7. CASE UNCHANGED vars
  BY <1>7 DEF vars
<1> QED
  BY <1>1, <1>2, <1>2a, <1>3, <1>4, <1>5, <1>6, <1>7 DEF Next

(* The sweeper never deletes a live object, whatever clients did to the    *)
(* key after the sweeper had found it expired.                             *)
THEOREM SweeperDeletesOnlyExpired == Spec => SweptOnlyExpired
<1> DEFINE A == \A k \in Keys :
                  (/\ pc[Sweeper] = "publish"
                   /\ pc'[Sweeper] = "idle"
                   /\ objMap'[k] # objMap[k]) => IsExpired(objMap[k], clock)
<1>1. TypeOK /\ SlotInv /\ SweeperInv /\ [Next]_vars => [A]_vars
  <2> SUFFICES ASSUME TypeOK, SlotInv, SweeperInv, [Next]_vars,
                      NEW k \in Keys, pc[Sweeper] = "publish", pc'[Sweeper] = "idle",
                      objMap'[k] # objMap[k]
               PROVE  IsExpired(objMap[k], clock)
    OBVIOUS
  <2>0. Sweeper \in Threads
    BY DEF Threads
  <2>1. PICK t \in Threads : Publish(t)
    BY DEF Next, Step, Tick, Call, SweepOnce, SweepSnapshot, SweepNextKey, ReturnUnchanged,
           LockAndCompute, AppendLog, AckLogsThrough, vars, slotVars
  <2>2. t = Sweeper
    BY <2>0, <2>1 DEF Publish, SlotInv, MutexHeld
  <2>3. /\ objMap \in ObjectMap /\ cmd[t] \in Command /\ now[t] \in Deadlines
        /\ next[t] \in Outcomes(objMap, cmd[t], now[t])
        /\ objMap' = next[t].map
        /\ cmd[t].op = "SWEEP"
    BY <2>1, <2>2 DEF Publish, TypeOK, SlotInv, PendingIsCurrent, SweeperInv
  <2>4. k = cmd[t].key
    BY <2>3, OutcomeChangesOneKey
  <2>5. next[t] \in DeleteExpiredKey(objMap, k, now[t])
    BY <2>3, <2>4 DEF Outcomes, MutatorOps, SetOps, HashOps, ZSetOps, StringOps
  <2>6. objMap[k] # None /\ IsExpired(objMap[k], now[t])
    BY <2>5 DEF DeleteExpiredKey
  <2>7. objMap[k] \in Object
    BY <2>3, <2>6 DEF ObjectMap
  <2>8. now[t] <= clock /\ now[t] \in Nat /\ clock \in Nat /\ objMap[k].deadline \in Nat
    BY <2>2, <2>3, <2>7, TimeAssumption, BoundAssumption
    DEF SweeperInv, TypeOK, Object, StringObject, SetObject, HashObject, ZSetObject, Deadlines
  <2> QED
    BY <2>6, <2>8 DEF IsExpired
<1>2. Spec => []SweeperInv
  <2>1. Spec => []TypeOK
    BY TypeCorrect
  <2> QED
    BY <2>1, SweeperInvInit, SweeperInvStep, PTL DEF Spec
<1>3. Spec => [](TypeOK /\ SlotInv /\ SweeperInv)
  BY <1>2, TypeCorrect, SlotInvariant, PTL
<1> QED
  BY <1>1, <1>3, PTL DEF Spec, SweptOnlyExpired

(* No interleaving of commands and sweeps leaves an empty container in the *)
(* slot: the key of a set, hash or sorted set goes with its last member.   *)
THEOREM ContainersAreNonEmpty == Spec => []NoEmptyContainer
<1>1. Init => NoEmptyContainer
  BY DEF Init, NoEmptyContainer, EmptyMap
<1>2. TypeOK /\ SlotInv /\ NoEmptyContainer /\ [Next]_vars => NoEmptyContainer'
  <2> SUFFICES ASSUME TypeOK, SlotInv, NoEmptyContainer, [Next]_vars
               PROVE  NoEmptyContainer'
    OBVIOUS
  <2>1. CASE objMap' = objMap
    BY <2>1 DEF NoEmptyContainer
  <2>2. CASE objMap' # objMap
    <3>1. PICK t \in Threads : Publish(t)
      BY <2>2
      DEF Next, Step, Tick, Call, SweepOnce, SweepSnapshot, SweepNextKey, ReturnUnchanged,
          LockAndCompute, AppendLog, AckLogsThrough, vars, slotVars
    <3>2. /\ objMap \in ObjectMap /\ cmd[t] \in Command /\ now[t] \in Deadlines
          /\ next[t] \in Outcomes(objMap, cmd[t], now[t])
          /\ objMap' = next[t].map
      BY <3>1 DEF Publish, TypeOK, SlotInv, PendingIsCurrent
    <3> QED
      BY <3>2, OutcomeHasContent DEF NoEmptyContainer
  <2> QED
    BY <2>1, <2>2
<1>3. Spec => [](TypeOK /\ SlotInv)
  BY TypeCorrect, SlotInvariant, PTL
<1> QED
  BY <1>1, <1>2, <1>3, PTL DEF Spec

(* A client's writer holds an outcome of its own command, which is never   *)
(* the sweeper's.                                                          *)
ClientInv == \A t \in Clients : pc[t] # "idle" => cmd[t].op # "SWEEP"

LEMMA ClientInvStep == TypeOK /\ ClientInv /\ [Next]_vars => ClientInv'
<1> SUFFICES ASSUME TypeOK, ClientInv, [Next]_vars, NEW u \in Clients, pc'[u] # "idle"
             PROVE  cmd'[u].op # "SWEEP"
  BY DEF ClientInv
<1> USE DEF ClientInv
<1>0. u \in Threads /\ u # Sweeper
  BY ThreadAssumption DEF Threads
<1>1. ASSUME NEW t \in Clients, Call(t)
      PROVE  cmd'[u].op # "SWEEP"
  <2>1. PICK c \in Commands : cmd' = [cmd EXCEPT ![t] = c]
    BY <1>1 DEF Call
  <2>2. c.op # "SWEEP"
    BY <2>1, CommandAssumption
  <2> QED
    BY <1>0, <1>1, <2>1, <2>2 DEF Call, TypeOK
<1>2. CASE SweepNextKey
  BY <1>0, <1>2 DEF SweepNextKey, TypeOK
<1>3. ASSUME NEW t \in Threads, Step(t)
      PROVE  cmd'[u].op # "SWEEP"
  <2>1. CASE ReturnUnchanged(t)
    BY <1>0, <2>1 DEF ReturnUnchanged, Return, TypeOK
  <2>2. CASE LockAndCompute(t)
    BY <1>0, <2>2 DEF LockAndCompute, TypeOK
  <2>3. CASE AppendLog(t)
    BY <1>0, <2>3 DEF AppendLog, TypeOK
  <2>4. CASE Publish(t)
    BY <1>0, <2>4 DEF Publish, Return, TypeOK
  <2> QED
    BY <1>3, <2>1, <2>2, <2>3, <2>4 DEF Step
<1> QED
  BY <1>1, <1>2, <1>3
  DEF Next, Tick, SweepOnce, SweepSnapshot, AckLogsThrough, vars, slotVars

(* What a client's command does to a slot with an expired object is what   *)
(* it does to the slot without it.                                         *)
LEMMA ExpiredOutcomes ==
    ASSUME NEW map \in ObjectMap, NEW c \in Command, c.op # "SWEEP", NEW at \in Deadlines,
           map[c.key] # None, IsExpired(map[c.key], at)
    PROVE  Outcomes(map, c, at) = Outcomes([map EXCEPT ![c.key] = None], c, at)
<1> DEFINE k == c.key
           without == [map EXCEPT ![k] = None]
<1>1. k \in Keys /\ c.op \in Ops
  BY DEF Command
<1>2. Existing(map, k, at) = None /\ Existing(without, k, at) = None
  BY <1>1 DEF Existing, ObjectMap
<1>3. Del(map, k, at) = {} /\ Del(without, k, at) = {}
  BY <1>2 DEF Del
<1>4. Expire(map, c, at) = {} /\ Expire(without, c, at) = {}
  BY <1>2, <1>3 DEF Expire
<1>5. \A r : Changed(map, k, r) = Changed(without, k, r)
  <2>1. \A obj : [map EXCEPT ![k] = obj] = [without EXCEPT ![k] = obj]
    BY <1>1 DEF ObjectMap
  <2> QED
    BY <2>1 DEF Changed
<1>6. Mutate(map, c, at) = Mutate(without, c, at)
  <2> HIDE DEF without
  <2>1. {Changed(map, k, r) : r \in Mutator(c, None, at)}
          = {Changed(without, k, r) : r \in Mutator(c, None, at)}
    BY <1>5
  <2> QED
    BY <1>2, <2>1 DEF Mutate
<1> QED
  BY <1>1, <1>3, <1>4, <1>6 DEF Outcomes, Ops, MutatorOps, SetOps, HashOps, ZSetOps, StringOps

(* An expired object that nobody has swept yet influences no write: what   *)
(* is published under its key is what an absent key would have got.        *)
THEOREM ExpiredNeverInfluences == Spec => []ExpiredIsAbsent
<1>1. TypeOK /\ SlotInv /\ ClientInv => ExpiredIsAbsent
  <2> SUFFICES ASSUME TypeOK, SlotInv, ClientInv, NEW t \in Clients,
                      pc[t] \in {"append", "publish"},
                      objMap[cmd[t].key] # None,
                      IsExpired(objMap[cmd[t].key], now[t])
               PROVE  next[t] \in Outcomes([objMap EXCEPT ![cmd[t].key] = None], cmd[t], now[t])
    BY DEF ExpiredIsAbsent
  <2>1. t \in Threads
    BY DEF Threads
  <2>2. /\ objMap \in ObjectMap /\ cmd[t] \in Command /\ now[t] \in Deadlines
        /\ next[t] \in Outcomes(objMap, cmd[t], now[t])
        /\ cmd[t].op # "SWEEP"
    BY <2>1 DEF TypeOK, SlotInv, PendingIsCurrent, ClientInv
  <2> QED
    BY <2>2, ExpiredOutcomes
<1>2. Spec => []ClientInv
  <2>1. Init => ClientInv
    BY DEF Init, ClientInv, Threads
  <2>2. Spec => []TypeOK
    BY TypeCorrect
  <2> QED
    BY <2>1, <2>2, ClientInvStep, PTL DEF Spec
<1> QED
  BY <1>1, <1>2, TypeCorrect, SlotInvariant, PTL

-----------------------------------------------------------------------------
(* ZADD's loop over its pairs.  What it has stored for a member after n    *)
(* pairs is the old score, if no pair was admitted, or the score of an     *)
(* admitted pair that no other one overrides.                              *)

IsAdmitted(opt, pairs, orig, m, i) ==
    pairs[i].member = m /\ Admits(opt, orig[m], pairs[i].score)

IsDeciding(opt, pairs, n, orig, m, i) ==
    /\ IsAdmitted(opt, pairs, orig, m, i)
    /\ \A j \in 1 .. n : IsAdmitted(opt, pairs, orig, m, j) => ~Overrides(opt, pairs, j, i)

Untouched(opt, pairs, n, orig, m) ==
    \A i \in 1 .. n : ~IsAdmitted(opt, pairs, orig, m, i)

Decided(opt, pairs, n, orig, m, score) ==
    \/ score = orig[m] /\ Untouched(opt, pairs, n, orig, m)
    \/ \E i \in 1 .. n : IsDeciding(opt, pairs, n, orig, m, i) /\ score = pairs[i].score

(* Some pair among the first n changes a score by itself.                  *)
PairChanges(opt, pairs, n, orig) ==
    \E i \in 1 .. n : /\ IsAdmitted(opt, pairs, orig, pairs[i].member, i)
                      /\ orig[pairs[i].member] # pairs[i].score

(* The options ZADD does not refuse.                                       *)
Compatible(opt) ==
    /\ "NX" \in opt => "XX" \notin opt /\ "GT" \notin opt /\ "LT" \notin opt
    /\ "GT" \in opt => "LT" \notin opt

(* A pair has a member and a score.                                        *)
LEMMA PairType ==
    ASSUME NEW pairs \in Seq(ScorePair), NEW i \in 1 .. Len(pairs)
    PROVE  /\ pairs[i].member \in Members
           /\ pairs[i].score \in Scores
           /\ pairs[i].score \in Int
           /\ pairs[i].score # None
<1>1. pairs[i] \in ScorePair
  OBVIOUS
<1>2. pairs[i].member \in Members /\ pairs[i].score \in Scores
  BY <1>1 DEF ScorePair
<1>3. pairs[i].score \in Int
  BY <1>2, TextAssumption DEF Scores
<1> QED
  BY <1>2, <1>3, NoneAssumption

(* Two pairs that no admitted one overrides have the same score.           *)
LEMMA DecidingAgree ==
    ASSUME NEW opt, NEW pairs \in Seq(ScorePair), NEW n \in 0 .. Len(pairs),
           NEW orig, NEW m, NEW i \in 1 .. n, NEW j \in 1 .. n,
           IsDeciding(opt, pairs, n, orig, m, i), IsDeciding(opt, pairs, n, orig, m, j)
    PROVE  pairs[i].score = pairs[j].score
<1>1. pairs[i].score \in Int /\ pairs[j].score \in Int
  BY PairType
<1>2. ~Overrides(opt, pairs, j, i) /\ ~Overrides(opt, pairs, i, j)
  BY DEF IsDeciding
<1>3. i = j \/ pairs[i].score = pairs[j].score
  BY <1>1, <1>2 DEF Overrides
<1> QED
  BY <1>3

(* The pairs that decide in the closed form are those.                     *)
LEMMA DecidingPairsAre ==
    ASSUME NEW opt, NEW pairs \in Seq(ScorePair), NEW n \in 0 .. Len(pairs),
           NEW orig, NEW m
    PROVE  DecidingPairs(opt, SubSeq(pairs, 1, n), orig, m)
             = {i \in 1 .. n : IsDeciding(opt, pairs, n, orig, m, i)}
<1> DEFINE part == SubSeq(pairs, 1, n)
<1>1. Len(part) = n /\ \A i \in 1 .. n : part[i] = pairs[i]
  OBVIOUS
<1> HIDE DEF part
<1>2. \A i \in 1 .. n : (part[i].member = m /\ Admits(opt, orig[m], part[i].score))
                          <=> IsAdmitted(opt, pairs, orig, m, i)
  BY <1>1 DEF IsAdmitted
<1>3. \A i, j \in 1 .. n : Overrides(opt, part, j, i) <=> Overrides(opt, pairs, j, i)
  BY <1>1 DEF Overrides
<1> DEFINE admitted == {i \in 1 .. n : IsAdmitted(opt, pairs, orig, m, i)}
<1>4. {i \in 1 .. Len(part) : part[i].member = m /\ Admits(opt, orig[m], part[i].score)} = admitted
  BY <1>1, <1>2
<1>5. DecidingPairs(opt, part, orig, m)
        = {i \in admitted : \A j \in admitted : ~Overrides(opt, part, j, i)}
  BY <1>4 DEF DecidingPairs
<1>6. \A i \in 1 .. n : (i \in admitted /\ \A j \in admitted : ~Overrides(opt, part, j, i))
                          <=> IsDeciding(opt, pairs, n, orig, m, i)
  BY <1>3 DEF IsDeciding
<1> QED
  BY <1>5, <1>6 DEF part

(* A local copy that is decided in every member is the closed form.        *)
LEMMA DecidedIsClosedForm ==
    ASSUME NEW opt, NEW pairs \in Seq(ScorePair), NEW n \in 0 .. Len(pairs),
           NEW orig, NEW copy \in [Members -> Scores \cup {None}],
           \A m \in Members : Decided(opt, pairs, n, orig, m, copy[m])
    PROVE  copy = ApplyScorePairs(opt, SubSeq(pairs, 1, n), orig)
<1> DEFINE part == SubSeq(pairs, 1, n)
           deciding(m) == DecidingPairs(opt, part, orig, m)
<1>1. \A i \in 1 .. n : part[i] = pairs[i]
  OBVIOUS
<1>2. ASSUME NEW m \in Members
      PROVE  copy[m] = IF deciding(m) = {} THEN orig[m]
                       ELSE part[CHOOSE i \in deciding(m) : TRUE].score
  <2>1. deciding(m) = {i \in 1 .. n : IsDeciding(opt, pairs, n, orig, m, i)}
    BY DecidingPairsAre
  <2> DEFINE D == deciding(m)
             d == CHOOSE i \in D : TRUE
  <2> HIDE DEF deciding, part
  <2>2. CASE copy[m] = orig[m] /\ Untouched(opt, pairs, n, orig, m)
    <3>1. deciding(m) = {}
      BY <2>1, <2>2 DEF Untouched, IsDeciding
    <3> QED
      BY <2>2, <3>1
  <2>3. CASE \E i \in 1 .. n : IsDeciding(opt, pairs, n, orig, m, i) /\ copy[m] = pairs[i].score
    <3>1. PICK i \in 1 .. n : IsDeciding(opt, pairs, n, orig, m, i) /\ copy[m] = pairs[i].score
      BY <2>3
    <3>2. i \in D
      BY <2>1, <3>1
    <3>3. d \in D
      BY <3>2
    <3>4. d \in 1 .. n /\ IsDeciding(opt, pairs, n, orig, m, d)
      BY <2>1, <3>3
    <3> HIDE DEF d, D
    <3>5. pairs[i].score = pairs[d].score
      BY <3>1, <3>4, DecidingAgree
    <3>6. copy[m] = part[d].score
      BY <1>1, <3>1, <3>4, <3>5
    <3> QED
      BY <3>2, <3>6 DEF D, d
  <2> QED
    BY <2>2, <2>3 DEF Decided
<1> QED
  BY <1>2 DEF ApplyScorePairs

(* The flag that the pairs changed something, in its closed form.          *)
LEMMA PairChangesIsClosedForm ==
    ASSUME NEW opt, NEW pairs \in Seq(ScorePair), NEW n \in 0 .. Len(pairs), NEW orig
    PROVE  PairChanges(opt, pairs, n, orig) <=> ScoresChange(opt, SubSeq(pairs, 1, n), orig)
<1> DEFINE part == SubSeq(pairs, 1, n)
<1>1. Len(part) = n /\ \A i \in 1 .. n : part[i] = pairs[i]
  OBVIOUS
<1> HIDE DEF part
<1>2. \A i \in 1 .. n : IsAdmitted(opt, pairs, orig, pairs[i].member, i)
                          <=> Admits(opt, orig[part[i].member], part[i].score)
  BY <1>1 DEF IsAdmitted
<1>3. PairChanges(opt, pairs, n, orig) <=> ScoresChange(opt, part, orig)
  BY <1>1, <1>2 DEF PairChanges, ScoresChange
<1> QED
  BY <1>3 DEF part

(* Does the loop store the pair's score over what it found?                *)
Stores(opt, found, score) ==
    IF found = None THEN "XX" \notin opt
    ELSE /\ "NX" \notin opt
         /\ "GT" \in opt => score > found
         /\ "LT" \in opt => score < found
         /\ score # found

(* A pair for another member decides nothing.                              *)
LEMMA DecidedForOthers ==
    ASSUME NEW opt, NEW pairs \in Seq(ScorePair), NEW n \in Nat, n < Len(pairs),
           NEW orig, NEW m, pairs[n + 1].member # m, NEW score,
           Decided(opt, pairs, n, orig, m, score)
    PROVE  Decided(opt, pairs, n + 1, orig, m, score)
<1>1. \A i \in 1 .. n + 1 : IsAdmitted(opt, pairs, orig, m, i) => i \in 1 .. n
  BY DEF IsAdmitted
<1>2. CASE score = orig[m] /\ Untouched(opt, pairs, n, orig, m)
  BY <1>1, <1>2 DEF Decided, Untouched
<1>3. CASE \E i \in 1 .. n : IsDeciding(opt, pairs, n, orig, m, i) /\ score = pairs[i].score
  <2>1. PICK i \in 1 .. n : IsDeciding(opt, pairs, n, orig, m, i) /\ score = pairs[i].score
    BY <1>3
  <2>2. IsDeciding(opt, pairs, n + 1, orig, m, i)
    BY <1>1, <2>1 DEF IsDeciding
  <2> QED
    BY <2>1, <2>2 DEF Decided
<1> QED
  BY <1>2, <1>3 DEF Decided

(* The after pair, for a member no pair was admitted for.                   *)
LEMMA DecidedFirst ==
    ASSUME NEW opt, NEW pairs \in Seq(ScorePair), NEW n \in Nat, n < Len(pairs),
           NEW orig \in [Members -> Scores \cup {None}], NEW m, pairs[n + 1].member = m,
           Untouched(opt, pairs, n, orig, m)
    PROVE  /\ Decided(opt, pairs, n + 1, orig, m,
                      IF Stores(opt, orig[m], pairs[n + 1].score)
                      THEN pairs[n + 1].score ELSE orig[m])
           /\ Stores(opt, orig[m], pairs[n + 1].score)
                <=> /\ IsAdmitted(opt, pairs, orig, m, n + 1)
                    /\ orig[m] # pairs[n + 1].score
<1> DEFINE s == pairs[n + 1].score
<1>1. n + 1 \in 1 .. Len(pairs)
  OBVIOUS
<1>2. s \in Int /\ s # None /\ m \in Members
  BY <1>1, PairType
<1>3. orig[m] = None \/ orig[m] \in Int
  BY <1>2, TextAssumption DEF Scores
<1> HIDE DEF s
<1>4. Stores(opt, orig[m], s) <=> Admits(opt, orig[m], s) /\ orig[m] # s
  BY <1>2, <1>3 DEF Stores, Admits
<1>5. IsAdmitted(opt, pairs, orig, m, n + 1) <=> Admits(opt, orig[m], s)
  BY DEF IsAdmitted, s
<1>6. \A i \in 1 .. n + 1 : IsAdmitted(opt, pairs, orig, m, i) => i = n + 1
  BY DEF Untouched
<1>7. ~Overrides(opt, pairs, n + 1, n + 1)
  BY <1>2 DEF Overrides, s
<1>8. CASE Admits(opt, orig[m], s)
  <2>1. IsDeciding(opt, pairs, n + 1, orig, m, n + 1)
    BY <1>5, <1>6, <1>7, <1>8 DEF IsDeciding
  <2>2. (IF Stores(opt, orig[m], s) THEN s ELSE orig[m]) = pairs[n + 1].score
    BY <1>4, <1>8 DEF s
  <2>3. Decided(opt, pairs, n + 1, orig, m, IF Stores(opt, orig[m], s) THEN s ELSE orig[m])
    BY <2>1, <2>2, n + 1 \in 1 .. n + 1 DEF Decided
  <2> QED
    BY <1>4, <1>5, <2>3 DEF s
<1>9. CASE ~Admits(opt, orig[m], s)
  <2>1. Untouched(opt, pairs, n + 1, orig, m)
    BY <1>5, <1>6, <1>9 DEF Untouched
  <2>2. Decided(opt, pairs, n + 1, orig, m, IF Stores(opt, orig[m], s) THEN s ELSE orig[m])
    BY <1>4, <1>9, <2>1 DEF Decided
  <2> QED
    BY <1>4, <1>5, <1>9, <2>2 DEF s
<1> QED
  BY <1>8, <1>9

(* The after pair, for a member whose score a pair has decided.             *)
LEMMA DecidedAgain ==
    ASSUME NEW opt, Compatible(opt),
           NEW pairs \in Seq(ScorePair), NEW n \in Nat, n < Len(pairs),
           NEW orig \in [Members -> Scores \cup {None}], NEW m, pairs[n + 1].member = m,
           NEW d \in 1 .. n, IsDeciding(opt, pairs, n, orig, m, d)
    PROVE  /\ Decided(opt, pairs, n + 1, orig, m,
                      IF Stores(opt, pairs[d].score, pairs[n + 1].score)
                      THEN pairs[n + 1].score ELSE pairs[d].score)
           /\ orig[m] = pairs[d].score =>
                (Stores(opt, pairs[d].score, pairs[n + 1].score)
                  <=> /\ IsAdmitted(opt, pairs, orig, m, n + 1)
                      /\ orig[m] # pairs[n + 1].score)
<1> DEFINE s == pairs[n + 1].score
           t == pairs[d].score
<1>1. n + 1 \in 1 .. Len(pairs) /\ d \in 1 .. Len(pairs)
  OBVIOUS
<1>2. s \in Int /\ s # None /\ m \in Members /\ t \in Int /\ t # None
  BY <1>1, PairType
<1>3. orig[m] = None \/ orig[m] \in Int
  BY <1>2, TextAssumption DEF Scores
<1>4. Admits(opt, orig[m], t)
  BY DEF IsDeciding, IsAdmitted
<1>5. IsAdmitted(opt, pairs, orig, m, n + 1) <=> Admits(opt, orig[m], s)
  BY DEF IsAdmitted
<1>6. \A j \in 1 .. n : IsAdmitted(opt, pairs, orig, m, j) => ~Overrides(opt, pairs, j, d)
  BY DEF IsDeciding
<1>7. \A j \in 1 .. n : pairs[j].score \in Int
  BY PairType
<1>8. Overrides(opt, pairs, n + 1, d)
        <=> IF "NX" \in opt THEN FALSE
            ELSE IF "GT" \in opt THEN s > t
            ELSE IF "LT" \in opt THEN s < t
            ELSE TRUE
  BY DEF Overrides
<1>9. ~Overrides(opt, pairs, n + 1, n + 1)
  BY <1>2 DEF Overrides
<1>10. ASSUME NEW j \in 1 .. n, ~Overrides(opt, pairs, j, d), Overrides(opt, pairs, n + 1, d)
       PROVE  ~Overrides(opt, pairs, j, n + 1)
  BY <1>2, <1>7, <1>8, <1>10 DEF Overrides
<1> HIDE DEF s, t
<1>11. Stores(opt, t, s) => Admits(opt, orig[m], s) /\ Overrides(opt, pairs, n + 1, d)
  BY <1>2, <1>3, <1>4, <1>8 DEF Stores, Admits
<1>12. ~Stores(opt, t, s) => ~Overrides(opt, pairs, n + 1, d) \/ s = t
  BY <1>2, <1>8 DEF Stores, Compatible
<1>13. orig[m] = t => (Stores(opt, t, s) <=> Admits(opt, orig[m], s) /\ orig[m] # s)
  BY <1>2, <1>4 DEF Stores, Admits
<1>14. ASSUME Admits(opt, orig[m], s), Overrides(opt, pairs, n + 1, d)
       PROVE  IsDeciding(opt, pairs, n + 1, orig, m, n + 1)
  <2>1. ASSUME NEW j \in 1 .. n + 1, IsAdmitted(opt, pairs, orig, m, j)
        PROVE  ~Overrides(opt, pairs, j, n + 1)
    BY <1>6, <1>9, <1>10, <1>14, <2>1
  <2> QED
    BY <1>5, <1>14, <2>1 DEF IsDeciding
<1>15. ASSUME ~(Admits(opt, orig[m], s) /\ Overrides(opt, pairs, n + 1, d))
       PROVE  IsDeciding(opt, pairs, n + 1, orig, m, d)
  <2>1. ASSUME NEW j \in 1 .. n + 1, IsAdmitted(opt, pairs, orig, m, j)
        PROVE  ~Overrides(opt, pairs, j, d)
    BY <1>5, <1>6, <1>15, <2>1
  <2> QED
    BY <2>1 DEF IsDeciding
<1> DEFINE after == IF Stores(opt, t, s) THEN s ELSE t
<1>16. Decided(opt, pairs, n + 1, orig, m, after)
  <2>1. CASE Admits(opt, orig[m], s) /\ Overrides(opt, pairs, n + 1, d)
    <3>1. after = pairs[n + 1].score
      BY <1>12, <2>1 DEF s
    <3> QED
      BY <1>14, <2>1, <3>1, n + 1 \in 1 .. n + 1 DEF Decided
  <2>2. CASE ~(Admits(opt, orig[m], s) /\ Overrides(opt, pairs, n + 1, d))
    <3>1. after = pairs[d].score
      BY <1>11, <2>2 DEF t
    <3> QED
      BY <1>15, <2>2, <3>1, d \in 1 .. n + 1 DEF Decided
  <2> QED
    BY <2>1, <2>2
<1> QED
  BY <1>5, <1>13, <1>16 DEF s, t

(* One turn of the loop keeps every member decided, and the flag of a      *)
(* change is set when some pair changes a score by itself.                 *)
LEMMA PairStep ==
    ASSUME NEW opt, Compatible(opt),
           NEW pairs \in Seq(ScorePair), NEW n \in Nat, n < Len(pairs),
           NEW orig \in [Members -> Scores \cup {None}],
           NEW copy \in [Members -> Scores \cup {None}],
           \A m \in Members : Decided(opt, pairs, n, orig, m, copy[m]),
           NEW after,
           after = IF Stores(opt, copy[pairs[n + 1].member], pairs[n + 1].score)
                  THEN [copy EXCEPT ![pairs[n + 1].member] = pairs[n + 1].score]
                  ELSE copy
    PROVE  /\ after \in [Members -> Scores \cup {None}]
           /\ \A m \in Members : Decided(opt, pairs, n + 1, orig, m, after[m])
           /\ PairChanges(opt, pairs, n + 1, orig)
                <=> \/ PairChanges(opt, pairs, n, orig)
                    \/ Stores(opt, copy[pairs[n + 1].member], pairs[n + 1].score)
<1> DEFINE k == pairs[n + 1].member
           s == pairs[n + 1].score
           stores == Stores(opt, copy[k], s)
<1>1. n + 1 \in 1 .. Len(pairs)
  OBVIOUS
<1>2. k \in Members /\ s \in Scores
  BY <1>1, PairType
<1>3. after \in [Members -> Scores \cup {None}]
  BY <1>2
<1>4. after[k] = IF stores THEN s ELSE copy[k]
  BY <1>2
<1>5. \A m \in Members : m # k => after[m] = copy[m]
  BY <1>2
<1>6. PairChanges(opt, pairs, n + 1, orig)
        <=> PairChanges(opt, pairs, n, orig)
              \/ (IsAdmitted(opt, pairs, orig, k, n + 1) /\ orig[k] # s)
  <2>1. \A i : i \in 1 .. n + 1 <=> i \in 1 .. n \/ i = n + 1
    OBVIOUS
  <2> QED
    BY <2>1 DEF PairChanges
<1>7. \A m \in Members : m # k => Decided(opt, pairs, n + 1, orig, m, after[m])
  BY <1>5, DecidedForOthers
<1>8. /\ Decided(opt, pairs, n + 1, orig, k, after[k])
      /\ PairChanges(opt, pairs, n, orig) \/ stores
           <=> \/ PairChanges(opt, pairs, n, orig)
               \/ IsAdmitted(opt, pairs, orig, k, n + 1) /\ orig[k] # s
  <2>1. CASE copy[k] = orig[k] /\ Untouched(opt, pairs, n, orig, k)
    <3>0. pairs[n + 1].member = k /\ pairs[n + 1].score = s
      OBVIOUS
    <3> HIDE DEF k, s
    <3>1. /\ Decided(opt, pairs, n + 1, orig, k, IF Stores(opt, orig[k], s) THEN s ELSE orig[k])
          /\ Stores(opt, orig[k], s)
               <=> IsAdmitted(opt, pairs, orig, k, n + 1) /\ orig[k] # s
      BY <2>1, <3>0, DecidedFirst, ZenonT(40)
    <3> QED
      BY <1>4, <2>1, <3>1
  <2>2. CASE \E d \in 1 .. n : IsDeciding(opt, pairs, n, orig, k, d) /\ copy[k] = pairs[d].score
    <3>1. PICK d \in 1 .. n : IsDeciding(opt, pairs, n, orig, k, d) /\ copy[k] = pairs[d].score
      BY <2>2
    <3>2. /\ Decided(opt, pairs, n + 1, orig, k,
                     IF Stores(opt, pairs[d].score, s) THEN s ELSE pairs[d].score)
          /\ orig[k] = pairs[d].score =>
               (Stores(opt, pairs[d].score, s)
                 <=> IsAdmitted(opt, pairs, orig, k, n + 1) /\ orig[k] # s)
      BY <3>1, DecidedAgain
    <3>3. orig[k] # pairs[d].score => PairChanges(opt, pairs, n, orig)
      <4>1. pairs[d].member = k /\ IsAdmitted(opt, pairs, orig, k, d)
        BY <3>1 DEF IsDeciding, IsAdmitted
      <4> QED
        BY <4>1 DEF PairChanges
    <3> HIDE DEF k, s
    <3> QED
      BY <1>4, <3>1, <3>2, <3>3
  <2> QED
    BY <1>2, <2>1, <2>2 DEF Decided
<1> HIDE DEF k, s
<1>9. \A m \in Members : Decided(opt, pairs, n + 1, orig, m, after[m])
  BY <1>7, <1>8
<1> QED
  BY <1>3, <1>6, <1>8, <1>9 DEF k, s

-----------------------------------------------------------------------------
(* The loop as a state machine.                                            *)

AddedMembers == {m \in Members : base[m] = None /\ zset[m] # None}

LoopInv ==
    /\ opts \in SUBSET Options /\ Compatible(opts)
    /\ inputs \in Seq(ScorePair)
    /\ base \in [Members -> Scores \cup {None}]
    /\ pairIndex \in 0 .. Len(inputs)
    /\ zset \in [Members -> Scores \cup {None}]
    /\ \A m \in Members : Decided(opts, inputs, pairIndex, base, m, zset[m])
    /\ changed = PairChanges(opts, inputs, pairIndex, base)
    /\ IsFiniteSet(AddedMembers)
    /\ addedCount = Cardinality(AddedMembers)
    /\ addedCount \in Nat /\ changedCount \in Nat
    /\ \A m \in Members : base[m] # None => zset[m] # None
    /\ changed <=> addedCount + changedCount > 0

(* The invariant gives the closed forms and the counts.                    *)
LEMMA LoopInvSuffices == LoopInv => ZAddIsClosedForm
<1> SUFFICES ASSUME LoopInv
             PROVE  ZAddIsClosedForm
  OBVIOUS
<1>1. zset = ApplyScorePairs(opts, SubSeq(inputs, 1, pairIndex), base)
  BY DecidedIsClosedForm DEF LoopInv
<1>2. changed = ScoresChange(opts, SubSeq(inputs, 1, pairIndex), base)
  <2>1. PairChanges(opts, inputs, pairIndex, base)
          <=> ScoresChange(opts, SubSeq(inputs, 1, pairIndex), base)
    BY PairChangesIsClosedForm DEF LoopInv
  <2>2. changed = PairChanges(opts, inputs, pairIndex, base)
    BY DEF LoopInv
  <2> QED
    BY <2>1, <2>2 DEF PairChanges, ScoresChange
<1>3. LoopMatchesClosedForm
  BY <1>1, <1>2 DEF LoopMatchesClosedForm
<1>4. CountsMatch
  <2>1. addedCount = Cardinality(AddedMembers)
    BY DEF LoopInv
  <2>2. \A m \in Members : base[m] # None => zset[m] # None
    BY DEF LoopInv
  <2>3. changed <=> addedCount + changedCount > 0
    BY DEF LoopInv
  <2> QED
    BY <2>1, <2>2, <2>3, Zenon DEF AddedMembers, CountsMatch
<1> QED
  BY <1>3, <1>4 DEF ZAddIsClosedForm

(* Before the first pair nothing is decided.                               *)
LEMMA LoopInvInit == LoopInit => LoopInv
<1> SUFFICES ASSUME LoopInit
             PROVE  LoopInv
  OBVIOUS
<1> DEFINE key == CHOOSE k \in Keys : TRUE
           plain == Cmd("ZADD", key, {})
<1>1. /\ opts \in OptionSets
      /\ ~ZAddOptionError([plain EXCEPT !.opts = opts])
      /\ inputs \in InputLists
      /\ base \in [Members -> Scores \cup {None}]
      /\ pairIndex = 0 /\ zset = base /\ changed = FALSE /\ addedCount = 0 /\ changedCount = 0
  BY DEF LoopInit
<1>2. opts \in SUBSET Options
  BY <1>1, InputAssumption
<1>3. Compatible(opts)
  <2>1. [plain EXCEPT !.opts = opts].opts = opts
    BY DEF Cmd
  <2> HIDE DEF plain
  <2> QED
    BY <1>1, <2>1 DEF ZAddOptionError, Compatible
<1>4. inputs \in Seq(ScorePair) /\ base \in [Members -> Scores \cup {None}]
  BY <1>1, InputAssumption DEF Scores
<1>5. pairIndex \in 0 .. Len(inputs) /\ zset \in [Members -> Scores \cup {None}]
  BY <1>1, <1>4
<1>6. \A m \in Members : Decided(opts, inputs, pairIndex, base, m, zset[m])
  BY <1>1 DEF Decided, Untouched
<1>7. changed = PairChanges(opts, inputs, pairIndex, base)
  <2>1. ~\E i \in 1 .. pairIndex : TRUE
    BY <1>1
  <2> QED
    BY <1>1, <2>1, Zenon DEF PairChanges
<1>8. AddedMembers = {}
  BY <1>1 DEF AddedMembers
<1>9. IsFiniteSet(AddedMembers) /\ Cardinality(AddedMembers) = 0
  BY <1>8, FS_EmptySet
<1>10. changed <=> addedCount + changedCount > 0
  BY <1>1
<1> QED
  BY <1>1, <1>2, <1>3, <1>4, <1>5, <1>6, <1>7, <1>9, <1>10 DEF LoopInv

(* What a turn of the loop does to the local copy and the counts.          *)
LEMMA LoopTurn ==
    ASSUME LoopInv, LoopNext
    PROVE  /\ pairIndex < Len(inputs) /\ pairIndex' = pairIndex + 1
           /\ UNCHANGED <<opts, inputs, base>>
           /\ zset' = IF Stores(opts, zset[inputs[pairIndex + 1].member], inputs[pairIndex + 1].score)
                      THEN [zset EXCEPT ![inputs[pairIndex + 1].member] = inputs[pairIndex + 1].score]
                      ELSE zset
           /\ IF Stores(opts, zset[inputs[pairIndex + 1].member], inputs[pairIndex + 1].score)
              THEN /\ changed' = TRUE
                   /\ IF zset[inputs[pairIndex + 1].member] = None
                      THEN addedCount' = addedCount + 1 /\ changedCount' = changedCount
                      ELSE addedCount' = addedCount /\ changedCount' = changedCount + 1
              ELSE UNCHANGED <<changed, addedCount, changedCount>>
<1>1. CASE AddMember
  BY <1>1 DEF AddMember, Advance, Store, Found, Input, Stores
<1>2. CASE SetScore
  BY <1>2 DEF SetScore, Advance, Store, Found, Input, Stores
<1>3. CASE SkipPair
  BY <1>3 DEF SkipPair, Advance, Found, Input, Stores
<1> QED
  BY <1>1, <1>2, <1>3 DEF LoopNext

(* Every turn of the loop keeps the invariant.                             *)
LEMMA LoopInvStep == LoopInv /\ [LoopNext]_loopVars => LoopInv'
<1> SUFFICES ASSUME LoopInv, [LoopNext]_loopVars
             PROVE  LoopInv'
  OBVIOUS
<1>1. CASE UNCHANGED loopVars
  BY <1>1 DEF LoopInv, loopVars, AddedMembers
<1>2. CASE LoopNext
  <2> DEFINE k == inputs[pairIndex + 1].member
             s == inputs[pairIndex + 1].score
             stores == Stores(opts, zset[k], s)
  <2>1. /\ pairIndex < Len(inputs) /\ pairIndex' = pairIndex + 1
        /\ opts' = opts /\ inputs' = inputs /\ base' = base
        /\ zset' = IF stores THEN [zset EXCEPT ![k] = s] ELSE zset
        /\ IF stores
           THEN /\ changed' = TRUE
                /\ IF zset[k] = None
                   THEN addedCount' = addedCount + 1 /\ changedCount' = changedCount
                   ELSE addedCount' = addedCount /\ changedCount' = changedCount + 1
           ELSE changed' = changed /\ addedCount' = addedCount /\ changedCount' = changedCount
    BY <1>2, LoopTurn
  <2>2. /\ opts \in SUBSET Options /\ Compatible(opts)
        /\ inputs \in Seq(ScorePair)
        /\ base \in [Members -> Scores \cup {None}]
        /\ pairIndex \in Nat
        /\ zset \in [Members -> Scores \cup {None}]
        /\ \A m \in Members : Decided(opts, inputs, pairIndex, base, m, zset[m])
        /\ changed = PairChanges(opts, inputs, pairIndex, base)
        /\ addedCount \in Nat /\ changedCount \in Nat
        /\ changed <=> addedCount + changedCount > 0
    BY DEF LoopInv
  <2>3. k \in Members /\ s \in Scores /\ s # None
    BY <2>1, <2>2, PairType
  <2>4. /\ zset' \in [Members -> Scores \cup {None}]
        /\ \A m \in Members : Decided(opts, inputs, pairIndex + 1, base, m, zset'[m])
        /\ PairChanges(opts, inputs, pairIndex + 1, base)
             <=> PairChanges(opts, inputs, pairIndex, base) \/ stores
    BY <2>1, <2>2, PairStep
  <2>5. changed' = PairChanges(opts, inputs, pairIndex + 1, base)
    <3>1. changed \in BOOLEAN
      BY <2>2 DEF PairChanges
    <3>2. changed' = (changed \/ stores)
      BY <2>1, <3>1
    <3> HIDE DEF stores
    <3> QED
      BY <2>2, <2>4, <3>2 DEF PairChanges
  <2> HIDE DEF k, s, stores
  <2>6. /\ IsFiniteSet(AddedMembers)'
        /\ addedCount' = Cardinality(AddedMembers)'
        /\ addedCount' \in Nat /\ changedCount' \in Nat
        /\ \A m \in Members : base[m] # None => zset'[m] # None
        /\ changed' <=> addedCount' + changedCount' > 0
    <3>1. IsFiniteSet(AddedMembers) /\ addedCount = Cardinality(AddedMembers)
      BY DEF LoopInv
    <3>2. \A m \in Members : base[m] # None => zset[m] # None
      BY DEF LoopInv
    <3>3. CASE stores /\ zset[k] = None
      <4>1. zset' = [zset EXCEPT ![k] = s] /\ addedCount' = addedCount + 1
              /\ changedCount' = changedCount /\ changed' = TRUE
        BY <2>1, <3>3
      <4>2. AddedMembers' = AddedMembers \cup {k}
        BY <2>1, <2>2, <2>3, <3>2, <3>3, <4>1 DEF AddedMembers
      <4>3. k \notin AddedMembers
        BY <3>3 DEF AddedMembers
      <4>4. IsFiniteSet(AddedMembers') /\ Cardinality(AddedMembers') = Cardinality(AddedMembers) + 1
        BY <3>1, <4>2, <4>3, FS_AddElement
      <4>5. \A m \in Members : base[m] # None => zset'[m] # None
        BY <2>2, <2>3, <3>2, <4>1
      <4> QED
        BY <2>2, <3>1, <4>1, <4>4, <4>5
    <3>4. CASE stores /\ zset[k] # None
      <4>1. zset' = [zset EXCEPT ![k] = s] /\ addedCount' = addedCount
              /\ changedCount' = changedCount + 1 /\ changed' = TRUE
        BY <2>1, <3>4
      <4>2. AddedMembers' = AddedMembers
        BY <2>1, <2>2, <2>3, <3>4, <4>1 DEF AddedMembers
      <4>3. \A m \in Members : base[m] # None => zset'[m] # None
        BY <2>2, <2>3, <3>2, <4>1
      <4> QED
        BY <2>2, <3>1, <4>1, <4>2, <4>3
    <3>5. CASE ~stores
      <4>1. zset' = zset /\ addedCount' = addedCount
              /\ changedCount' = changedCount /\ changed' = changed
        BY <2>1, <3>5
      <4>2. AddedMembers' = AddedMembers
        BY <2>1, <4>1 DEF AddedMembers
      <4> QED
        BY <2>2, <3>1, <3>2, <4>1, <4>2
    <3> QED
      BY <3>3, <3>4, <3>5
  <2> QED
    BY <2>1, <2>2, <2>4, <2>5, <2>6 DEF LoopInv
<1> QED
  BY <1>1, <1>2

(* ZADD's loop, whatever its options and pairs, repeated members included, *)
(* leaves after every pair the scores the closed form of ZAdd says, sets   *)
(* its flag exactly when some pair changes a score, counts every new       *)
(* member once and loses none (ExecuteZAdd).                               *)
THEOREM ZAddLoopIsClosedForm == LoopSpec => []ZAddIsClosedForm
<1>1. LoopInit => LoopInv
  BY LoopInvInit
<1>2. LoopInv /\ [LoopNext]_loopVars => LoopInv'
  BY LoopInvStep
<1>3. LoopInv => ZAddIsClosedForm
  BY LoopInvSuffices
<1> QED
  BY <1>1, <1>2, <1>3, PTL DEF LoopSpec
=============================================================================
