------------------------------ MODULE MCAlgorithms ------------------------------
(***************************************************************************)
(* The algorithms that run on data of their own, without other actors:     *)
(* ZADD's loop, the reads of a sorted set, the glob matcher and what the   *)
(* replication protocol encodes, slot images and frames.  A behaviour runs *)
(* one of them; the others have been given nothing to do.                  *)
(***************************************************************************)
EXTENDS ZAddLoop, ZSetReads, GlobMatch, SnapshotCodec, FrameCodec, TLC

CONSTANTS m1, m2, one

VARIABLE algorithm   \* the one that runs

-----------------------------------------------------------------------------
(* ZADD: all option sets and all lists of at most three pairs.             *)
LeastI64 == -1
NoInteger == [s \in {one} |-> None]
OneText == [i \in -1 .. 1 |-> one]
JoinedText == [p \in {one} \X {one} |-> one]

ConditionOptions == SUBSET {"NX", "XX", "GT", "LT"}

SamplePairs == [member : {m1, m2}, score : -1 .. 1]
UpToThreePairs == UNION {[1 .. n -> SamplePairs] : n \in 1 .. 3}

(* Pages of one entry, of two, and without limit.                          *)
SomePageSizes == {-1, 1, 2}

(* Stars and literals, where restarts matter; escapes; classes, with       *)
(* characters below ] and above it.                                        *)
UpTo(n, S) == UNION {[1 .. k -> S] : k \in 0 .. n}

ShortInputs ==
    LET A == 65  a == 97  b == 98
    IN  (UpTo(5, {Star, Question, a, b}) \X UpTo(4, {a, b}))
          \cup (UpTo(4, {Star, Escape, Close, a}) \X UpTo(3, {Star, Escape, a}))
          \cup ({<<Open>> \o body : body \in UpTo(4, {Close, Hyphen, Caret, Escape, A, a})}
                  \X UpTo(2, {Close, Hyphen, A, a, b}))

-----------------------------------------------------------------------------
\* Images of up to two objects of every type, some over the element limit.
Sample(type, content, deadline) == [type |-> type, content |-> content, deadline |-> deadline]

SampleObjects ==
  { Sample("string", "x", 0), Sample("string", "", 3), Sample("set", {"a", "b"}, 0),
    Sample("hash", ("f" :> "x"), 3), Sample("hash", ("f" :> "") @@ ("g" :> "2"), 0),
    Sample("zset", ("a" :> 2) @@ ("b" :> 0), 0), Sample("set", {}, 3) }

SampleImages ==
  {[k \in {} |-> Sample("string", "", 0)]}
    \cup {("p" :> o) : o \in SampleObjects}
    \cup {("p" :> o) @@ ("q" :> r) : o \in SampleObjects, r \in SampleObjects}

SampleTexts == {"", "a", "b", "f", "g", "p", "q", "x", "2"}
Decimal(n) == ToString(n)
Spelled(n) == {ToString(n), "0" \o ToString(n)}

\* Damage that looks like counts, types and headers.
Garbage == {"0", "1", "02", "2", "3", "9", "x", "string", "set", "zset", Magic}

\* Frames with empty and non-empty ids, lists and records, and damage that looks
\* like ids, numbers and subcommands.
SamplePositions == {<<>>, <<<<0, 2>>>>, <<<<1, 0>>, <<2, 1>>>>}
SampleRecords == {<<>>, <<"DEL", "k">>, <<"SET", "k", "0">>}

-----------------------------------------------------------------------------
(* No pairs to add, no sorted set to read, an empty pattern that has been  *)
(* matched, no image and no frame to decode.                               *)
NoAdd ==
    /\ opts = {} /\ inputs = <<>> /\ base = NoFields /\ pairIndex = 0
    /\ zset = NoFields /\ changed = FALSE /\ addedCount = 0 /\ changedCount = 0

NoRead ==
    /\ stored = <<>> /\ mode = "none" /\ first = 0 /\ second = 0
    /\ rev = FALSE /\ count = 0 /\ pages = <<>> /\ done = FALSE

NoGlob ==
    /\ pattern = <<>> /\ text = <<>> /\ patternIndex = 1 /\ textIndex = 1
    /\ starPatternIndex = 0 /\ starTextIndex = 1 /\ result = "match"

NoImage ==
    /\ image = NoMap /\ payload = <<>> /\ pc = "none" /\ index = 1
    /\ objects = 0 /\ object = NoObject /\ map = NoMap

WithoutFrame == frame = NoFrame /\ args = <<>> /\ decoded = Pending

MCInit ==
    \/ algorithm = "zadd" /\ LoopInit /\ NoRead /\ NoGlob /\ NoImage /\ WithoutFrame
    \/ algorithm = "zread" /\ ReadInit /\ NoAdd /\ NoGlob /\ NoImage /\ WithoutFrame
    \/ algorithm = "glob" /\ Init /\ NoAdd /\ NoRead /\ NoImage /\ WithoutFrame
    \/ algorithm = "image" /\ DecoderInit /\ NoAdd /\ NoRead /\ NoGlob /\ WithoutFrame
    \/ algorithm = "frame" /\ FrameInit /\ NoAdd /\ NoRead /\ NoGlob /\ NoImage

AddNext ==
    /\ algorithm = "zadd" /\ LoopNext
    /\ UNCHANGED <<algorithm, readVars, vars, decoderVars, frameVars>>
RangeNext ==
    /\ algorithm = "zread" /\ ReadNext
    /\ UNCHANGED <<algorithm, loopVars, vars, decoderVars, frameVars>>
MatchNext ==
    /\ algorithm = "glob" /\ Next
    /\ UNCHANGED <<algorithm, loopVars, readVars, decoderVars, frameVars>>
ImageNext ==
    /\ algorithm = "image" /\ DecoderNext
    /\ UNCHANGED <<algorithm, loopVars, readVars, vars, frameVars>>
ReceiveNext ==
    /\ algorithm = "frame" /\ FrameNext
    /\ UNCHANGED <<algorithm, loopVars, readVars, vars, decoderVars>>

MCNext == AddNext \/ RangeNext \/ MatchNext \/ ImageNext \/ ReceiveNext

allVars == <<algorithm, loopVars, readVars, vars, decoderVars, frameVars>>

MCSpec == MCInit /\ [][MCNext]_allVars /\ WF_allVars(MatchNext)
=============================================================================
