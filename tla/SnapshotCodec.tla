--------------------------- MODULE SnapshotCodec ---------------------------
(***************************************************************************)
(* The image of a slot as the primary encodes it and a replica decodes it  *)
(* (src/src/repl/snapshot_codec.cpp).  A payload is the sequence of bulk   *)
(* strings of one RESP array; numbers travel as their decimal text.  The   *)
(* decoder's loop is a state machine, one action for the header, for the   *)
(* head of an object, for each of its fields and for its end, run on       *)
(* payloads that arrive as sent, cut, extended or damaged.                 *)
(***************************************************************************)
EXTENDS DecimalText, SequencesExt

CONSTANTS
  Texts,       \* the texts of keys, members, fields and values
  Images,        \* the maps to encode: functions from keys to objects
  Noise,         \* the texts a damaged element may become
  MaxElements    \* kMaxSnapshotElements

-----------------------------------------------------------------------------
\* An object holds a text, a set of members, a function from fields to values
\* or a function from members to scores.
IsContent(type, content) ==
  CASE type = "string" -> content \in Texts
    [] type = "set" -> content \subseteq Texts /\ IsFiniteSet(content)
    [] type = "hash" -> content \in [DOMAIN content -> Texts]
    [] type = "zset" -> content \in [DOMAIN content -> Numbers]

IsObject(o) ==
  /\ o \in [type : {"string", "set", "hash", "zset"}, content : {o.content}, deadline : Numbers]
  /\ IsContent(o.type, o.content)
  /\ o.type = "set" => Cardinality(o.content) <= MaxNumber
  /\ o.type \in {"hash", "zset"} =>
       /\ IsFiniteSet(DOMAIN o.content) /\ DOMAIN o.content \subseteq Texts
       /\ 2 * Cardinality(DOMAIN o.content) <= MaxNumber

IsImage(m) ==
  /\ m \in [DOMAIN m -> {m[k] : k \in DOMAIN m}]
  /\ IsFiniteSet(DOMAIN m) /\ DOMAIN m \subseteq Texts
  /\ Cardinality(DOMAIN m) <= MaxNumber
  /\ \A k \in DOMAIN m : IsObject(m[k])

ASSUME ImageAssumption ==
  /\ \A m \in Images : IsImage(m)
  /\ MaxElements \in Nat
  /\ 1 <= MaxNumber

VARIABLES
  image,     \* the map that was encoded
  payload,   \* what arrived
  pc, index, \* the decoder, and the element it reads next
  objects,   \* objects still to come
  object,    \* the object being read: its key, deadline, type, fields left, content
  map        \* the map decoded so far

decoderVars == <<image, payload, pc, index, objects, object, map>>

Magic == "CACHE.SNAPSHOT.V1"

\* The map with k set to v.
With(f, k, v) == [x \in DOMAIN f \cup {k} |-> IF x = k THEN v ELSE f[x]]

\* A field or member and its value, one pair after the other.
Pairs(f, Format(_)) ==
  LET keys == SetToSeq(DOMAIN f)
  IN [i \in 1..2 * Cardinality(DOMAIN f) |->
        IF i % 2 = 1 THEN keys[(i + 1) \div 2] ELSE Format(f[keys[i \div 2]])]

Same(text) == text

Fields(o) ==
  CASE o.type = "string" -> <<o.content>>
    [] o.type = "set" -> SetToSeq(o.content)
    [] o.type = "hash" -> Pairs(o.content, Same)
    [] o.type = "zset" -> Pairs(o.content, Text)

\* An encoder that leaves the deadline to the log.
EncodeObjectAgeless(key, o) ==
  <<key, Text(0), o.type, Text(Len(Fields(o)))>> \o Fields(o)

EncodeObject(key, o) ==
  <<key, Text(o.deadline), o.type, Text(Len(Fields(o)))>> \o Fields(o)

EncodeSnapshotPayload(m) ==
  LET keys == SetToSeq(DOMAIN m)
      blocks[n \in 0..Cardinality(DOMAIN m)] ==
        IF n = 0 THEN <<>> ELSE blocks[n - 1] \o EncodeObject(keys[n], m[keys[n]])
  IN <<Magic, Text(Cardinality(DOMAIN m))>> \o blocks[Cardinality(DOMAIN m)]

Arrivals(sent) ==
  {SubSeq(sent, 1, n) : n \in 0..Len(sent)}
    \cup {Append(sent, text) : text \in Noise}
    \cup {[sent EXCEPT ![i] = text] : i \in DOMAIN sent, text \in Noise}

NoObject == [key |-> "", deadline |-> 0, type |-> "", left |-> 0, content |-> ""]
NoMap == [k \in {} |-> NoObject]

DecoderInit ==
  /\ image \in Images
  /\ payload \in Arrivals(EncodeSnapshotPayload(image))
  /\ pc = "header"
  /\ index = 1
  /\ objects = 0
  /\ object = NoObject
  /\ map = NoMap

Reject ==
  /\ pc' = "rejected"
  /\ UNCHANGED <<image, payload, index, objects, object, map>>

Remaining == Len(payload) - index + 1

HeaderValid ==
  /\ Len(payload) \in 2..MaxElements
  /\ payload[1] = Magic
  /\ IsNumber(payload[2])

\* The array's length, the magic word and the number of objects.
ReadHeader ==
  /\ pc = "header"
  /\ \/ /\ HeaderValid
        /\ objects' = ValueOf(payload[2])
        /\ index' = 3
        /\ pc' = "object"
        /\ UNCHANGED <<image, payload, object, map>>
     \/ ~HeaderValid /\ Reject

Empty(type) ==
  CASE type = "string" -> "" [] type = "set" -> {} [] type \in {"hash", "zset"} -> [k \in {} |-> ""]

Paired(type) == type \in {"hash", "zset"}

CountValid(type, n) ==
  /\ type = "string" => n = 1
  /\ Paired(type) => n % 2 = 0

\* A check that trusts the announced number of fields.
HeadValidUnbounded ==
  /\ Remaining >= 4
  /\ IsNumber(payload[index + 1]) /\ IsNumber(payload[index + 3])
  /\ payload[index + 2] \in {"string", "set", "hash", "zset"}
  /\ CountValid(payload[index + 2], ValueOf(payload[index + 3]))

HeadValid ==
  /\ Remaining >= 4
  /\ IsNumber(payload[index + 1]) /\ IsNumber(payload[index + 3])
  /\ ValueOf(payload[index + 3]) <= Remaining - 4
  /\ payload[index + 2] \in {"string", "set", "hash", "zset"}
  /\ CountValid(payload[index + 2], ValueOf(payload[index + 3]))

\* Key, deadline, type and number of fields of the next object.
ReadHead ==
  /\ pc = "object" /\ objects > 0
  /\ \/ /\ HeadValid
        /\ object' = [key |-> payload[index], deadline |-> ValueOf(payload[index + 1]),
                      type |-> payload[index + 2], left |-> ValueOf(payload[index + 3]),
                      content |-> Empty(payload[index + 2])]
        /\ index' = index + 4
        /\ pc' = "fields"
        /\ UNCHANGED <<image, payload, objects, map>>
     \/ ~HeadValid /\ Reject

\* What the object holds with the elements at index.
WithField(o) ==
  CASE o.type = "string" -> payload[index]
    [] o.type = "set" -> o.content \cup {payload[index]}
    [] o.type = "hash" -> With(o.content, payload[index], payload[index + 1])
    [] o.type = "zset" -> With(o.content, payload[index], ValueOf(payload[index + 1]))

Width(type) == IF Paired(type) THEN 2 ELSE 1

ScoreValid == object.type = "zset" => IsNumber(payload[index + 1])

ReadField ==
  /\ pc = "fields" /\ object.left > 0
  /\ \/ /\ ScoreValid
        /\ object' = [object EXCEPT !.left = @ - Width(object.type), !.content = WithField(object)]
        /\ index' = index + Width(object.type)
        /\ UNCHANGED <<image, payload, pc, objects, map>>
     \/ ~ScoreValid /\ Reject

\* The object goes into the map.
EndObject ==
  /\ pc = "fields" /\ object.left = 0
  /\ map' = With(map, object.key, [type |-> object.type, content |-> object.content,
                                   deadline |-> object.deadline])
  /\ objects' = objects - 1
  /\ object' = NoObject
  /\ pc' = "object"
  /\ UNCHANGED <<image, payload, index>>

\* A decoder that does not look whether anything is left.
EndPayloadAnyway ==
  /\ pc = "object" /\ objects = 0
  /\ pc' = "decoded"
  /\ UNCHANGED <<image, payload, index, objects, object, map>>

\* Nothing may be left when the last object has been read.
EndPayload ==
  /\ pc = "object" /\ objects = 0
  /\ \/ /\ Remaining = 0
        /\ pc' = "decoded"
        /\ UNCHANGED <<image, payload, index, objects, object, map>>
     \/ Remaining # 0 /\ Reject

DecoderNext == ReadHeader \/ ReadHead \/ ReadField \/ EndObject \/ EndPayload

DecoderSpec == DecoderInit /\ [][DecoderNext]_decoderVars

-----------------------------------------------------------------------------
Sent == EncodeSnapshotPayload(image)

\* An image of any types and deadlines that arrives as it was sent, and is not
\* larger than the decoder takes, is decoded to the map that was encoded.
SnapshotRoundTrip ==
  payload = Sent /\ pc \in {"decoded", "rejected"} =>
    IF Len(Sent) <= MaxElements THEN pc = "decoded" /\ map = image ELSE pc = "rejected"

\* An image that was cut anywhere, or that has something behind it, is refused
\* as a whole: a replica never installs a part of a slot.
PartialRejected ==
  pc = "decoded" => Len(payload) = Len(Sent)

\* Whatever an element was turned into, the decoder never reads behind the
\* last one.
ReadsStayInside ==
  /\ index <= Len(payload) + 1
  /\ pc = "fields" => object.left <= Remaining
=============================================================================
