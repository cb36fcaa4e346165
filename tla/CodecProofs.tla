------------------------------ MODULE CodecProofs ------------------------------
(***************************************************************************)
(* Theorems about the codecs of the replication protocol: slot images, for *)
(* every set of images, every cut, extension or replacement of one element *)
(* and every limit on the elements, and frames, for every set of ids,      *)
(* numbers, positions and records.                                         *)
(***************************************************************************)
EXTENDS FiniteSetTheorems, SnapshotCodec, FrameCodec, InductionProofs, SequenceTheorems

(* A finite set is enumerated without repetition and completely.           *)
LEMMA EnumerationFacts ==
    ASSUME NEW S, IsFiniteSet(S)
    PROVE  /\ Cardinality(S) \in Nat
           /\ SetToSeq(S) \in [1 .. Cardinality(S) -> S]
           /\ \A i, j \in 1 .. Cardinality(S) : SetToSeq(S)[i] = SetToSeq(S)[j] => i = j
           /\ \A x \in S : \E i \in 1 .. Cardinality(S) : SetToSeq(S)[i] = x
<1> DEFINE C == Cardinality(S)
           f == SetToSeq(S)
<1>1. C \in Nat /\ ExistsBijection(1 .. C, S)
  BY FS_CardinalityType
<1>2. \E g \in [1 .. C -> S] : IsInjective(g)
  BY <1>1 DEF ExistsBijection, Bijection, Injection
<1>3. f \in [1 .. C -> S] /\ IsInjective(f)
  BY <1>2 DEF SetToSeq
<1>4. f \in Injection(1 .. C, S)
  BY <1>3 DEF Injection
<1>5. IsFiniteSet(1 .. C) /\ Cardinality(1 .. C) = C
  BY <1>1, FS_Interval
<1> HIDE DEF f
<1>6. f \in Surjection(1 .. C, S)
  BY <1>4, <1>5, FS_Injection
<1>7. \A x \in S : \E i \in 1 .. C : f[i] = x
  BY <1>6 DEF Surjection
<1>8. \A i, j \in 1 .. C : f[i] = f[j] => i = j
  BY <1>3 DEF IsInjective
<1> QED
  BY <1>1, <1>3, <1>7, <1>8 DEF f

(* A number is read back from its text, and only numbers are read.         *)
LEMMA TextFacts ==
    /\ \A n \in Numbers : IsNumber(Text(n)) /\ ValueOf(Text(n)) = n
    /\ \A text : IsNumber(text) => ValueOf(text) \in Numbers
    /\ Numbers \subseteq Nat
<1>1. Numbers \subseteq Nat
  BY SpellingAssumption DEF Numbers
<1>2. ASSUME NEW text, IsNumber(text)
      PROVE  ValueOf(text) \in Numbers /\ text \in Spellings(ValueOf(text))
  BY <1>2 DEF IsNumber, ValueOf
<1>3. ASSUME NEW n \in Numbers
      PROVE  IsNumber(Text(n)) /\ ValueOf(Text(n)) = n
  <2>1. IsNumber(Text(n))
    BY SpellingAssumption DEF IsNumber
  <2>2. ValueOf(Text(n)) \in Numbers /\ Text(n) \in Spellings(ValueOf(Text(n)))
    BY <2>1, <1>2
  <2> QED
    BY <2>1, <2>2, SpellingAssumption
<1> QED
  BY <1>1, <1>2, <1>3

-----------------------------------------------------------------------------
(* The objects of an image, and what a decoder has of one after some of    *)
(* its items: a text, members, or fields with their values.                *)
Types == {"string", "set", "hash", "zset"}

Elements == Texts \cup {Text(n) : n \in Numbers} \cup {Magic} \cup Types \cup Noise

Shown(o, v) == IF o.type = "zset" THEN Text(v) ELSE v

KeysOf(o) == SetToSeq(DOMAIN o.content)

Items(o) ==
    IF o.type = "string" THEN 1
    ELSE IF o.type = "set" THEN Cardinality(o.content)
    ELSE Cardinality(DOMAIN o.content)

ItemsRead(s, r) == {s[i] : i \in 1 .. r}

ContentAfter(o, r) ==
    IF o.type = "string" THEN (IF r = 0 THEN "" ELSE o.content)
    ELSE IF o.type = "set" THEN ItemsRead(SetToSeq(o.content), r)
    ELSE [k \in ItemsRead(KeysOf(o), r) |-> o.content[k]]

(* What is known of an object of an image.                                 *)
LEMMA ObjectFacts ==
    ASSUME NEW o, IsObject(o)
    PROVE  /\ o = [type |-> o.type, content |-> o.content, deadline |-> o.deadline]
           /\ o.type \in Types /\ o.deadline \in Numbers
           /\ o.type = "string" => o.content \in Texts
           /\ o.type = "set" =>
                /\ o.content \subseteq Texts /\ IsFiniteSet(o.content)
                /\ Cardinality(o.content) <= MaxNumber
           /\ Paired(o.type) =>
                /\ IsFiniteSet(DOMAIN o.content) /\ DOMAIN o.content \subseteq Texts
                /\ 2 * Cardinality(DOMAIN o.content) <= MaxNumber
                /\ o.content = [k \in DOMAIN o.content |-> o.content[k]]
                /\ \A k \in DOMAIN o.content : Shown(o, o.content[k]) \in Elements
                /\ o.type = "zset" => \A k \in DOMAIN o.content : o.content[k] \in Numbers
<1>1. o \in [type : Types, content : {o.content}, deadline : Numbers]
  BY DEF IsObject, Types
<1>2. CASE o.type = "string"
  BY <1>1, <1>2 DEF IsObject, IsContent, Types, Paired
<1>3. CASE o.type = "set"
  BY <1>1, <1>3 DEF IsObject, IsContent, Types, Paired
<1>4. CASE o.type = "hash"
  <2>1. o.content \in [DOMAIN o.content -> Texts]
    BY <1>4 DEF IsObject, IsContent
  <2> QED
    BY <1>1, <1>4, <2>1 DEF IsObject, Types, Paired, Shown, Elements
<1>5. CASE o.type = "zset"
  <2>1. o.content \in [DOMAIN o.content -> Numbers]
    BY <1>5 DEF IsObject, IsContent
  <2>2. \A k \in DOMAIN o.content : Shown(o, o.content[k]) = Text(o.content[k])
    BY <1>5 DEF Shown
  <2> QED
    BY <1>1, <1>5, <2>1, <2>2 DEF IsObject, Types, Paired, Elements
<1> QED
  BY <1>1, <1>2, <1>3, <1>4, <1>5 DEF Types

(* The fields an object is written as.                                     *)
LEMMA FieldsFacts ==
    ASSUME NEW o, IsObject(o)
    PROVE  /\ Fields(o) \in Seq(Elements)
           /\ Items(o) \in Nat
           /\ Len(Fields(o)) = Width(o.type) * Items(o)
           /\ Len(Fields(o)) \in Numbers
           /\ CountValid(o.type, Len(Fields(o)))
           /\ o.type = "string" => Fields(o) = <<o.content>>
           /\ o.type = "set" => Fields(o) = SetToSeq(o.content)
           /\ Paired(o.type) =>
                \A r \in 1 .. Items(o) :
                  /\ Fields(o)[2 * r - 1] = KeysOf(o)[r]
                  /\ Fields(o)[2 * r] = Shown(o, o.content[KeysOf(o)[r]])
                  /\ KeysOf(o)[r] \in DOMAIN o.content
<1> USE DEF Items
<1>1. CASE o.type = "string"
  <2>1. Fields(o) = <<o.content>> /\ o.content \in Elements
    BY <1>1, ObjectFacts DEF Fields, Elements
  <2>2. 1 \in Numbers
    BY ImageAssumption, SpellingAssumption DEF Numbers
  <2> QED
    BY <1>1, <2>1, <2>2 DEF Width, Paired, CountValid
<1>2. CASE o.type = "set"
  <2> DEFINE C == Cardinality(o.content)
  <2>1. /\ IsFiniteSet(o.content) /\ o.content \subseteq Elements /\ C <= MaxNumber
        /\ Fields(o) = SetToSeq(o.content)
    BY <1>2, ObjectFacts DEF Fields, Elements
  <2>2. C \in Nat /\ SetToSeq(o.content) \in [1 .. C -> o.content]
    BY <2>1, EnumerationFacts
  <2>3. Fields(o) \in Seq(Elements) /\ Len(Fields(o)) = C
    <3>1. Fields(o) \in [1 .. C -> Elements]
      BY <2>1, <2>2
    <3> QED
      BY <2>2, <3>1
  <2>4. C \in Numbers
    BY <2>1, <2>2, SpellingAssumption DEF Numbers
  <2> HIDE DEF C
  <2> QED
    BY <1>2, <2>1, <2>2, <2>3, <2>4 DEF C, Width, Paired, CountValid
<1>3. CASE Paired(o.type)
  <2> DEFINE C == Cardinality(DOMAIN o.content)
             ks == KeysOf(o)
  <2>1. /\ IsFiniteSet(DOMAIN o.content) /\ DOMAIN o.content \subseteq Elements
        /\ 2 * C <= MaxNumber
        /\ \A k \in DOMAIN o.content : Shown(o, o.content[k]) \in Elements
    BY <1>3, ObjectFacts DEF Elements
  <2>2. C \in Nat /\ ks \in [1 .. C -> DOMAIN o.content]
    BY <2>1, EnumerationFacts DEF KeysOf
  <2>3. Fields(o) = [i \in 1 .. 2 * C |->
          IF i % 2 = 1 THEN ks[(i + 1) \div 2] ELSE Shown(o, o.content[ks[i \div 2]])]
    <3>1. CASE o.type = "hash"
      <4>1. Fields(o) = Pairs(o.content, Same)
        BY <3>1 DEF Fields
      <4> QED
        BY <3>1, <4>1 DEF Pairs, Shown, Same, KeysOf
    <3>2. CASE o.type = "zset"
      <4>1. Fields(o) = Pairs(o.content, Text)
        BY <3>2 DEF Fields
      <4> QED
        BY <3>2, <4>1 DEF Pairs, Shown, KeysOf
    <3> QED
      BY <1>3, <3>1, <3>2 DEF Paired
  <2> HIDE DEF C, ks
  <2>4. ASSUME NEW i \in 1 .. 2 * C
        PROVE  Fields(o)[i] \in Elements
    <3>1. CASE i % 2 = 1
      <4>1. (i + 1) \div 2 \in 1 .. C
        BY <2>2, <3>1
      <4>2. Fields(o)[i] = ks[(i + 1) \div 2]
        BY <2>3, <3>1
      <4> QED
        BY <2>1, <2>2, <4>1, <4>2
    <3>2. CASE i % 2 = 0
      <4>1. i \div 2 \in 1 .. C
        BY <2>2, <3>2
      <4>2. Fields(o)[i] = Shown(o, o.content[ks[i \div 2]])
        BY <2>3, <3>2
      <4> QED
        BY <2>1, <2>2, <4>1, <4>2
    <3> QED
      BY <2>2, <3>1, <3>2
  <2>5. Fields(o) \in Seq(Elements) /\ Len(Fields(o)) = 2 * C
    <3>1. Fields(o) \in [1 .. 2 * C -> Elements]
      BY <2>3, <2>4
    <3>2. 2 * C \in Nat
      BY <2>2
    <3> QED
      BY <3>1, <3>2
  <2>6. ASSUME NEW r \in 1 .. C
        PROVE  /\ Fields(o)[2 * r - 1] = ks[r]
               /\ Fields(o)[2 * r] = Shown(o, o.content[ks[r]])
               /\ ks[r] \in DOMAIN o.content
    <3>1. /\ 2 * r - 1 \in 1 .. 2 * C /\ (2 * r - 1) % 2 = 1 /\ ((2 * r - 1) + 1) \div 2 = r
          /\ 2 * r \in 1 .. 2 * C /\ (2 * r) % 2 = 0 /\ (2 * r) \div 2 = r
      BY <2>2
    <3> QED
      BY <2>2, <2>3, <3>1
  <2>7. Items(o) = C /\ Width(o.type) = 2 /\ o.type \notin {"string", "set"}
    BY <1>3 DEF C, Width, Paired
  <2>8. 2 * C \in Numbers /\ (2 * C) % 2 = 0
    BY <2>1, <2>2, SpellingAssumption DEF Numbers, C
  <2> HIDE DEF Items
  <2> QED
    BY <2>2, <2>5, <2>6, <2>7, <2>8 DEF CountValid, ks
<1> QED
  BY <1>1, <1>2, <1>3, ObjectFacts DEF Types, Paired

(* One more item.                                                          *)
LEMMA ItemsReadFacts ==
    ASSUME NEW s, NEW r \in Nat
    PROVE  ItemsRead(s, 0) = {} /\ ItemsRead(s, r + 1) = ItemsRead(s, r) \cup {s[r + 1]}
<1>1. 1 .. 0 = {} /\ 1 .. r + 1 = 1 .. r \cup {r + 1}
  OBVIOUS
<1> QED
  BY <1>1 DEF ItemsRead

(* All the items of an enumeration.                                        *)
LEMMA AllItemsRead ==
    ASSUME NEW S, IsFiniteSet(S)
    PROVE  ItemsRead(SetToSeq(S), Cardinality(S)) = S
BY EnumerationFacts DEF ItemsRead

(* A function restricted to one more key.                                  *)
LEMMA WithFacts ==
    ASSUME NEW f, NEW D, NEW k
    PROVE  With([x \in D |-> f[x]], k, f[k]) = [x \in D \cup {k} |-> f[x]]
BY DEF With

(* The decoded content grows from nothing to the whole, item by item.      *)
LEMMA ContentFacts ==
    ASSUME NEW o, IsObject(o)
    PROVE  /\ ContentAfter(o, 0) = Empty(o.type)
           /\ ContentAfter(o, Items(o)) = o.content
           /\ \A r \in Nat :
                /\ o.type = "string" => ContentAfter(o, r + 1) = o.content
                /\ o.type = "set" =>
                     ContentAfter(o, r + 1) = ContentAfter(o, r) \cup {SetToSeq(o.content)[r + 1]}
                /\ Paired(o.type) =>
                     ContentAfter(o, r + 1) =
                       With(ContentAfter(o, r), KeysOf(o)[r + 1], o.content[KeysOf(o)[r + 1]])
<1>1. CASE o.type = "string"
  <2>1. \A r \in Nat : r + 1 # 0
    OBVIOUS
  <2>2. ContentAfter(o, 0) = "" /\ \A r : r # 0 => ContentAfter(o, r) = o.content
    BY <1>1 DEF ContentAfter
  <2>3. Items(o) # 0 /\ Empty(o.type) = "" /\ ~Paired(o.type)
    BY <1>1 DEF Items, Empty, Paired
  <2>4. ContentAfter(o, Items(o)) = o.content
    BY <2>2, <2>3
  <2>5. \A r \in Nat : ContentAfter(o, r + 1) = o.content
    BY <2>1, <2>2
  <2>6. o.type # "set"
    BY <1>1
  <2> QED
    BY <2>2, <2>3, <2>4, <2>5, <2>6
<1>2. CASE o.type = "set"
  <2>1. IsFiniteSet(o.content)
    BY <1>2, ObjectFacts
  <2>2. ItemsRead(SetToSeq(o.content), Cardinality(o.content)) = o.content
    BY <2>1, AllItemsRead
  <2>3. \A r : ContentAfter(o, r) = ItemsRead(SetToSeq(o.content), r)
    BY <1>2 DEF ContentAfter
  <2>4. Items(o) = Cardinality(o.content) /\ Empty(o.type) = {} /\ ~Paired(o.type)
    BY <1>2 DEF Items, Empty, Paired
  <2> QED
    BY <1>2, <2>2, <2>3, <2>4, ItemsReadFacts
<1>3. CASE Paired(o.type)
  <2>1. IsFiniteSet(DOMAIN o.content) /\ o.content = [k \in DOMAIN o.content |-> o.content[k]]
    BY <1>3, ObjectFacts
  <2>2. ItemsRead(KeysOf(o), Cardinality(DOMAIN o.content)) = DOMAIN o.content
    BY <2>1, AllItemsRead DEF KeysOf
  <2>3. \A r : ContentAfter(o, r) = [k \in ItemsRead(KeysOf(o), r) |-> o.content[k]]
    BY <1>3 DEF ContentAfter, Paired
  <2>4. /\ Items(o) = Cardinality(DOMAIN o.content) /\ Empty(o.type) = [k \in {} |-> ""]
        /\ o.type \notin {"string", "set"}
    BY <1>3 DEF Items, Empty, Paired
  <2>5. ContentAfter(o, 0) = Empty(o.type)
    <3>1. ItemsRead(KeysOf(o), 0) = {}
      BY ItemsReadFacts
    <3> QED
      BY <2>3, <2>4, <3>1
  <2>6. ContentAfter(o, Items(o)) = o.content
    BY <2>1, <2>2, <2>3, <2>4
  <2>7. ASSUME NEW r \in Nat
        PROVE  ContentAfter(o, r + 1) =
                 With(ContentAfter(o, r), KeysOf(o)[r + 1], o.content[KeysOf(o)[r + 1]])
    <3>1. ItemsRead(KeysOf(o), r + 1) = ItemsRead(KeysOf(o), r) \cup {KeysOf(o)[r + 1]}
      BY ItemsReadFacts
    <3> DEFINE D == ItemsRead(KeysOf(o), r)
               k == KeysOf(o)[r + 1]
    <3>2. ContentAfter(o, r) = [x \in D |-> o.content[x]]
      BY <2>3
    <3>3. ContentAfter(o, r + 1) = [x \in D \cup {k} |-> o.content[x]]
      BY <2>3, <3>1
    <3> HIDE DEF D, k
    <3>4. With([x \in D |-> o.content[x]], k, o.content[k]) = [x \in D \cup {k} |-> o.content[x]]
      BY WithFacts, SMTT(30)
    <3>5. ContentAfter(o, r + 1) = With(ContentAfter(o, r), k, o.content[k])
      BY <3>2, <3>3, <3>4
    <3> QED
      BY <3>5 DEF k
  <2> QED
    BY <2>4, <2>5, <2>6, <2>7
<1> QED
  BY <1>1, <1>2, <1>3, ObjectFacts DEF Types, Paired

-----------------------------------------------------------------------------
(* The payload of an image: where each object lies in it.                  *)
Size(m) == Cardinality(DOMAIN m)

KeyAt(m, n) == SetToSeq(DOMAIN m)[n]

ObjectAt(m, n) == m[KeyAt(m, n)]

Block(m, n) == EncodeObject(KeyAt(m, n), ObjectAt(m, n))

AreBlocks(b, m) ==
    /\ b \in [0 .. Size(m) -> Seq(Elements)]
    /\ b[0] = <<>>
    /\ \A n \in 1 .. Size(m) : b[n] = b[n - 1] \o Block(m, n)

Blocks(m) ==
    CHOOSE b : AreBlocks(b, m) /\ EncodeSnapshotPayload(m) = <<Magic, Text(Size(m))>> \o b[Size(m)]

EndAt(m, n) == 2 + Len(Blocks(m)[n])

UpTo(m, n) == [k \in ItemsRead(SetToSeq(DOMAIN m), n) |-> m[k]]

(* What is known of an image.                                              *)
LEMMA ImageFacts ==
    ASSUME NEW m, IsImage(m)
    PROVE  /\ Size(m) \in Numbers /\ Size(m) \in Nat
           /\ m = [k \in DOMAIN m |-> m[k]]
           /\ IsFiniteSet(DOMAIN m)
           /\ \A n \in 1 .. Size(m) :
                KeyAt(m, n) \in Texts /\ IsObject(ObjectAt(m, n)) /\ KeyAt(m, n) \in DOMAIN m
<1>1. IsFiniteSet(DOMAIN m) /\ DOMAIN m \subseteq Texts /\ Size(m) <= MaxNumber
  BY DEF IsImage, Size
<1>2. Size(m) \in Nat /\ SetToSeq(DOMAIN m) \in [1 .. Size(m) -> DOMAIN m]
  BY <1>1, EnumerationFacts DEF Size
<1>3. Size(m) \in Numbers
  BY <1>1, <1>2, SpellingAssumption DEF Numbers
<1>4. \A n \in 1 .. Size(m) : KeyAt(m, n) \in DOMAIN m
  BY <1>2 DEF KeyAt
<1>5. \A k \in DOMAIN m : IsObject(m[k])
  BY DEF IsImage
<1>6. m = [k \in DOMAIN m |-> m[k]]
  BY DEF IsImage
<1> QED
  BY <1>1, <1>2, <1>3, <1>4, <1>5, <1>6 DEF ObjectAt

(* An object as it is written.                                             *)
LEMMA BlockFacts ==
    ASSUME NEW m, IsImage(m), NEW n \in 1 .. Size(m)
    PROVE  LET o == ObjectAt(m, n)
           IN  /\ Block(m, n) \in Seq(Elements)
               /\ Len(Block(m, n)) = 4 + Len(Fields(o))
               /\ Block(m, n)[1] = KeyAt(m, n) /\ Block(m, n)[2] = Text(o.deadline)
               /\ Block(m, n)[3] = o.type /\ Block(m, n)[4] = Text(Len(Fields(o)))
               /\ \A j \in 1 .. Len(Fields(o)) : Block(m, n)[4 + j] = Fields(o)[j]
<1> DEFINE o == ObjectAt(m, n)
           h == <<KeyAt(m, n), Text(o.deadline), o.type, Text(Len(Fields(o)))>>
<1>1. IsObject(o) /\ KeyAt(m, n) \in Elements
  BY ImageFacts DEF Elements
<1>2. o.type \in Elements /\ Text(o.deadline) \in Elements
  BY <1>1, ObjectFacts DEF Elements
<1>3. Fields(o) \in Seq(Elements) /\ Text(Len(Fields(o))) \in Elements
  BY <1>1, FieldsFacts DEF Elements
<1>4. /\ h \in Seq(Elements) /\ Len(h) = 4
      /\ h[1] = KeyAt(m, n) /\ h[2] = Text(o.deadline) /\ h[3] = o.type
      /\ h[4] = Text(Len(Fields(o)))
  BY <1>1, <1>2, <1>3
<1>5. Block(m, n) = h \o Fields(o)
  BY DEF Block, EncodeObject
<1> HIDE DEF o, h
<1>6. /\ Block(m, n) \in Seq(Elements)
      /\ Len(Block(m, n)) = 4 + Len(Fields(o))
      /\ \A i \in 1 .. 4 + Len(Fields(o)) :
           Block(m, n)[i] = IF i <= 4 THEN h[i] ELSE Fields(o)[i - 4]
  <2>1. /\ h \o Fields(o) \in Seq(Elements)
        /\ Len(h \o Fields(o)) = Len(h) + Len(Fields(o))
        /\ \A i \in 1 .. Len(h) + Len(Fields(o)) :
             (h \o Fields(o))[i] = IF i <= Len(h) THEN h[i] ELSE Fields(o)[i - Len(h)]
    BY <1>3, <1>4, ConcatProperties
  <2> QED
    BY <1>4, <1>5, <2>1
<1>7. Len(Fields(o)) \in Nat
  BY <1>3
<1>8. \A j \in 1 .. Len(Fields(o)) : Block(m, n)[4 + j] = Fields(o)[j]
  BY <1>6, <1>7
<1>9. \A i \in 1 .. 4 : Block(m, n)[i] = h[i]
  BY <1>6, <1>7
<1> QED
  BY <1>4, <1>6, <1>8, <1>9 DEF o

(* The loop over the map writes one block after the other.                 *)
LEMMA EncodedAsBlocks ==
    ASSUME NEW m, IsImage(m)
    PROVE  /\ AreBlocks(Blocks(m), m)
           /\ EncodeSnapshotPayload(m) = <<Magic, Text(Size(m))>> \o Blocks(m)[Size(m)]
<1> DEFINE N == Size(m)
           V == Seq(Elements)
           Rec(g) == g = [n \in 0 .. N |-> IF n = 0 THEN <<>> ELSE g[n - 1] \o Block(m, n)]
           blocks == CHOOSE g : Rec(g)
           step == [p \in Nat \X V |-> IF p[1] \in 1 .. N THEN p[2] \o Block(m, p[1]) ELSE <<>>]
<1>1. N \in Nat
  BY ImageFacts
<1>2. \A n \in 1 .. N : Block(m, n) \in V
  BY BlockFacts
<1>3. <<>> \in V /\ \A s \in V, n \in 1 .. N : s \o Block(m, n) \in V
  BY <1>2, ConcatProperties
<1> HIDE DEF N, V
<1>4. step \in [Nat \X V -> V]
  BY <1>3
<1>5. PICK g \in [0 .. N -> V] : IsRecursion(g, N, <<>>, step)
  <2> HIDE DEF step
  <2> QED
    BY <1>1, <1>3, <1>4, PartialRecursion
<1>6. ASSUME NEW n \in 0 .. N, n # 0
      PROVE  step[<<n, g[n - 1]>>] = g[n - 1] \o Block(m, n)
  <2>1. n \in 1 .. N /\ n \in Nat /\ n - 1 \in 0 .. N
    BY <1>1, <1>6
  <2>2. g[n - 1] \in V
    BY <2>1
  <2> QED
    BY <2>1, <2>2
<1>7. Rec(g)
  <2> HIDE DEF step
  <2>1. \A n \in 0 .. N : g[n] = IF n = 0 THEN <<>> ELSE g[n - 1] \o Block(m, n)
    BY <1>5, <1>6 DEF IsRecursion
  <2> QED
    BY <1>5, <2>1
<1>8. Rec(blocks)
  <2>1. \E x : Rec(x)
    BY <1>7
  <2> HIDE DEF Rec
  <2> QED
    BY <2>1
<1>9. EncodeSnapshotPayload(m) = <<Magic, Text(N)>> \o blocks[N]
  BY DEF EncodeSnapshotPayload, N, Block, KeyAt, ObjectAt, Size
<1> HIDE DEF blocks
<1>10. AreBlocks(blocks, m)
  <2> DEFINE S == {n \in Nat : n \in 0 .. N => blocks[n] \in V}
  <2>1. 0 \in S
    BY <1>3, <1>8, <1>1
  <2>2. ASSUME NEW n \in Nat, n \in S
        PROVE  n + 1 \in S
    <3>1. SUFFICES ASSUME n + 1 \in 0 .. N PROVE blocks[n + 1] \in V
      OBVIOUS
    <3>2. n \in 0 .. N /\ n + 1 \in 1 .. N /\ n + 1 # 0 /\ (n + 1) - 1 = n
      BY <1>1, <3>1
    <3>3. blocks[n] \in V
      BY <2>2, <3>2
    <3>4. blocks[n + 1] = blocks[n] \o Block(m, n + 1)
      BY <1>8, <3>1, <3>2
    <3> QED
      BY <1>3, <3>2, <3>3, <3>4
  <2>3. Nat \subseteq S
    <3> HIDE DEF S
    <3> QED
      BY <2>1, <2>2, SetInduction
  <2>4. \A n \in 0 .. N : blocks[n] \in V
    BY <1>1, <2>3
  <2>5. blocks \in [0 .. N -> V]
    BY <1>8, <2>4
  <2>6. blocks[0] = <<>> /\ \A n \in 1 .. N : blocks[n] = blocks[n - 1] \o Block(m, n)
    <3>1. 0 \in 0 .. N /\ \A n \in 1 .. N : n \in 0 .. N /\ n # 0
      BY <1>1
    <3> QED
      BY <1>8, <3>1
  <2> QED
    BY <2>5, <2>6 DEF AreBlocks, N, V
<1>11. \E b : AreBlocks(b, m) /\ EncodeSnapshotPayload(m) = <<Magic, Text(Size(m))>> \o b[Size(m)]
  BY <1>9, <1>10 DEF N
<1> QED
  BY <1>11 DEF Blocks

(* A sequence that is one sequence behind another.                         *)
Joins(a, h, t) ==
    /\ Len(a) = Len(h) + Len(t)
    /\ \A i \in 1 .. Len(h) : a[i] = h[i]
    /\ \A j \in 1 .. Len(t) : a[Len(h) + j] = t[j]

(* Concatenation gives the one sequence that joins two.                    *)
LEMMA JoinsFacts ==
    ASSUME NEW S, NEW a \in Seq(S), NEW h \in Seq(S), NEW t \in Seq(S)
    PROVE  /\ a = h \o t => Joins(a, h, t)
           /\ Joins(a, h, t) => a = h \o t
<1>1. Len(h) \in Nat /\ Len(t) \in Nat
  OBVIOUS
<1>2. /\ h \o t \in Seq(S)
      /\ Len(h \o t) = Len(h) + Len(t)
      /\ \A i \in 1 .. Len(h) + Len(t) : (h \o t)[i] = IF i <= Len(h) THEN h[i] ELSE t[i - Len(h)]
  BY ConcatProperties
<1>3. \A i \in 1 .. Len(h) : (h \o t)[i] = h[i]
  BY <1>1, <1>2
<1>4. ASSUME NEW j \in 1 .. Len(t)
      PROVE  (h \o t)[Len(h) + j] = t[j]
  <2>1. Len(h) + j \in 1 .. Len(h) + Len(t) /\ ~(Len(h) + j <= Len(h)) /\ (Len(h) + j) - Len(h) = j
    BY <1>1
  <2> QED
    BY <1>2, <2>1
<1>5. Joins(h \o t, h, t)
  BY <1>2, <1>3, <1>4 DEF Joins
<1>6. ASSUME Joins(a, h, t)
      PROVE  a = h \o t
  <2>1. Len(a) = Len(h \o t)
    BY <1>2, <1>6 DEF Joins
  <2>2. ASSUME NEW i \in 1 .. Len(a)
        PROVE  a[i] = (h \o t)[i]
    <3>1. CASE i <= Len(h)
      <4>1. i \in 1 .. Len(h)
        BY <1>1, <3>1
      <4> QED
        BY <1>3, <1>6, <4>1 DEF Joins
    <3>2. CASE ~(i <= Len(h))
      <4>1. i - Len(h) \in 1 .. Len(t) /\ Len(h) + (i - Len(h)) = i
        BY <1>1, <1>6, <3>2 DEF Joins
      <4>2. a[Len(h) + (i - Len(h))] = t[i - Len(h)]
        BY <1>6, <4>1 DEF Joins
      <4>3. (h \o t)[Len(h) + (i - Len(h))] = t[i - Len(h)]
        BY <1>4, <4>1
      <4> QED
        BY <4>1, <4>2, <4>3
    <3> QED
      BY <3>1, <3>2
  <2> QED
    BY <1>2, <2>1, <2>2, SeqEqual
<1> QED
  BY <1>5, <1>6

Extends(t, s) ==
    /\ Len(s) <= Len(t)
    /\ \A i \in 1 .. Len(s) : t[i] = s[i]

(* Writing behind a sequence keeps what it extends.                        *)
LEMMA ExtendsConcat ==
    ASSUME NEW s \in Seq(Elements), NEW t \in Seq(Elements), NEW v \in Seq(Elements),
           Extends(t, s), NEW u, u = t \o v
    PROVE  Extends(u, s)
<1>1. u \in Seq(Elements) /\ Len(t) \in Nat /\ Len(v) \in Nat
  BY ConcatProperties
<1>2. Len(u) = Len(t) + Len(v) /\ \A i \in 1 .. Len(t) : u[i] = t[i]
  BY <1>1, JoinsFacts DEF Joins
<1>3. Len(s) \in Nat
  OBVIOUS
<1> QED
  BY <1>1, <1>2, <1>3 DEF Extends

(* The blocks before an object are not disturbed by the ones behind it.    *)
LEMMA BlocksExtend ==
    ASSUME NEW m, IsImage(m), NEW n \in 0 .. Size(m)
    PROVE  LET b == Blocks(m)
           IN  /\ b[n] \in Seq(Elements) /\ b[Size(m)] \in Seq(Elements)
               /\ Extends(b[Size(m)], b[n])
<1> DEFINE b == Blocks(m)
           N == Size(m)
           S == {k \in Nat : n <= k /\ k <= N => Extends(b[k], b[n])}
<1>1. N \in Nat /\ AreBlocks(b, m)
  BY ImageFacts, EncodedAsBlocks
<1>2. \A k \in 1 .. N : Block(m, k) \in Seq(Elements)
  BY BlockFacts
<1> HIDE DEF b, N
<1>3. /\ b \in [0 .. N -> Seq(Elements)]
      /\ \A k \in 1 .. N : b[k] = b[k - 1] \o Block(m, k)
  BY <1>1 DEF AreBlocks, N
<1>4. n \in 0 .. N /\ N \in 0 .. N
  BY <1>1 DEF N
<1>5. 0 \in S
  <2>1. SUFFICES ASSUME n <= 0 PROVE Extends(b[0], b[n])
    OBVIOUS
  <2>2. n = 0 /\ Len(b[0]) \in Nat
    BY <1>1, <1>3, <1>4, <2>1
  <2> QED
    BY <2>2 DEF Extends
<1>6. ASSUME NEW k \in Nat, k \in S
      PROVE  k + 1 \in S
  <2>1. SUFFICES ASSUME n <= k + 1, k + 1 <= N PROVE Extends(b[k + 1], b[n])
    OBVIOUS
  <2>2. k + 1 \in 1 .. N /\ (k + 1) - 1 = k /\ k \in 0 .. N /\ k + 1 \in 0 .. N
    BY <1>1, <2>1
  <2>3. CASE n = k + 1
    <3>1. Len(b[n]) \in Nat
      BY <1>3, <1>4
    <3> QED
      BY <2>3, <3>1 DEF Extends
  <2>4. CASE n <= k
    <3>1. Extends(b[k], b[n])
      BY <1>6, <2>2, <2>4, <1>1
    <3>2. b[k + 1] = b[k] \o Block(m, k + 1)
      BY <1>3, <2>2
    <3>3. b[k] \in Seq(Elements) /\ Block(m, k + 1) \in Seq(Elements) /\ b[n] \in Seq(Elements)
      BY <1>2, <1>3, <1>4, <2>2
    <3> QED
      BY <3>1, <3>2, <3>3, ExtendsConcat
  <2> QED
    BY <1>4, <1>1, <2>1, <2>3, <2>4
<1>7. N \in S
  <2> HIDE DEF S
  <2> QED
    BY <1>1, <1>5, <1>6, SetInduction
<1>8. Extends(b[N], b[n])
  BY <1>1, <1>4, <1>7
<1>9. b[n] \in Seq(Elements) /\ b[N] \in Seq(Elements)
  BY <1>3, <1>4
<1> QED
  BY <1>8, <1>9 DEF b, N

(* Where the header and the objects lie in a payload.                      *)
LEMMA PayloadFacts ==
    ASSUME NEW m, IsImage(m)
    PROVE  LET sent == EncodeSnapshotPayload(m)
           IN  /\ sent \in Seq(Elements) /\ Len(sent) >= 2
               /\ sent[1] = Magic /\ sent[2] = Text(Size(m))
               /\ EndAt(m, 0) = 2 /\ EndAt(m, Size(m)) = Len(sent)
               /\ \A n \in 0 .. Size(m) : EndAt(m, n) \in 2 .. Len(sent)
<1> DEFINE sent == EncodeSnapshotPayload(m)
           b == Blocks(m)
           N == Size(m)
           h == <<Magic, Text(N)>>
<1>1. N \in Nat /\ N \in Numbers
  BY ImageFacts
<1>2. h \in Seq(Elements) /\ Len(h) = 2 /\ h[1] = Magic /\ h[2] = Text(N)
  BY <1>1 DEF Elements
<1>3. sent = h \o b[N] /\ b[0] = <<>>
  BY EncodedAsBlocks DEF AreBlocks
<1>4. \A n \in 0 .. N : b[n] \in Seq(Elements) /\ Len(b[n]) \in Nat /\ Len(b[n]) <= Len(b[N])
  BY BlocksExtend DEF Extends
<1>5. 0 \in 0 .. N /\ N \in 0 .. N
  BY <1>1
<1> HIDE DEF sent, b, N, h
<1>6. /\ sent \in Seq(Elements) /\ Len(sent) = Len(h) + Len(b[N])
      /\ \A i \in 1 .. Len(h) : sent[i] = h[i]
  <2>1. sent \in Seq(Elements)
    BY <1>2, <1>3, <1>4, <1>5, ConcatProperties
  <2>2. Joins(sent, h, b[N])
    BY <1>2, <1>3, <1>4, <1>5, <2>1, JoinsFacts
  <2> QED
    BY <2>1, <2>2 DEF Joins
<1>7. Len(b[N]) \in Nat
  BY <1>4, <1>5
<1>8. Len(sent) = 2 + Len(b[N]) /\ Len(sent) >= 2
  BY <1>2, <1>6, <1>7
<1>9. sent[1] = Magic /\ sent[2] = Text(N)
  <2>1. 1 \in 1 .. Len(h) /\ 2 \in 1 .. Len(h)
    BY <1>2
  <2> QED
    BY <1>2, <1>6, <2>1
<1>10. \A n : EndAt(m, n) = 2 + Len(b[n])
  BY DEF EndAt, b
<1>11. EndAt(m, 0) = 2 /\ EndAt(m, N) = Len(sent)
  BY <1>3, <1>8, <1>10
<1>12. \A n \in 0 .. N : EndAt(m, n) \in 2 .. Len(sent)
  BY <1>4, <1>5, <1>8, <1>10
<1> QED
  BY <1>6, <1>8, <1>9, <1>11, <1>12 DEF sent, N

(* What the payload of an image holds at one of its objects.               *)
LEMMA ObjectInPayload ==
    ASSUME NEW m, IsImage(m), NEW n \in 1 .. Size(m)
    PROVE  LET sent == EncodeSnapshotPayload(m)
               o == ObjectAt(m, n)
               e == EndAt(m, n - 1)
           IN  /\ EndAt(m, n) = e + 4 + Len(Fields(o))
               /\ sent[e + 1] = KeyAt(m, n) /\ sent[e + 2] = Text(o.deadline)
               /\ sent[e + 3] = o.type /\ sent[e + 4] = Text(Len(Fields(o)))
               /\ \A j \in 1 .. Len(Fields(o)) : sent[e + 4 + j] = Fields(o)[j]
<1> DEFINE sent == EncodeSnapshotPayload(m)
           b == Blocks(m)
           N == Size(m)
           h == <<Magic, Text(N)>>
           o == ObjectAt(m, n)
           e == EndAt(m, n - 1)
           F == Len(Fields(o))
<1>1. N \in Nat /\ N \in Numbers
  BY ImageFacts
<1>2. h \in Seq(Elements) /\ Len(h) = 2
  BY <1>1 DEF Elements
<1>3. n \in 0 .. N /\ n - 1 \in 0 .. N /\ N \in 0 .. N
  BY <1>1
<1>4. /\ sent = h \o b[N]
      /\ b[n] = b[n - 1] \o Block(m, n)
  BY EncodedAsBlocks DEF AreBlocks
<1>5. /\ b[n] \in Seq(Elements) /\ b[N] \in Seq(Elements) /\ b[n - 1] \in Seq(Elements)
      /\ Len(b[n]) <= Len(b[N])
      /\ \A i \in 1 .. Len(b[n]) : b[N][i] = b[n][i]
  BY <1>3, BlocksExtend DEF Extends
<1>6. Block(m, n) \in Seq(Elements) /\ Len(Block(m, n)) = 4 + F
  BY BlockFacts
<1>7. F \in Nat
  <2>1. IsObject(o)
    BY ImageFacts
  <2> QED
    BY <2>1, FieldsFacts, TextFacts
<1>8. e = 2 + Len(b[n - 1]) /\ EndAt(m, n) = 2 + Len(b[n])
  BY DEF EndAt
<1> HIDE DEF sent, b, N, h, o, e, F
<1>9. /\ Len(b[n]) = Len(b[n - 1]) + Len(Block(m, n))
      /\ \A j \in 1 .. Len(Block(m, n)) : b[n][Len(b[n - 1]) + j] = Block(m, n)[j]
  <2>1. Joins(b[n], b[n - 1], Block(m, n))
    BY <1>4, <1>5, <1>6, JoinsFacts
  <2> QED
    BY <2>1 DEF Joins
<1>10. \A i \in 1 .. Len(b[N]) : sent[Len(h) + i] = b[N][i]
  <2>1. sent \in Seq(Elements)
    BY <1>2, <1>4, <1>5, ConcatProperties
  <2>2. Joins(sent, h, b[N])
    BY <1>2, <1>4, <1>5, <2>1, JoinsFacts
  <2> QED
    BY <2>2 DEF Joins
<1>11. Len(b[n]) \in Nat /\ Len(b[N]) \in Nat /\ Len(b[n - 1]) \in Nat
  BY <1>5
<1>12. ASSUME NEW j \in 1 .. 4 + F
       PROVE  sent[e + j] = Block(m, n)[j]
  <2> DEFINE d == Len(b[n - 1])
             x == d + j
  <2>1. b[n][x] = Block(m, n)[j]
    BY <1>6, <1>9
  <2>2. d \in Nat /\ Len(b[n]) = d + (4 + F)
    BY <1>6, <1>9, <1>11
  <2>3. e = 2 + d
    BY <1>8
  <2> HIDE DEF d
  <2>4. x \in 1 .. Len(b[n]) /\ x \in 1 .. Len(b[N]) /\ e + j = 2 + x
    BY <1>5, <1>7, <1>11, <2>2, <2>3
  <2> HIDE DEF x
  <2>5. sent[2 + x] = b[N][x]
    BY <1>2, <1>10, <2>4
  <2> QED
    BY <1>5, <2>1, <2>4, <2>5
<1>13. /\ Block(m, n)[1] = KeyAt(m, n) /\ Block(m, n)[2] = Text(o.deadline)
       /\ Block(m, n)[3] = o.type /\ Block(m, n)[4] = Text(F)
       /\ \A j \in 1 .. F : Block(m, n)[4 + j] = Fields(o)[j]
  BY BlockFacts DEF o, F
<1>14. e \in Nat /\ EndAt(m, n) = e + 4 + F
  <2> DEFINE d == Len(b[n - 1])
  <2>1. d \in Nat /\ Len(b[n]) = d + (4 + F) /\ e = 2 + d /\ EndAt(m, n) = 2 + Len(b[n])
    BY <1>6, <1>8, <1>9, <1>11
  <2> HIDE DEF d
  <2> QED
    BY <1>7, <2>1
<1>15. ASSUME NEW j \in 1 .. F
       PROVE  sent[e + 4 + j] = Fields(o)[j]
  <2>1. 4 + j \in 1 .. 4 + F /\ e + 4 + j = e + (4 + j)
    BY <1>7, <1>14
  <2>2. sent[e + (4 + j)] = Block(m, n)[4 + j]
    BY <1>12, <2>1
  <2> QED
    BY <1>13, <2>1, <2>2
<1>16. /\ sent[e + 1] = KeyAt(m, n) /\ sent[e + 2] = Text(o.deadline)
       /\ sent[e + 3] = o.type /\ sent[e + 4] = Text(F)
  <2>1. \A j \in 1 .. 4 : j \in 1 .. 4 + F
    BY <1>7
  <2>2. /\ sent[e + 1] = Block(m, n)[1] /\ sent[e + 2] = Block(m, n)[2]
        /\ sent[e + 3] = Block(m, n)[3] /\ sent[e + 4] = Block(m, n)[4]
    BY <1>12, <2>1
  <2> QED
    BY <1>13, <2>2
<1> QED
  BY <1>14, <1>15, <1>16 DEF sent, o, e, F

(* The map that the first objects make up.                                 *)
LEMMA UpToFacts ==
    ASSUME NEW m, IsImage(m)
    PROVE  /\ UpTo(m, 0) = NoMap
           /\ UpTo(m, Size(m)) = m
           /\ \A n \in Nat : UpTo(m, n + 1) = With(UpTo(m, n), KeyAt(m, n + 1), ObjectAt(m, n + 1))
<1> DEFINE s == SetToSeq(DOMAIN m)
<1>1. UpTo(m, 0) = NoMap
  <2>1. ItemsRead(s, 0) = {}
    BY ItemsReadFacts
  <2> QED
    BY <2>1 DEF UpTo, NoMap
<1>2. UpTo(m, Size(m)) = m
  <2>1. ItemsRead(s, Size(m)) = DOMAIN m
    BY ImageFacts, AllItemsRead DEF Size
  <2> QED
    BY <2>1, ImageFacts DEF UpTo
<1>3. ASSUME NEW n \in Nat
      PROVE  UpTo(m, n + 1) = With(UpTo(m, n), KeyAt(m, n + 1), ObjectAt(m, n + 1))
  <2> DEFINE D == ItemsRead(s, n)
             k == s[n + 1]
  <2>1. ItemsRead(s, n + 1) = D \cup {k}
    BY ItemsReadFacts
  <2>2. UpTo(m, n) = [x \in D |-> m[x]] /\ UpTo(m, n + 1) = [x \in D \cup {k} |-> m[x]]
    BY <2>1 DEF UpTo
  <2>3. k = KeyAt(m, n + 1) /\ ObjectAt(m, n + 1) = m[k]
    BY DEF KeyAt, ObjectAt
  <2> HIDE DEF D, k
  <2>4. With([x \in D |-> m[x]], k, m[k]) = [x \in D \cup {k} |-> m[x]]
    BY DEF With
  <2> QED
    BY <2>2, <2>3, <2>4
<1> QED
  BY <1>1, <1>2, <1>3

-----------------------------------------------------------------------------
(* What arrives is as long as what was sent, or the two agree as far as    *)
(* both go.                                                                *)
Agree(p, sent) == \A i \in 1 .. Len(p) : i <= Len(sent) => p[i] = sent[i]

(* What a damaged or truncated payload keeps of what was sent.             *)
LEMMA ArrivalFacts ==
    ASSUME NEW sent \in Seq(Elements), NEW p \in Arrivals(sent)
    PROVE  p \in Seq(Elements) /\ (Len(p) = Len(sent) \/ Agree(p, sent))
<1>1. Noise \subseteq Elements /\ Len(sent) \in Nat
  BY DEF Elements
<1>2. CASE \E n \in 0 .. Len(sent) : p = SubSeq(sent, 1, n)
  <2>1. PICK n \in 0 .. Len(sent) : p = SubSeq(sent, 1, n)
    BY <1>2
  <2>2. n \in Nat /\ n <= Len(sent) /\ \A i \in 1 .. n : sent[i] \in Elements
    BY <1>1
  <2>3. /\ p \in Seq(Elements)
        /\ Len(p) = n
        /\ \A i \in 1 .. n : p[i] = sent[i]
    <3>1. /\ p \in Seq(Elements)
          /\ Len(p) = IF 1 <= n THEN n - 1 + 1 ELSE 0
          /\ \A i \in 1 .. n - 1 + 1 : p[i] = sent[1 + i - 1]
      BY <2>1, <2>2, SubSeqProperties
    <3>2. n - 1 + 1 = n /\ (~(1 <= n) => n = 0)
      BY <2>2
    <3>3. \A i \in 1 .. n : 1 + i - 1 = i
      BY <2>2
    <3> QED
      BY <3>1, <3>2, <3>3
  <2> QED
    BY <2>3 DEF Agree
<1>3. CASE \E text \in Noise : p = Append(sent, text)
  <2>1. PICK text \in Noise : p = Append(sent, text)
    BY <1>3
  <2>2. p \in Seq(Elements) /\ Len(p) = Len(sent) + 1 /\ \A i \in 1 .. Len(sent) : p[i] = sent[i]
    BY <1>1, <2>1, AppendProperties
  <2> QED
    BY <1>1, <2>2 DEF Agree
<1>4. CASE \E i \in DOMAIN sent, text \in Noise : p = [sent EXCEPT ![i] = text]
  <2>1. PICK i \in DOMAIN sent, text \in Noise : p = [sent EXCEPT ![i] = text]
    BY <1>4
  <2>2. i \in 1 .. Len(sent) /\ text \in Elements
    BY <1>1
  <2>3. p \in Seq(Elements) /\ Len(p) = Len(sent)
    BY <2>1, <2>2, ExceptSeq
  <2> QED
    BY <2>3
<1> QED
  BY <1>2, <1>3, <1>4 DEF Arrivals

(* The decoder stays inside what arrived.                                  *)
FieldsInv ==
    /\ object = [key |-> object.key, deadline |-> object.deadline, type |-> object.type,
                 left |-> object.left, content |-> object.content]
    /\ object.type \in Types
    /\ object.left \in Nat /\ object.left <= Remaining
    /\ Paired(object.type) => object.left % 2 = 0
    /\ objects > 0

InsideInv ==
    /\ image \in Images /\ payload \in Arrivals(Sent)
    /\ pc \in {"header", "object", "fields", "decoded", "rejected"}
    /\ index \in Nat /\ 1 <= index /\ index <= Len(payload) + 1
    /\ objects \in Nat
    /\ pc = "fields" => FieldsInv

(* What holds of every payload.                                            *)
LEMMA PayloadType ==
    ASSUME InsideInv
    PROVE  /\ IsImage(image) /\ Sent \in Seq(Elements)
           /\ payload \in Seq(Elements) /\ Len(payload) \in Nat
           /\ Len(payload) = Len(Sent) \/ Agree(payload, Sent)
<1>1. IsImage(image) /\ payload \in Arrivals(Sent)
  BY ImageAssumption DEF InsideInv
<1>2. Sent \in Seq(Elements)
  BY <1>1, PayloadFacts DEF Sent
<1>3. payload \in Seq(Elements) /\ (Len(payload) = Len(Sent) \/ Agree(payload, Sent))
  BY <1>1, <1>2, ArrivalFacts
<1> QED
  BY <1>1, <1>2, <1>3

(* The decoder starts at the first element.                                *)
LEMMA InitInside == DecoderInit => InsideInv
<1>1. SUFFICES ASSUME DecoderInit PROVE InsideInv
  OBVIOUS
<1>2. image \in Images /\ payload \in Arrivals(Sent)
  BY <1>1 DEF DecoderInit, Sent
<1>3. IsImage(image)
  BY <1>2, ImageAssumption
<1>4. payload \in Seq(Elements)
  BY <1>2, <1>3, PayloadFacts, ArrivalFacts DEF Sent
<1>5. Len(payload) \in Nat
  BY <1>4
<1> QED
  BY <1>1, <1>2, <1>5 DEF DecoderInit, InsideInv

(* Nothing is read behind the last element.                                *)
LEMMA NextInside == InsideInv /\ [DecoderNext]_decoderVars => InsideInv'
<1>1. SUFFICES ASSUME InsideInv, [DecoderNext]_decoderVars PROVE InsideInv'
  OBVIOUS
<1>2. image' = image /\ payload' = payload
  BY <1>1 DEF DecoderNext, ReadHeader, ReadHead, ReadField, EndObject, EndPayload, Reject, decoderVars
<1>3. image' \in Images /\ payload' \in Arrivals(Sent)'
  BY <1>1, <1>2 DEF InsideInv, Sent
<1>4. Len(payload) \in Nat
  BY <1>1, PayloadType
<1>5. CASE Reject
  BY <1>1, <1>2, <1>3, <1>5 DEF Reject, InsideInv
<1>6. CASE UNCHANGED decoderVars
  BY <1>1, <1>3, <1>6 DEF decoderVars, InsideInv, FieldsInv, Remaining
<1>7. CASE ReadHeader /\ ~Reject
  <2>1. HeaderValid /\ objects' = ValueOf(payload[2]) /\ index' = 3 /\ pc' = "object"
    BY <1>7 DEF ReadHeader
  <2>2. Len(payload) >= 2
    BY <2>1, ImageAssumption DEF HeaderValid
  <2>3. objects' \in Nat
    BY <2>1, TextFacts DEF HeaderValid
  <2>4. 3 <= Len(payload) + 1
    BY <1>4, <2>2
  <2> QED
    BY <1>1, <1>2, <1>3, <2>1, <2>3, <2>4 DEF InsideInv
<1>8. CASE ReadHead /\ ~Reject
  <2>1. /\ HeadValid
        /\ object' = [key |-> payload[index], deadline |-> ValueOf(payload[index + 1]),
                      type |-> payload[index + 2], left |-> ValueOf(payload[index + 3]),
                      content |-> Empty(payload[index + 2])]
        /\ index' = index + 4 /\ pc' = "fields" /\ objects' = objects /\ objects > 0
    BY <1>8 DEF ReadHead
  <2>2. index \in Nat /\ objects \in Nat
    BY <1>1 DEF InsideInv
  <2> DEFINE left == ValueOf(payload[index + 3])
  <2>3. left \in Nat /\ left <= Remaining - 4 /\ Remaining >= 4
    BY <2>1, TextFacts DEF HeadValid
  <2>4. payload[index + 2] \in Types /\ (Paired(payload[index + 2]) => left % 2 = 0)
    BY <2>1 DEF HeadValid, CountValid, Types
  <2>5. object'.left = left /\ object'.type = payload[index + 2]
    BY <2>1
  <2> HIDE DEF left
  <2>6. left <= Remaining' /\ index' \in Nat /\ 1 <= index' /\ index' <= Len(payload') + 1
    BY <1>2, <1>4, <2>1, <2>2, <2>3 DEF Remaining
  <2>7. FieldsInv'
    <3>1. object' = [key |-> object'.key, deadline |-> object'.deadline, type |-> object'.type,
                     left |-> object'.left, content |-> object'.content]
      BY <2>1
    <3> QED
      BY <2>1, <2>3, <2>4, <2>5, <2>6, <3>1 DEF FieldsInv
  <2> QED
    BY <1>3, <2>1, <2>2, <2>6, <2>7 DEF InsideInv
<1>9. CASE ReadField /\ ~Reject
  <2>1. /\ pc = "fields" /\ object.left > 0
        /\ object' = [object EXCEPT !.left = @ - Width(object.type), !.content = WithField(object)]
        /\ index' = index + Width(object.type) /\ pc' = pc /\ objects' = objects
    BY <1>9 DEF ReadField
  <2>2. FieldsInv /\ index \in Nat /\ 1 <= index /\ objects \in Nat
    BY <1>1, <2>1 DEF InsideInv
  <2>3. /\ object'.key = object.key /\ object'.deadline = object.deadline
        /\ object'.type = object.type /\ object'.left = object.left - Width(object.type)
        /\ object' = [key |-> object'.key, deadline |-> object'.deadline, type |-> object'.type,
                      left |-> object'.left, content |-> object'.content]
    BY <2>1, <2>2 DEF FieldsInv
  <2> DEFINE w == Width(object.type)
             left == object.left
  <2>4. w \in {1, 2} /\ left \in Nat /\ left > 0 /\ left <= Remaining
    BY <2>1, <2>2 DEF FieldsInv, Width
  <2>5. Paired(object.type) => w = 2 /\ left % 2 = 0
    BY <2>2 DEF FieldsInv, Width
  <2>6. ~Paired(object.type) => w = 1
    BY DEF Width
  <2> HIDE DEF w, left
  <2>7. left - w \in Nat /\ (Paired(object.type) => (left - w) % 2 = 0)
    BY <2>4, <2>5, <2>6
  <2>8. left - w <= Remaining' /\ index' \in Nat /\ 1 <= index' /\ index' <= Len(payload') + 1
    BY <1>2, <1>4, <2>1, <2>2, <2>4, <2>7 DEF Remaining, w
  <2>9. FieldsInv'
    BY <2>1, <2>2, <2>3, <2>7, <2>8 DEF FieldsInv, w, left
  <2> QED
    BY <1>3, <2>1, <2>2, <2>8, <2>9 DEF InsideInv
<1>10. CASE EndObject
  <2>1. pc' = "object" /\ index' = index /\ objects' = objects - 1
    BY <1>10 DEF EndObject
  <2>2. objects \in Nat /\ objects > 0
    BY <1>1, <1>10 DEF EndObject, InsideInv, FieldsInv
  <2>3. objects - 1 \in Nat
    BY <2>2
  <2> QED
    BY <1>1, <1>2, <1>3, <2>1, <2>3 DEF InsideInv
<1>11. CASE EndPayload /\ ~Reject
  BY <1>1, <1>2, <1>3, <1>11 DEF EndPayload, InsideInv
<1> QED
  BY <1>1, <1>5, <1>6, <1>7, <1>8, <1>9, <1>10, <1>11 DEF DecoderNext

-----------------------------------------------------------------------------
(* As long as what arrived agrees with what was sent, the decoder has read *)
(* the first objects of the image and the first items of the next one.     *)
Finished == Size(image) - objects

AtObject ==
    /\ objects \in 0 .. Size(image)
    /\ index = EndAt(image, Finished) + 1
    /\ map = UpTo(image, Finished)
    /\ Len(payload) <= MaxElements

AtItem(o, r) ==
    /\ r \in 0 .. Items(o)
    /\ object.left = Width(o.type) * (Items(o) - r)
    /\ index = EndAt(image, Finished) + 5 + Width(o.type) * r
    /\ object.content = ContentAfter(o, r)

InObject ==
    /\ objects \in 1 .. Size(image)
    /\ object.key = KeyAt(image, Finished + 1)
    /\ object.deadline = ObjectAt(image, Finished + 1).deadline
    /\ object.type = ObjectAt(image, Finished + 1).type
    /\ \E r \in Nat : AtItem(ObjectAt(image, Finished + 1), r)
    /\ map = UpTo(image, Finished)
    /\ Len(payload) <= MaxElements

TrackInv ==
    /\ pc = "header" => map = NoMap
    /\ pc = "object" => AtObject
    /\ pc = "fields" => InObject
    /\ pc = "decoded" => Len(payload) = Len(Sent) /\ map = image /\ Len(payload) <= MaxElements
    /\ pc = "rejected" => payload # Sent \/ Len(payload) > MaxElements

DecodeInv == InsideInv /\ (Agree(payload, Sent) => TrackInv)

(* A payload that arrives as it was sent agrees with it.                   *)
LEMMA AgreeSelf ==
    ASSUME NEW p
    PROVE  Agree(p, p)
BY DEF Agree

(* The header of a payload that agrees with what was sent.                 *)
LEMMA HeaderTracked ==
    ASSUME InsideInv, Agree(payload, Sent), TrackInv, ReadHeader
    PROVE  TrackInv'
<1> DEFINE N == Size(image)
<1>1. IsImage(image) /\ Len(payload) \in Nat
  BY PayloadType
<1>2. /\ Len(Sent) \in Nat /\ Len(Sent) >= 2 /\ Sent[1] = Magic /\ Sent[2] = Text(N)
      /\ EndAt(image, 0) = 2
  BY <1>1, PayloadFacts DEF Sent
<1>3. N \in Numbers /\ N \in Nat
  BY <1>1, ImageFacts
<1>4. image' = image /\ payload' = payload /\ Sent' = Sent
  BY DEF ReadHeader, Reject, Sent
<1>5. CASE HeaderValid /\ ~Reject
  <2>1. objects' = ValueOf(payload[2]) /\ index' = 3 /\ pc' = "object" /\ map' = map
    BY <1>5 DEF ReadHeader
  <2>2. Len(payload) >= 2 /\ Len(payload) <= MaxElements
    BY <1>5, ImageAssumption DEF HeaderValid
  <2>3. payload[2] = Sent[2]
    <3>1. 2 \in 1 .. Len(payload) /\ 2 <= Len(Sent)
      BY <1>1, <1>2, <2>2
    <3> QED
      BY <3>1 DEF Agree
  <2>4. objects' = N
    BY <1>2, <1>3, <2>1, <2>3, TextFacts
  <2>5. Finished' = 0 /\ N \in 0 .. N
    BY <1>3, <1>4, <2>4 DEF Finished
  <2>6. map' = UpTo(image, 0)
    BY <1>1, <2>1, UpToFacts DEF TrackInv, ReadHeader
  <2>7. AtObject'
    BY <1>2, <1>4, <2>1, <2>2, <2>4, <2>5, <2>6 DEF AtObject
  <2> QED
    BY <2>1, <2>7 DEF TrackInv
<1>6. CASE ~HeaderValid /\ Reject
  <2>1. SUFFICES ASSUME payload = Sent PROVE Len(payload) > MaxElements
    BY <1>4, <1>6 DEF TrackInv, Reject
  <2>2. IsNumber(payload[2]) /\ payload[1] = Magic
    BY <1>2, <1>3, <2>1, TextFacts
  <2>3. ~(Len(payload) \in 2 .. MaxElements)
    BY <1>6, <2>2 DEF HeaderValid
  <2> QED
    BY <1>2, <2>1, <2>3, ImageAssumption
<1>7. HeaderValid => ~Reject
  BY DEF ReadHeader, Reject
<1> QED
  BY <1>5, <1>6, <1>7 DEF ReadHeader

(* The object that comes next in a payload that agrees with what was sent. *)
LEMMA NextObject ==
    ASSUME InsideInv, Agree(payload, Sent), objects \in 1 .. Size(image)
    PROVE  LET o == ObjectAt(image, Finished + 1)
               e == EndAt(image, Finished)
               F == Len(Fields(ObjectAt(image, Finished + 1)))
           IN  /\ Size(image) \in Nat /\ Finished \in Nat /\ Finished + 1 \in 1 .. Size(image)
               /\ IsImage(image) /\ IsObject(o)
               /\ e \in Nat /\ F \in Nat /\ Len(payload) \in Nat
               /\ EndAt(image, Finished + 1) = e + 4 + F /\ e + 4 + F <= Len(Sent)
               /\ e + 4 <= Len(payload) =>
                    /\ payload[e + 1] = KeyAt(image, Finished + 1)
                    /\ payload[e + 2] = Text(o.deadline)
                    /\ payload[e + 3] = o.type
                    /\ payload[e + 4] = Text(F)
               /\ \A j \in 1 .. F : e + 4 + j <= Len(payload) => payload[e + 4 + j] = Fields(o)[j]
<1> DEFINE n == Finished + 1
           o == ObjectAt(image, n)
           e == EndAt(image, Finished)
           F == Len(Fields(o))
           N == Size(image)
<1>1. IsImage(image) /\ Len(payload) \in Nat /\ Len(Sent) \in Nat
  BY PayloadType
<1>2. N \in Nat
  BY <1>1, ImageFacts
<1>3. Finished \in Nat /\ n \in 1 .. N /\ Finished \in 0 .. N /\ n \in 0 .. N /\ n - 1 = Finished
  BY <1>2 DEF Finished
<1>4. IsObject(o)
  BY <1>1, <1>3, ImageFacts
<1>5. F \in Nat
  BY <1>4, FieldsFacts, TextFacts
<1>6. e \in 2 .. Len(Sent) /\ EndAt(image, n) \in 2 .. Len(Sent)
  BY <1>1, <1>3, PayloadFacts DEF Sent
<1>7. /\ EndAt(image, n) = e + 4 + F
      /\ Sent[e + 1] = KeyAt(image, n) /\ Sent[e + 2] = Text(o.deadline)
      /\ Sent[e + 3] = o.type /\ Sent[e + 4] = Text(F)
      /\ \A j \in 1 .. F : Sent[e + 4 + j] = Fields(o)[j]
  <2> DEFINE d == EndAt(image, n - 1)
  <2>1. /\ EndAt(image, n) = d + 4 + F
        /\ Sent[d + 1] = KeyAt(image, n) /\ Sent[d + 2] = Text(o.deadline)
        /\ Sent[d + 3] = o.type /\ Sent[d + 4] = Text(F)
        /\ \A j \in 1 .. F : Sent[d + 4 + j] = Fields(o)[j]
    BY <1>1, <1>3, ObjectInPayload, SMTT(30) DEF Sent
  <2>2. d = e
    BY <1>3
  <2> HIDE DEF d, e, n, o, F
  <2> QED
    BY <2>1, <2>2
<1> HIDE DEF n, o, e, F
<1>8. e \in Nat /\ e + 4 + F <= Len(Sent)
  BY <1>1, <1>6, <1>7
<1>9. ASSUME NEW j \in 1 .. 4 + F, e + j <= Len(payload)
      PROVE  payload[e + j] = Sent[e + j]
  <2>1. e + j \in 1 .. Len(payload) /\ e + j <= Len(Sent)
    BY <1>1, <1>5, <1>8, <1>9
  <2> QED
    BY <2>1 DEF Agree
<1>10. ASSUME e + 4 <= Len(payload)
       PROVE  /\ payload[e + 1] = Sent[e + 1] /\ payload[e + 2] = Sent[e + 2]
              /\ payload[e + 3] = Sent[e + 3] /\ payload[e + 4] = Sent[e + 4]
  <2>1. \A j \in 1 .. 4 : j \in 1 .. 4 + F /\ e + j <= Len(payload)
    BY <1>1, <1>5, <1>8, <1>10
  <2>2. \A j \in 1 .. 4 : payload[e + j] = Sent[e + j]
    BY <1>9, <2>1
  <2> QED
    BY <2>2
<1>11. ASSUME NEW j \in 1 .. F, e + 4 + j <= Len(payload)
       PROVE  payload[e + 4 + j] = Fields(o)[j]
  <2>1. 4 + j \in 1 .. 4 + F /\ e + (4 + j) = e + 4 + j
    BY <1>5, <1>8
  <2>2. payload[e + (4 + j)] = Sent[e + (4 + j)]
    BY <1>9, <1>11, <2>1
  <2> QED
    BY <1>7, <2>1, <2>2
<1>12. e + 4 <= Len(payload) =>
         /\ payload[e + 1] = KeyAt(image, n) /\ payload[e + 2] = Text(o.deadline)
         /\ payload[e + 3] = o.type /\ payload[e + 4] = Text(F)
  BY <1>7, <1>10
<1> QED
  BY <1>1, <1>2, <1>3, <1>4, <1>5, <1>7, <1>8, <1>11, <1>12 DEF n, o, e, F

(* The head of an object is read as it was written.                        *)
LEMMA HeadTracked ==
    ASSUME InsideInv, Agree(payload, Sent), TrackInv, ReadHead
    PROVE  TrackInv'
<1> DEFINE n == Finished + 1
           o == ObjectAt(image, n)
           e == EndAt(image, Finished)
           F == Len(Fields(o))
<1>1. AtObject /\ objects > 0
  BY DEF TrackInv, ReadHead
<1>2. objects \in 1 .. Size(image)
  BY <1>1 DEF AtObject
<1>3. /\ Finished \in Nat /\ IsImage(image) /\ IsObject(o) /\ e \in Nat /\ F \in Nat
      /\ Len(payload) \in Nat /\ e + 4 + F <= Len(Sent)
      /\ e + 4 <= Len(payload) =>
           /\ payload[e + 1] = KeyAt(image, n) /\ payload[e + 2] = Text(o.deadline)
           /\ payload[e + 3] = o.type /\ payload[e + 4] = Text(F)
  BY <1>2, NextObject
<1>4. index = e + 1 /\ Finished' = Finished /\ image' = image /\ payload' = payload /\ Sent' = Sent
      /\ objects' = objects /\ map' = map
  BY <1>1 DEF AtObject, ReadHead, Reject, Finished, Sent
<1>5. /\ Items(o) \in Nat /\ F = Width(o.type) * Items(o) /\ F \in Numbers /\ CountValid(o.type, F)
  BY <1>3, FieldsFacts
<1>6. o.type \in Types /\ o.deadline \in Numbers
  BY <1>3, ObjectFacts
<1> HIDE DEF n, o, e, F
<1>7. index + 1 = e + 2 /\ index + 2 = e + 3 /\ index + 3 = e + 4
  BY <1>3, <1>4
<1>8. Remaining = Len(payload) - e
  BY <1>3, <1>4 DEF Remaining
<1>9. CASE HeadValid /\ ~Reject
  <2>1. e + 4 <= Len(payload)
    BY <1>3, <1>8, <1>9 DEF HeadValid
  <2>2. /\ payload[index] = KeyAt(image, n) /\ payload[index + 1] = Text(o.deadline)
        /\ payload[index + 2] = o.type /\ payload[index + 3] = Text(F)
    BY <1>3, <1>4, <1>7, <2>1
  <2>3. /\ object' = [key |-> payload[index], deadline |-> ValueOf(payload[index + 1]),
                      type |-> payload[index + 2], left |-> ValueOf(payload[index + 3]),
                      content |-> Empty(payload[index + 2])]
        /\ index' = index + 4 /\ pc' = "fields"
    BY <1>9 DEF ReadHead
  <2>4. /\ object'.key = KeyAt(image, n) /\ object'.deadline = o.deadline
        /\ object'.type = o.type /\ object'.left = F /\ object'.content = Empty(o.type)
    BY <1>5, <1>6, <2>2, <2>3, TextFacts
  <2>5. Empty(o.type) = ContentAfter(o, 0)
    BY <1>3, ContentFacts
  <2>6. Width(o.type) \in Nat /\ 0 \in 0 .. Items(o) /\ Items(o) - 0 = Items(o)
    BY <1>5 DEF Width
  <2>7. index' = e + 5 + Width(o.type) * 0
    BY <1>3, <1>4, <2>3, <2>6
  <2>8. AtItem(o, 0)'
    BY <1>4, <1>5, <2>4, <2>5, <2>6, <2>7 DEF AtItem, o, n, e
  <2>9. InObject'
    <3>1. ObjectAt(image, Finished + 1)' = o /\ KeyAt(image, Finished + 1)' = KeyAt(image, n)
      BY <1>4 DEF o, n
    <3>2. (\E r \in Nat : AtItem(ObjectAt(image, Finished + 1), r))'
      BY <2>8 DEF o, n
    <3> QED
      BY <1>1, <1>2, <1>4, <2>4, <3>1, <3>2 DEF InObject, AtObject
  <2> QED
    BY <2>3, <2>9 DEF TrackInv
<1>10. CASE ~HeadValid /\ Reject
  <2>1. SUFFICES ASSUME payload = Sent PROVE FALSE
    BY <1>4, <1>10 DEF TrackInv, Reject
  <2>2. Remaining >= 4 /\ F <= Remaining - 4 /\ e + 4 <= Len(payload)
    BY <1>3, <1>8, <2>1
  <2>3. /\ payload[index + 1] = Text(o.deadline)
        /\ payload[index + 2] = o.type /\ payload[index + 3] = Text(F)
    BY <1>3, <1>7, <2>2
  <2>4. IsNumber(payload[index + 1]) /\ IsNumber(payload[index + 3]) /\ ValueOf(payload[index + 3]) = F
    BY <1>5, <1>6, <2>3, TextFacts
  <2>5. HeadValid
    BY <1>5, <1>6, <2>2, <2>3, <2>4 DEF HeadValid, Types
  <2> QED
    BY <1>10, <2>5
<1>11. HeadValid => ~Reject
  BY DEF ReadHead, Reject
<1> QED
  BY <1>9, <1>10, <1>11 DEF ReadHead

(* A field, or a field and its value, is read as it was written.           *)
LEMMA FieldTracked ==
    ASSUME InsideInv, Agree(payload, Sent), TrackInv, ReadField
    PROVE  TrackInv'
<1> DEFINE n == Finished + 1
           o == ObjectAt(image, n)
           e == EndAt(image, Finished)
           F == Len(Fields(o))
           w == Width(o.type)
<1>1. InObject /\ FieldsInv /\ object.left > 0
  BY DEF TrackInv, ReadField, InsideInv
<1>2. PICK r \in Nat : AtItem(o, r)
  BY <1>1 DEF InObject
<1>3. /\ Finished \in Nat /\ IsImage(image) /\ IsObject(o) /\ e \in Nat /\ F \in Nat
      /\ Len(payload) \in Nat
      /\ \A j \in 1 .. F : e + 4 + j <= Len(payload) => payload[e + 4 + j] = Fields(o)[j]
  BY <1>1, NextObject DEF InObject
<1>4. image' = image /\ payload' = payload /\ objects' = objects /\ map' = map
  BY DEF ReadField, Reject
<1>5. Finished' = Finished /\ Sent' = Sent
  BY <1>4 DEF Finished, Sent
<1>6. Items(o) \in Nat /\ F = w * Items(o)
  BY <1>3, FieldsFacts
<1>7. /\ r \in 0 .. Items(o) /\ object.left = w * (Items(o) - r)
      /\ index = e + 5 + w * r /\ object.content = ContentAfter(o, r)
  BY <1>2 DEF AtItem
<1>8. /\ object.key = KeyAt(image, n) /\ object.deadline = o.deadline /\ object.type = o.type
      /\ object.left <= Remaining /\ o.type \in Types
      /\ object = [key |-> object.key, deadline |-> object.deadline, type |-> object.type,
                   left |-> object.left, content |-> object.content]
  BY <1>1 DEF InObject, FieldsInv
<1>9. w \in {1, 2} /\ (Paired(o.type) => w = 2) /\ (~Paired(o.type) => w = 1)
  BY DEF Width
<1> HIDE DEF n, o, e, F, w
<1>10. r + 1 \in 0 .. Items(o) /\ r + 1 \in 1 .. Items(o)
  <2>1. CASE w = 1
    BY <1>1, <1>6, <1>7, <2>1
  <2>2. CASE w = 2
    BY <1>1, <1>6, <1>7, <2>2
  <2> QED
    BY <1>9, <2>1, <2>2
<1>11. index + w <= Len(payload) + 1
  <2>1. CASE w = 1
    BY <1>1, <1>3, <1>6, <1>7, <1>8, <1>10, <2>1 DEF Remaining
  <2>2. CASE w = 2
    BY <1>1, <1>3, <1>6, <1>7, <1>8, <1>10, <2>2, SMTT(30) DEF Remaining
  <2> QED
    BY <1>9, <2>1, <2>2
<1>12. WithField(object) = ContentAfter(o, r + 1) /\ ScoreValid
  <2>1. CASE o.type = "string"
    <3>1. w = 1 /\ Fields(o) = <<o.content>> /\ F = 1
      BY <1>3, <1>9, <2>1, FieldsFacts DEF Paired, F
    <3>2. r = 0 /\ index = e + 4 + 1
      BY <1>3, <1>6, <1>7, <1>10, <3>1
    <3>3. payload[index] = o.content
      <4>1. 1 \in 1 .. F /\ e + 4 + 1 <= Len(payload)
        BY <1>3, <1>11, <3>1, <3>2
      <4> QED
        BY <1>3, <3>1, <3>2, <4>1
    <3>4. ContentAfter(o, r + 1) = o.content
      BY <1>3, <2>1, ContentFacts
    <3> QED
      BY <1>8, <2>1, <3>3, <3>4 DEF WithField, ScoreValid
  <2>2. CASE o.type = "set"
    <3>1. w = 1 /\ Fields(o) = SetToSeq(o.content)
      BY <1>3, <1>9, <2>2, FieldsFacts DEF Paired
    <3>2. index = e + 4 + (r + 1) /\ r + 1 \in 1 .. F /\ e + 4 + (r + 1) <= Len(payload)
      BY <1>3, <1>6, <1>7, <1>10, <1>11, <3>1
    <3>3. payload[index] = SetToSeq(o.content)[r + 1]
      BY <1>3, <3>1, <3>2
    <3>4. ContentAfter(o, r + 1) = ContentAfter(o, r) \cup {SetToSeq(o.content)[r + 1]}
      BY <1>3, <2>2, ContentFacts
    <3>5. WithField(object) = object.content \cup {payload[index]}
      BY <1>8, <2>2 DEF WithField
    <3> QED
      BY <1>7, <1>8, <2>2, <3>3, <3>4, <3>5 DEF ScoreValid
  <2>3. CASE Paired(o.type)
    <3> DEFINE k == KeysOf(o)[r + 1]
    <3>1. w = 2
      BY <1>9, <2>3
    <3>2. /\ Fields(o)[2 * (r + 1) - 1] = k
          /\ Fields(o)[2 * (r + 1)] = Shown(o, o.content[k])
          /\ k \in DOMAIN o.content
      BY <1>3, <1>10, <2>3, FieldsFacts
    <3>3. ContentAfter(o, r + 1) = With(ContentAfter(o, r), k, o.content[k])
      BY <1>3, <2>3, ContentFacts
    <3>4. o.type = "zset" => o.content[k] \in Numbers
      BY <1>3, <2>3, <3>2, ObjectFacts
    <3> HIDE DEF k
    <3>5. /\ index = e + 4 + (2 * (r + 1) - 1) /\ index + 1 = e + 4 + 2 * (r + 1)
          /\ 2 * (r + 1) - 1 \in 1 .. F /\ 2 * (r + 1) \in 1 .. F
          /\ e + 4 + (2 * (r + 1) - 1) <= Len(payload) /\ e + 4 + 2 * (r + 1) <= Len(payload)
      BY <1>3, <1>6, <1>7, <1>10, <1>11, <3>1
    <3>6. payload[index] = k /\ payload[index + 1] = Shown(o, o.content[k])
      BY <1>3, <3>2, <3>5
    <3>7. CASE o.type = "hash"
      BY <1>7, <1>8, <3>3, <3>6, <3>7 DEF WithField, ScoreValid, Shown
    <3>8. CASE o.type = "zset"
      <4>1. payload[index + 1] = Text(o.content[k]) /\ o.content[k] \in Numbers
        BY <3>4, <3>6, <3>8 DEF Shown
      <4>2. IsNumber(payload[index + 1]) /\ ValueOf(payload[index + 1]) = o.content[k]
        BY <4>1, TextFacts
      <4>3. WithField(object) = With(object.content, payload[index], ValueOf(payload[index + 1]))
        BY <1>8, <3>8 DEF WithField
      <4> QED
        BY <1>7, <3>3, <3>6, <4>2, <4>3 DEF ScoreValid
    <3> QED
      BY <2>3, <3>7, <3>8 DEF Paired
  <2> QED
    BY <1>8, <2>1, <2>2, <2>3 DEF Types, Paired
<1>13. /\ object' = [object EXCEPT !.left = @ - Width(object.type), !.content = WithField(object)]
       /\ index' = index + Width(object.type) /\ pc' = "fields"
  BY <1>12 DEF ReadField
<1>14. Width(object.type) = w
  BY <1>8 DEF w
<1>15. /\ object'.key = KeyAt(image, n) /\ object'.deadline = o.deadline /\ object'.type = o.type
       /\ object'.left = object.left - w /\ object'.content = ContentAfter(o, r + 1)
  BY <1>8, <1>12, <1>13, <1>14
<1>16. object'.left = w * (Items(o) - (r + 1)) /\ index' = e + 5 + w * (r + 1)
  <2>1. index' = index + w /\ object'.left = object.left - w
    BY <1>13, <1>14, <1>15
  <2>2. e \in Nat /\ Items(o) \in Nat
    BY <1>3, <1>6
  <2>3. object.left = w * (Items(o) - r) /\ index = e + 5 + w * r
    BY <1>7
  <2>4. CASE w = 1
    BY <2>1, <2>2, <2>3, <2>4
  <2>5. CASE w = 2
    BY <2>1, <2>2, <2>3, <2>5
  <2> QED
    BY <1>9, <2>4, <2>5
<1>17. (\E q \in Nat : AtItem(ObjectAt(image, Finished + 1), q))'
  <2>1. AtItem(o, r + 1)'
    BY <1>4, <1>5, <1>10, <1>15, <1>16 DEF AtItem, w, o, n, e
  <2>2. r + 1 \in Nat
    OBVIOUS
  <2> QED
    BY <2>1, <2>2 DEF o, n
<1>18. InObject'
  BY <1>1, <1>4, <1>5, <1>15, <1>17 DEF InObject, o, n
<1> QED
  BY <1>13, <1>18 DEF TrackInv

(* The end of an object.                                                   *)
LEMMA EndTracked ==
    ASSUME InsideInv, Agree(payload, Sent), TrackInv, EndObject
    PROVE  TrackInv'
<1> DEFINE n == Finished + 1
           o == ObjectAt(image, n)
           e == EndAt(image, Finished)
           F == Len(Fields(o))
           w == Width(o.type)
<1>1. InObject /\ object.left = 0
  BY DEF TrackInv, EndObject
<1>2. PICK r \in Nat : AtItem(o, r)
  BY <1>1 DEF InObject
<1>3. /\ Size(image) \in Nat /\ Finished \in Nat /\ IsImage(image) /\ IsObject(o) /\ e \in Nat
      /\ F \in Nat /\ EndAt(image, n) = e + 4 + F /\ n \in 1 .. Size(image)
  BY <1>1, NextObject DEF InObject
<1>4. /\ image' = image /\ payload' = payload /\ objects' = objects - 1 /\ index' = index
      /\ pc' = "object"
      /\ map' = With(map, object.key, [type |-> object.type, content |-> object.content,
                                       deadline |-> object.deadline])
  BY DEF EndObject
<1>5. Finished' = n /\ objects - 1 \in 0 .. Size(image)
  BY <1>1, <1>3, <1>4 DEF Finished, InObject
<1>6. Items(o) \in Nat /\ F = w * Items(o) /\ w \in {1, 2}
  BY <1>3, FieldsFacts DEF Width
<1>7. /\ r \in 0 .. Items(o) /\ object.left = w * (Items(o) - r)
      /\ index = e + 5 + w * r /\ object.content = ContentAfter(o, r)
  BY <1>2 DEF AtItem
<1>8. /\ object.key = KeyAt(image, n) /\ object.deadline = o.deadline /\ object.type = o.type
      /\ map = UpTo(image, Finished) /\ Len(payload) <= MaxElements
  BY <1>1 DEF InObject
<1>9. /\ ContentAfter(o, Items(o)) = o.content
      /\ o = [type |-> o.type, content |-> o.content, deadline |-> o.deadline]
  BY <1>3, ContentFacts, ObjectFacts
<1>10. UpTo(image, n) = With(UpTo(image, Finished), KeyAt(image, n), o)
  BY <1>3, UpToFacts
<1> HIDE DEF n, o, e, F, w
<1>11. r = Items(o)
  <2>1. CASE w = 1
    BY <1>1, <1>6, <1>7, <2>1
  <2>2. CASE w = 2
    BY <1>1, <1>6, <1>7, <2>2
  <2> QED
    BY <1>6, <2>1, <2>2
<1>12. index = EndAt(image, n) + 1
  BY <1>3, <1>6, <1>7, <1>11
<1>13. map' = UpTo(image, n)
  BY <1>4, <1>7, <1>8, <1>9, <1>10, <1>11
<1>14. AtObject'
  BY <1>4, <1>5, <1>8, <1>12, <1>13 DEF AtObject
<1> QED
  BY <1>4, <1>14 DEF TrackInv

(* The end of the payload.                                                 *)
LEMMA PayloadTracked ==
    ASSUME InsideInv, Agree(payload, Sent), TrackInv, EndPayload
    PROVE  TrackInv'
<1>1. AtObject /\ objects = 0
  BY DEF TrackInv, EndPayload
<1>2. IsImage(image) /\ Len(payload) \in Nat /\ Len(Sent) \in Nat
  BY PayloadType
<1>3. Size(image) \in Nat /\ Finished = Size(image)
  BY <1>1, <1>2, ImageFacts DEF Finished
<1>4. EndAt(image, Finished) = Len(Sent) /\ UpTo(image, Finished) = image
  BY <1>2, <1>3, PayloadFacts, UpToFacts DEF Sent
<1>5. index = Len(Sent) + 1 /\ map = image /\ Len(payload) <= MaxElements
  BY <1>1, <1>4 DEF AtObject
<1>6. Remaining = Len(payload) - Len(Sent)
  BY <1>2, <1>5 DEF Remaining
<1>7. image' = image /\ payload' = payload /\ map' = map
  BY DEF EndPayload, Reject
<1>8. CASE Remaining = 0
  <2>1. pc' = "decoded" /\ Len(payload) = Len(Sent)
    BY <1>2, <1>6, <1>8 DEF EndPayload
  <2> QED
    BY <1>5, <1>7, <2>1 DEF TrackInv, Sent
<1>9. CASE Remaining # 0
  <2>1. pc' = "rejected" /\ payload # Sent
    BY <1>2, <1>6, <1>9 DEF EndPayload, Reject
  <2> QED
    BY <1>7, <2>1 DEF TrackInv, Sent
<1> QED
  BY <1>8, <1>9

(* The invariant of the decoder.                                           *)
LEMMA InitDecode == DecoderInit => DecodeInv
BY InitInside DEF DecoderInit, DecodeInv, TrackInv

(* Every step of the decoder keeps the invariant: one case per action.     *)
LEMMA NextDecode == DecodeInv /\ [DecoderNext]_decoderVars => DecodeInv'
<1>1. SUFFICES ASSUME DecodeInv, [DecoderNext]_decoderVars PROVE DecodeInv'
  OBVIOUS
<1>2. InsideInv'
  BY <1>1, NextInside DEF DecodeInv
<1>3. image' = image /\ payload' = payload
  BY <1>1 DEF DecoderNext, ReadHeader, ReadHead, ReadField, EndObject, EndPayload, Reject, decoderVars
<1>4. SUFFICES ASSUME Agree(payload, Sent) PROVE TrackInv'
  BY <1>2, <1>3 DEF DecodeInv, Sent
<1>5. InsideInv /\ TrackInv
  BY <1>1, <1>4 DEF DecodeInv
<1>6. CASE UNCHANGED decoderVars
  BY <1>5, <1>6 DEF decoderVars, TrackInv, AtObject, InObject, AtItem, Finished, Sent
<1> QED
  BY <1>1, <1>4, <1>5, <1>6, HeaderTracked, HeadTracked, FieldTracked, EndTracked, PayloadTracked DEF DecoderNext

(* The invariant holds in every state.                                     *)
LEMMA DecodeSafe == DecoderSpec => []DecodeInv
BY InitDecode, NextDecode, PTL DEF DecoderSpec

-----------------------------------------------------------------------------
(* DecodeSnapshotPayload never reads behind the last element, whatever an  *)
(* element was turned into and however many fields an object announces.    *)
THEOREM DecoderStaysInside == DecoderSpec => []ReadsStayInside
<1>1. DecodeInv => ReadsStayInside
  BY DEF DecodeInv, InsideInv, FieldsInv, ReadsStayInside
<1> QED
  BY <1>1, DecodeSafe, PTL

(* An image that was cut, or that has something behind it, is refused as a *)
(* whole: a replica never installs a part of a slot.                       *)
THEOREM PartsAreRejected == DecoderSpec => []PartialRejected
<1>1. DecodeInv => PartialRejected
  BY PayloadType DEF DecodeInv, TrackInv, PartialRejected
<1> QED
  BY <1>1, DecodeSafe, PTL

(* Every image up to the element limit is decoded to the map that          *)
(* EncodeSnapshotPayload was given, and every larger one is refused.       *)
THEOREM SnapshotsSurvive == DecoderSpec => []SnapshotRoundTrip
<1>1. ASSUME DecodeInv PROVE SnapshotRoundTrip
  <2>1. SUFFICES ASSUME payload = Sent, pc \in {"decoded", "rejected"}
                 PROVE  IF Len(Sent) <= MaxElements THEN pc = "decoded" /\ map = image
                                                    ELSE pc = "rejected"
    BY DEF SnapshotRoundTrip
  <2>2. TrackInv
    BY <1>1, <2>1, AgreeSelf DEF DecodeInv
  <2>3. Len(Sent) \in Nat
    BY <1>1, <2>1, PayloadType DEF DecodeInv
  <2> QED
    BY <2>1, <2>2, <2>3, ImageAssumption DEF TrackInv
<1> QED
  BY <1>1, DecodeSafe, PTL

-----------------------------------------------------------------------------
(* Frames, for every set of ids, values, position lists, payloads, records *)
(* and noise.                                                              *)
RecordTexts == UNION {{r[i] : i \in DOMAIN r} : r \in Records}

Arguments ==
    Ids \cup Payloads \cup RecordTexts \cup FrameNoise \cup {Text(n) : n \in Numbers}
      \cup {"CACHE.REPL", "HELLO", "SNAPSHOT", "LOG", "BEGIN", "DONE", "0", "1"}

(* Numbers in frames: what is read is a spelling of what would be written. *)
LEMMA FrameTextFacts ==
    /\ \A n \in Numbers : IsNumber(Text(n)) /\ ValueOf(Text(n)) = n
    /\ \A text : IsNumber(text) =>
         ValueOf(text) \in Numbers /\ Spells(text, Text(ValueOf(text)))
<1>1. \A text : IsNumber(text) <=> IsNumber(text)
  BY DEF IsNumber, Numbers
<1>2. \A text : ValueOf(text) = ValueOf(text)
  BY DEF ValueOf, Numbers
<1> QED
  BY <1>1, <1>2, TextFacts DEF Spells

(* A text spells itself.                                                   *)
LEMMA SpellsSelf ==
    ASSUME NEW text
    PROVE  Spells(text, text)
BY DEF Spells

(* a says what would be written as w, argument by argument.                *)
SpelledAs(a, w) == Len(a) = Len(w) /\ \A i \in 1 .. Len(a) : Spells(a[i], w[i])

-----------------------------------------------------------------------------
(* The pairs of a position list, from a place to the end.                  *)
Lists(a, start, p) ==
    /\ Len(a) = start + 2 * Len(p)
    /\ a[start] = Text(Len(p))
    /\ \A i \in 1 .. Len(p) :
         a[start + 2 * i - 1] = Text(p[i][1]) /\ a[start + 2 * i] = Text(p[i][2])

(* The same, with the numbers in any spelling.                             *)
ListsSpelled(a, start, p) ==
    /\ Len(a) = start + 2 * Len(p)
    /\ Spells(a[start], Text(Len(p)))
    /\ \A i \in 1 .. Len(p) :
         /\ Spells(a[start + 2 * i - 1], Text(p[i][1]))
         /\ Spells(a[start + 2 * i], Text(p[i][2]))

IsPositions(p) == p \in Seq(Numbers \X Numbers) /\ Len(p) \in Numbers

(* What EncodePositions writes.                                            *)
LEMMA EncodePositionsFacts ==
    ASSUME NEW p, IsPositions(p)
    PROVE  EncodePositions(p) \in Seq(Arguments) /\ Lists(EncodePositions(p), 1, p)
<1> DEFINE h == <<Text(Len(p))>>
           t == [i \in 1 .. 2 * Len(p) |->
                   Text(IF i % 2 = 1 THEN p[(i + 1) \div 2][1] ELSE p[i \div 2][2])]
           e == EncodePositions(p)
<1>1. e = h \o t
  BY DEF EncodePositions
<1>2. Len(p) \in Nat /\ 2 * Len(p) \in Nat /\ Len(p) \in Numbers
  BY DEF IsPositions
<1>3. \A i \in 1 .. Len(p) : p[i][1] \in Numbers /\ p[i][2] \in Numbers
  BY DEF IsPositions
<1>4. ASSUME NEW i \in 1 .. 2 * Len(p)
      PROVE  t[i] \in Arguments
  <2>1. CASE i % 2 = 1
    <3>1. (i + 1) \div 2 \in 1 .. Len(p)
      BY <1>2, <2>1
    <3>2. t[i] = Text(p[(i + 1) \div 2][1])
      BY <2>1
    <3> QED
      BY <1>3, <3>1, <3>2 DEF Arguments
  <2>2. CASE i % 2 = 0
    <3>1. i \div 2 \in 1 .. Len(p)
      BY <1>2, <2>2
    <3>2. t[i] = Text(p[i \div 2][2])
      BY <2>2
    <3> QED
      BY <1>3, <3>1, <3>2 DEF Arguments
  <2> QED
    BY <1>2, <2>1, <2>2
<1>5. t \in Seq(Arguments) /\ Len(t) = 2 * Len(p)
  <2>1. t \in [1 .. 2 * Len(p) -> Arguments]
    BY <1>4
  <2> HIDE DEF t
  <2> QED
    BY <1>2, <2>1
<1>6. h \in Seq(Arguments) /\ Len(h) = 1 /\ h[1] = Text(Len(p))
  BY <1>2 DEF Arguments
<1>7. ASSUME NEW i \in 1 .. Len(p)
      PROVE  t[2 * i - 1] = Text(p[i][1]) /\ t[2 * i] = Text(p[i][2])
  <2>1. /\ 2 * i - 1 \in 1 .. 2 * Len(p) /\ (2 * i - 1) % 2 = 1 /\ ((2 * i - 1) + 1) \div 2 = i
        /\ 2 * i \in 1 .. 2 * Len(p) /\ (2 * i) % 2 = 0 /\ (2 * i) \div 2 = i
    BY <1>2
  <2>2. ASSUME NEW k \in 1 .. 2 * Len(p), k % 2 = 1
        PROVE  t[k] = Text(p[(k + 1) \div 2][1])
    BY <2>2
  <2>3. ASSUME NEW k \in 1 .. 2 * Len(p), k % 2 = 0
        PROVE  t[k] = Text(p[k \div 2][2])
    BY <2>3
  <2> HIDE DEF t
  <2> QED
    BY <2>1, <2>2, <2>3
<1> HIDE DEF h, t, e
<1>8. h \o t \in Seq(Arguments)
  BY <1>5, <1>6, ConcatProperties
<1>9. Joins(e, h, t)
  BY <1>1, <1>5, <1>6, <1>8, JoinsFacts
<1>10. Len(e) = 1 + 2 * Len(p) /\ e[1] = Text(Len(p))
  BY <1>2, <1>5, <1>6, <1>9 DEF Joins
<1>11. ASSUME NEW i \in 1 .. Len(p)
       PROVE  e[1 + 2 * i - 1] = Text(p[i][1]) /\ e[1 + 2 * i] = Text(p[i][2])
  <2>1. 2 * i - 1 \in 1 .. Len(t) /\ 2 * i \in 1 .. Len(t) /\ 1 + 2 * i - 1 = 1 + (2 * i - 1)
    BY <1>2, <1>5
  <2>2. e[1 + (2 * i - 1)] = t[2 * i - 1] /\ e[1 + 2 * i] = t[2 * i]
    BY <1>6, <1>9, <2>1 DEF Joins
  <2> QED
    BY <1>7, <2>1, <2>2
<1> QED
  BY <1>1, <1>8, <1>10, <1>11 DEF Lists, e

(* Places behind a head.                                                   *)
LEMMA ListsBehind ==
    ASSUME NEW a \in Seq(Arguments), NEW h \in Seq(Arguments), NEW p, IsPositions(p)
    PROVE  /\ a = h \o EncodePositions(p) =>
                Lists(a, Len(h) + 1, p) /\ \A i \in 1 .. Len(h) : a[i] = h[i]
           /\ Lists(a, Len(h) + 1, p) /\ (\A i \in 1 .. Len(h) : a[i] = h[i]) =>
                a = h \o EncodePositions(p)
<1> DEFINE e == EncodePositions(p)
           n == Len(p)
           k == Len(h)
<1>1. e \in Seq(Arguments) /\ Len(e) = 1 + 2 * n /\ e[1] = Text(n)
      /\ \A i \in 1 .. n : e[1 + 2 * i - 1] = Text(p[i][1]) /\ e[1 + 2 * i] = Text(p[i][2])
  BY EncodePositionsFacts DEF Lists
<1>2. n \in Nat /\ k \in Nat
  BY DEF IsPositions
<1>3. /\ a = h \o e => Joins(a, h, e)
      /\ Joins(a, h, e) => a = h \o e
  BY <1>1, JoinsFacts
<1> HIDE DEF e, n, k
<1>4. Len(e) = 1 + 2 * n /\ \A i \in 1 .. n : 1 + 2 * i - 1 = 2 * i
  BY <1>1, <1>2
<1>5. \A i \in 1 .. n : e[2 * i] = Text(p[i][1]) /\ e[1 + 2 * i] = Text(p[i][2])
  BY <1>1, <1>4
<1>6. ASSUME Joins(a, h, e)
      PROVE  Lists(a, k + 1, p) /\ \A i \in 1 .. k : a[i] = h[i]
  <2>1. Len(a) = k + Len(e) /\ \A j \in 1 .. Len(e) : a[k + j] = e[j]
    BY <1>6 DEF Joins, k
  <2>2. Len(a) = (k + 1) + 2 * n
    BY <1>1, <1>2, <2>1
  <2>3. a[k + 1] = Text(n)
    <3>1. 1 \in 1 .. Len(e)
      BY <1>1, <1>2
    <3> QED
      BY <1>1, <2>1, <3>1
  <2>4. ASSUME NEW i \in 1 .. n
        PROVE  a[k + 1 + 2 * i - 1] = Text(p[i][1]) /\ a[k + 1 + 2 * i] = Text(p[i][2])
    <3>1. /\ 2 * i \in 1 .. Len(e) /\ 1 + 2 * i \in 1 .. Len(e)
          /\ k + 1 + 2 * i - 1 = k + 2 * i /\ k + 1 + 2 * i = k + (1 + 2 * i)
      <4>1. Len(e) = 1 + 2 * n
        BY <1>4
      <4> QED
        BY <1>2, <4>1
    <3>2. a[k + 2 * i] = e[2 * i] /\ a[k + (1 + 2 * i)] = e[1 + 2 * i]
      BY <2>1, <3>1
    <3> QED
      BY <1>5, <3>1, <3>2
  <2>5. \A i \in 1 .. k : a[i] = h[i]
    BY <1>6 DEF Joins, k
  <2> QED
    BY <2>2, <2>3, <2>4, <2>5 DEF Lists, n
<1>7. ASSUME Lists(a, k + 1, p), \A i \in 1 .. k : a[i] = h[i]
      PROVE  Joins(a, h, e)
  <2>1. /\ Len(a) = (k + 1) + 2 * n /\ a[k + 1] = Text(n)
        /\ \A i \in 1 .. n : a[k + 1 + 2 * i - 1] = Text(p[i][1]) /\ a[k + 1 + 2 * i] = Text(p[i][2])
    BY <1>7 DEF Lists, n
  <2>2. Len(a) = k + Len(e)
    BY <1>1, <1>2, <2>1
  <2>3. ASSUME NEW j \in 1 .. Len(e)
        PROVE  a[k + j] = e[j]
    <3>1. CASE j = 1
      BY <1>1, <2>1, <3>1
    <3>2. CASE j # 1 /\ j % 2 = 0
      <4> DEFINE i == j \div 2
      <4>1. i \in 1 .. n /\ j = 2 * i
        BY <1>1, <1>2, <3>2
      <4> HIDE DEF i
      <4>2. k + 1 + 2 * i - 1 = k + j
        BY <1>2, <4>1
      <4>3. a[k + 1 + 2 * i - 1] = Text(p[i][1]) /\ e[2 * i] = Text(p[i][1])
        BY <1>5, <2>1, <4>1
      <4> QED
        BY <4>1, <4>2, <4>3
    <3>3. CASE j # 1 /\ j % 2 = 1
      <4> DEFINE i == (j - 1) \div 2
      <4>1. i \in 1 .. n /\ j = 1 + 2 * i
        <5>1. Len(e) = 1 + 2 * n
          BY <1>4
        <5> QED
          BY <1>2, <3>3, <5>1
      <4> HIDE DEF i
      <4>2. k + 1 + 2 * i = k + j
        BY <1>2, <4>1
      <4>3. a[k + 1 + 2 * i] = Text(p[i][2]) /\ e[1 + 2 * i] = Text(p[i][2])
        BY <1>5, <2>1, <4>1
      <4> QED
        BY <4>1, <4>2, <4>3
    <3> QED
      BY <1>1, <1>2, <3>1, <3>2, <3>3
  <2> QED
    BY <1>7, <2>2, <2>3 DEF Joins, k
<1> QED
  BY <1>3, <1>6, <1>7 DEF e, k

(* Behind its head, a frame's list of positions spells what                *)
(* EncodePositions writes.                                                 *)
LEMMA ListsWritten ==
    ASSUME NEW a \in Seq(Arguments), NEW h \in Seq(Arguments), NEW p, IsPositions(p),
           NEW k, k = Len(h), ListsSpelled(a, k + 1, p), \A i \in 1 .. k : Spells(a[i], h[i]),
           NEW f, f = h \o EncodePositions(p)
    PROVE  SpelledAs(a, f)
<1>1. PICK n \in Nat : n = Len(p)
  BY DEF IsPositions
<1>2. k \in Nat
  OBVIOUS
<1>3. f \in Seq(Arguments)
  BY EncodePositionsFacts, ConcatProperties
<1>4. Lists(f, k + 1, p) /\ \A i \in 1 .. k : f[i] = h[i]
  BY <1>3, ListsBehind
<1>5. /\ Len(f) = (k + 1) + 2 * n /\ f[k + 1] = Text(n)
      /\ \A i \in 1 .. n : f[k + 1 + 2 * i - 1] = Text(p[i][1]) /\ f[k + 1 + 2 * i] = Text(p[i][2])
  BY <1>1, <1>4 DEF Lists
<1>6. /\ Len(a) = (k + 1) + 2 * n /\ Spells(a[k + 1], Text(n))
      /\ \A i \in 1 .. n : /\ Spells(a[k + 1 + 2 * i - 1], Text(p[i][1]))
                          /\ Spells(a[k + 1 + 2 * i], Text(p[i][2]))
  BY <1>1 DEF ListsSpelled
<1>7. ASSUME NEW j \in 1 .. Len(a)
      PROVE  Spells(a[j], f[j])
  <2>1. j \in 1 .. (k + 1) + 2 * n
    BY <1>6
  <2>2. CASE j <= k
    <3>1. j \in 1 .. k
      BY ONLY <1>2, <2>1, <2>2
    <3> QED
      BY <1>4, <3>1
  <2>3. CASE j = k + 1
    BY <1>5, <1>6, <2>3
  <2>4. CASE j > k + 1 /\ (j - (k + 1)) % 2 = 0
    <3>1. PICK i \in 1 .. n : j = k + 1 + 2 * i
      <4>1. (j - (k + 1)) \div 2 \in 1 .. n /\ j = k + 1 + 2 * ((j - (k + 1)) \div 2)
        BY ONLY n \in Nat, <1>2, <2>1, <2>4
      <4> QED
        BY <4>1
    <3> QED
      BY <1>5, <1>6, <3>1
  <2>5. CASE j > k + 1 /\ (j - (k + 1)) % 2 = 1
    <3>1. PICK i \in 1 .. n : j = k + 1 + 2 * i - 1
      <4>1. /\ ((j - (k + 1)) + 1) \div 2 \in 1 .. n
            /\ j = k + 1 + 2 * (((j - (k + 1)) + 1) \div 2) - 1
        BY ONLY n \in Nat, <1>2, <2>1, <2>5
      <4> QED
        BY <4>1
    <3> QED
      BY <1>5, <1>6, <3>1
  <2>6. \/ j <= k \/ j = k + 1
        \/ j > k + 1 /\ ((j - (k + 1)) % 2 = 0 \/ (j - (k + 1)) % 2 = 1)
    BY ONLY <1>2, <2>1
  <2> QED
    BY <2>2, <2>3, <2>4, <2>5, <2>6
<1> QED
  BY <1>5, <1>6, <1>7 DEF SpelledAs

(* The list that is read is the list that is there.                        *)
LEMMA ReadPositions ==
    ASSUME NEW a \in Seq(Arguments), NEW start \in Nat, start >= 1,
           PositionsValid(a, start)
    PROVE  /\ IsPositions(PositionsOf(a, start))
           /\ ListsSpelled(a, start, PositionsOf(a, start))
<1> DEFINE p == PositionsOf(a, start)
           n == (Len(a) - start) \div 2
<1>1. /\ start <= Len(a) /\ IsNumber(a[start])
      /\ (Len(a) - start) % 2 = 0 /\ ValueOf(a[start]) = n
      /\ \A i \in (start + 1) .. Len(a) : IsNumber(a[i])
  BY DEF PositionsValid
<1>2. Len(a) \in Nat
  OBVIOUS
<1>3. n \in Nat /\ Len(a) = start + 2 * n
  BY <1>1, <1>2
<1>4. n \in Numbers /\ Spells(a[start], Text(n))
  BY <1>1, FrameTextFacts
<1>5. p = [i \in 1 .. n |-> <<ValueOf(a[start + 2 * i - 1]), ValueOf(a[start + 2 * i])>>]
  BY DEF PositionsOf
<1> HIDE DEF p, n
<1>6. ASSUME NEW i \in 1 .. n
      PROVE  /\ p[i] \in Numbers \X Numbers
             /\ Spells(a[start + 2 * i - 1], Text(p[i][1]))
             /\ Spells(a[start + 2 * i], Text(p[i][2]))
  <2> DEFINE x == a[start + 2 * i - 1]
             y == a[start + 2 * i]
  <2>1. start + 2 * i - 1 \in (start + 1) .. Len(a) /\ start + 2 * i \in (start + 1) .. Len(a)
    BY <1>2, <1>3
  <2>2. IsNumber(x) /\ IsNumber(y)
    BY <1>1, <2>1
  <2>3. p[i] = <<ValueOf(x), ValueOf(y)>>
    BY <1>5
  <2> HIDE DEF x, y
  <2>4. /\ ValueOf(x) \in Numbers /\ Spells(x, Text(ValueOf(x)))
        /\ ValueOf(y) \in Numbers /\ Spells(y, Text(ValueOf(y)))
    BY <2>2, FrameTextFacts
  <2>5. p[i] \in Numbers \X Numbers /\ Spells(x, Text(p[i][1])) /\ Spells(y, Text(p[i][2]))
    BY <2>3, <2>4
  <2> QED
    BY <2>5 DEF x, y
<1>7. p \in Seq(Numbers \X Numbers) /\ Len(p) = n
  <2>1. p \in [1 .. n -> Numbers \X Numbers]
    BY <1>5, <1>6
  <2> QED
    BY <1>3, <2>1
<1> QED
  BY <1>3, <1>4, <1>6, <1>7 DEF ListsSpelled, IsPositions, p

(* A list that is there is valid and is read.                              *)
LEMMA PositionsRead ==
    ASSUME NEW a \in Seq(Arguments), NEW start \in Nat, start >= 1,
           NEW p, IsPositions(p), Lists(a, start, p)
    PROVE  PositionsValid(a, start) /\ PositionsOf(a, start) = p
<1> DEFINE n == Len(p)
<1>1. n \in Nat /\ n \in Numbers /\ p \in [1 .. n -> Numbers \X Numbers]
  BY DEF IsPositions
<1>2. /\ Len(a) = start + 2 * n /\ a[start] = Text(n)
      /\ \A i \in 1 .. n : a[start + 2 * i - 1] = Text(p[i][1]) /\ a[start + 2 * i] = Text(p[i][2])
  BY DEF Lists
<1> HIDE DEF n
<1>3. (Len(a) - start) % 2 = 0 /\ (Len(a) - start) \div 2 = n /\ start <= Len(a)
  BY <1>1, <1>2
<1>4. IsNumber(a[start]) /\ ValueOf(a[start]) = n
  BY <1>1, <1>2, FrameTextFacts
<1>5. ASSUME NEW i \in 1 .. n
      PROVE  /\ IsNumber(a[start + 2 * i - 1]) /\ IsNumber(a[start + 2 * i])
             /\ <<ValueOf(a[start + 2 * i - 1]), ValueOf(a[start + 2 * i])>> = p[i]
  <2>1. p[i] \in Numbers \X Numbers
    BY <1>1
  <2>2. p[i] = <<p[i][1], p[i][2]>> /\ p[i][1] \in Numbers /\ p[i][2] \in Numbers
    BY <2>1
  <2> QED
    BY <1>2, <2>2, FrameTextFacts
<1>6. ASSUME NEW j \in (start + 1) .. Len(a)
      PROVE  IsNumber(a[j])
  <2>1. CASE (j - start) % 2 = 0
    <3> DEFINE i == (j - start) \div 2
    <3>1. i \in 1 .. n /\ j = start + 2 * i
      <4>1. Len(a) = start + 2 * n /\ n \in Nat
        BY <1>1, <1>2
      <4> QED
        BY <2>1, <4>1
    <3> QED
      BY <1>5, <3>1
  <2>2. CASE (j - start) % 2 = 1
    <3> DEFINE i == ((j - start) + 1) \div 2
    <3>1. i \in 1 .. n /\ j = start + 2 * i - 1
      <4>1. Len(a) = start + 2 * n /\ n \in Nat
        BY <1>1, <1>2
      <4> QED
        BY <2>2, <4>1
    <3> QED
      BY <1>5, <3>1
  <2> QED
    BY <2>1, <2>2
<1>7. PositionsValid(a, start)
  BY <1>3, <1>4, <1>6 DEF PositionsValid
<1>8. PositionsOf(a, start) = p
  <2>1. PositionsOf(a, start) =
          [i \in 1 .. n |-> <<ValueOf(a[start + 2 * i - 1]), ValueOf(a[start + 2 * i])>>]
    BY <1>3 DEF PositionsOf
  <2>2. p = [i \in 1 .. n |-> p[i]]
    BY <1>1
  <2>3. \A i \in 1 .. n :
          <<ValueOf(a[start + 2 * i - 1]), ValueOf(a[start + 2 * i])>> = p[i]
    BY <1>5
  <2> QED
    BY <2>1, <2>2, <2>3
<1> QED
  BY <1>7, <1>8

-----------------------------------------------------------------------------
(* How each kind of frame is written: a head of fixed length and a tail.   *)
HelloHead(r, s) == <<"CACHE.REPL", "HELLO", r, Text(ProtocolVersion), s>>
DoneHead(s) == <<"CACHE.REPL", "DONE", s>>
LogHead(s, n, m, w, d, k) ==
    <<"CACHE.REPL", "LOG", s, Text(n), Text(m), Text(w), Text(d), Text(k)>>

(* EncodeFrame of HELLO: five fields and the positions.                    *)
LEMMA WrittenHello ==
    ASSUME NEW r \in Arguments, NEW s \in Arguments, NEW p, IsPositions(p)
    PROVE  /\ HelloHead(r, s) \in Seq(Arguments) /\ Len(HelloHead(r, s)) = 5
           /\ EncodeFrame(Hello(r, s, p)) = HelloHead(r, s) \o EncodePositions(p)
<1> DEFINE g == <<"CACHE.REPL", "HELLO">>
           h == <<r, Text(ProtocolVersion), s>>
           e == EncodePositions(p)
<1>1. g \in Seq(Arguments) /\ h \in Seq(Arguments) /\ e \in Seq(Arguments)
  <2>1. g \in Seq(Arguments)
    BY DEF Arguments
  <2>2. h \in Seq(Arguments)
    BY FrameAssumption DEF Arguments
  <2>3. e \in Seq(Arguments)
    BY EncodePositionsFacts
  <2> QED
    BY <2>1, <2>2, <2>3
<1>2. HelloHead(r, s) = g \o h /\ HelloHead(r, s) \in Seq(Arguments) /\ Len(HelloHead(r, s)) = 5
  BY <1>1 DEF HelloHead
<1>3. EncodeFrame(Hello(r, s, p)) = g \o (h \o e)
  BY DEF EncodeFrame, Hello
<1> HIDE DEF g, h, e
<1>4. (g \o h) \o e = g \o (h \o e)
  BY <1>1, ConcatAssociative, SMTT(30)
<1> QED
  BY <1>2, <1>3, <1>4 DEF e

(* EncodeFrame of DONE: three fields and the positions.                    *)
LEMMA WrittenDone ==
    ASSUME NEW s \in Arguments, NEW p, IsPositions(p)
    PROVE  /\ DoneHead(s) \in Seq(Arguments) /\ Len(DoneHead(s)) = 3
           /\ EncodeFrame(Done(s, p)) = DoneHead(s) \o EncodePositions(p)
<1> DEFINE g == <<"CACHE.REPL", "DONE">>
           h == <<s>>
           e == EncodePositions(p)
<1>1. g \in Seq(Arguments) /\ h \in Seq(Arguments) /\ e \in Seq(Arguments)
  <2>1. g \in Seq(Arguments)
    BY DEF Arguments
  <2>2. h \in Seq(Arguments)
    BY DEF Arguments
  <2>3. e \in Seq(Arguments)
    BY EncodePositionsFacts
  <2> QED
    BY <2>1, <2>2, <2>3
<1>2. DoneHead(s) = g \o h /\ DoneHead(s) \in Seq(Arguments) /\ Len(DoneHead(s)) = 3
  BY <1>1 DEF DoneHead
<1>3. EncodeFrame(Done(s, p)) = g \o (h \o e)
  BY DEF EncodeFrame, Done
<1> HIDE DEF g, h, e
<1>4. (g \o h) \o e = g \o (h \o e)
  BY <1>1, ConcatAssociative, SMTT(30)
<1> QED
  BY <1>2, <1>3, <1>4 DEF e

LogWritten(s, n, m, w, d, r) ==
    /\ LogHead(s, n, m, w, d, Len(r)) \in Seq(Arguments)
    /\ Len(LogHead(s, n, m, w, d, Len(r))) = 8
    /\ EncodeFrame(Log(s, n, m, w, d, r)) = LogHead(s, n, m, w, d, Len(r)) \o r

(* EncodeFrame of LOG: eight fields, the number of arguments last, and the *)
(* record.                                                                 *)
LEMMA WrittenLog ==
    ASSUME NEW s \in Arguments, NEW n \in Numbers, NEW m \in Numbers, NEW w \in Numbers,
           NEW d \in Numbers, NEW r \in Seq(Arguments), Len(r) \in Numbers
    PROVE  LogWritten(s, n, m, w, d, r)
<1> DEFINE g == <<"CACHE.REPL", "LOG">>
           h == <<s, Text(n), Text(m), Text(w), Text(d), Text(Len(r))>>
           l == LogHead(s, n, m, w, d, Len(r))
<1>1. g \in Seq(Arguments) /\ h \in Seq(Arguments)
  BY DEF Arguments
<1>2. l = g \o h /\ l \in Seq(Arguments) /\ Len(l) = 8
  BY <1>1 DEF LogHead
<1>3. EncodeFrame(Log(s, n, m, w, d, r)) = g \o (h \o r)
  BY DEF EncodeFrame, Log
<1> HIDE DEF g, h, l
<1>4. (g \o h) \o r = g \o (h \o r)
  BY <1>1, ConcatAssociative, SMTT(30)
<1> QED
  BY <1>2, <1>3, <1>4 DEF l, LogWritten

(* EncodeFrame of SNAPSHOT: six fields.                                    *)
LEMMA WrittenSnapshot ==
    ASSUME NEW s \in Arguments, NEW n \in Numbers, NEW m \in Numbers, NEW p \in Arguments
    PROVE  /\ EncodeFrame(Snapshot(s, n, m, p))
                = <<"CACHE.REPL", "SNAPSHOT", s, Text(n), Text(m), p>>
           /\ <<"CACHE.REPL", "SNAPSHOT", s, Text(n), Text(m), p>> \in Seq(Arguments)
<1>1. EncodeFrame(Snapshot(s, n, m, p))
        = <<"CACHE.REPL", "SNAPSHOT">> \o <<s, Text(n), Text(m), p>>
  BY DEF EncodeFrame, Snapshot
<1>2. Text(n) \in Arguments /\ Text(m) \in Arguments /\ "CACHE.REPL" \in Arguments
      /\ "SNAPSHOT" \in Arguments
  BY DEF Arguments
<1>3. <<"CACHE.REPL", "SNAPSHOT", s, Text(n), Text(m), p>> \in Seq(Arguments)
  BY <1>2
<1>4. <<"CACHE.REPL", "SNAPSHOT">> \o <<s, Text(n), Text(m), p>>
        = <<"CACHE.REPL", "SNAPSHOT", s, Text(n), Text(m), p>>
  <2> DEFINE g == <<"CACHE.REPL", "SNAPSHOT">>
             h == <<s, Text(n), Text(m), p>>
  <2>1. g \in Seq(Arguments) /\ h \in Seq(Arguments)
    BY <1>2
  <2>2. <<"CACHE.REPL", "SNAPSHOT", s, Text(n), Text(m), p>> = g \o h
    BY <1>3, <2>1
  <2> QED
    BY <2>2
<1> QED
  BY <1>1, <1>3, <1>4

(* EncodeFrame of BEGIN: four fields, the flag as a digit.                 *)
LEMMA WrittenBegin ==
    ASSUME NEW s \in Arguments, NEW b \in BOOLEAN
    PROVE  /\ EncodeFrame(Begin(s, b))
                = <<"CACHE.REPL", "BEGIN", s, IF b THEN "1" ELSE "0">>
           /\ <<"CACHE.REPL", "BEGIN", s, IF b THEN "1" ELSE "0">> \in Seq(Arguments)
<1>1. EncodeFrame(Begin(s, b))
        = <<"CACHE.REPL", "BEGIN">> \o <<s, IF b THEN "1" ELSE "0">>
  BY DEF EncodeFrame, Begin
<1> DEFINE flag == IF b THEN "1" ELSE "0"
<1>2. flag \in Arguments /\ "CACHE.REPL" \in Arguments /\ "BEGIN" \in Arguments
  BY DEF Arguments
<1> HIDE DEF flag
<1>3. <<"CACHE.REPL", "BEGIN", s, flag>> \in Seq(Arguments)
  BY <1>2
<1>4. <<"CACHE.REPL", "BEGIN">> \o <<s, flag>> = <<"CACHE.REPL", "BEGIN", s, flag>>
  <2> DEFINE g == <<"CACHE.REPL", "BEGIN">>
             h == <<s, flag>>
  <2>1. g \in Seq(Arguments) /\ h \in Seq(Arguments)
    BY <1>2
  <2>2. <<"CACHE.REPL", "BEGIN", s, flag>> = g \o h
    BY <1>3, <2>1
  <2> QED
    BY <2>2
<1> QED
  BY <1>1, <1>3, <1>4 DEF flag

-----------------------------------------------------------------------------
(* DecodeFrame, kind by kind.                                              *)
IsRepl(a) == Len(a) >= 3 /\ a[1] = "CACHE.REPL"

(* DecodeFrame has one result for every kind of frame.                     *)
LEMMA Decodings ==
    ASSUME NEW a \in Seq(Arguments)
    PROVE  LET f == DecodeFrame(a)
           IN  /\ ~IsRepl(a) => f = NoFrame
               /\ IsRepl(a) =>
                    /\ a[2] = "HELLO" =>
                         f = IF HelloValid(a)
                             THEN Hello(a[3], a[5], PositionsOf(a, 6)) ELSE NoFrame
                    /\ a[2] = "SNAPSHOT" =>
                         f = IF SnapshotValid(a)
                             THEN Snapshot(a[3], ValueOf(a[4]), ValueOf(a[5]), a[6])
                             ELSE NoFrame
                    /\ a[2] = "LOG" =>
                         f = IF LogValid(a)
                             THEN Log(a[3], ValueOf(a[4]), ValueOf(a[5]),
                                             ValueOf(a[6]), ValueOf(a[7]), SubSeq(a, 9, Len(a)))
                             ELSE NoFrame
                    /\ a[2] = "BEGIN" =>
                         f = IF BeginValid(a) THEN Begin(a[3], a[4] = "1") ELSE NoFrame
                    /\ a[2] = "DONE" =>
                         f = IF PositionsValid(a, 4)
                             THEN Done(a[3], PositionsOf(a, 4)) ELSE NoFrame
                    /\ a[2] \notin {"HELLO", "SNAPSHOT", "LOG", "BEGIN", "DONE"} => f = NoFrame
<1>1. Len(a) \in Nat
  OBVIOUS
<1>2. IsRepl(a) <=> ~(Len(a) < 3 \/ a[1] # "CACHE.REPL")
  BY <1>1 DEF IsRepl
<1> QED
  BY <1>2 DEF DecodeFrame

-----------------------------------------------------------------------------
(* What is taken for a frame spells the encoding of that frame.            *)
LEMMA Canonical ==
    ASSUME NEW a \in Seq(Arguments), DecodeFrame(a) # NoFrame
    PROVE  SpelledAs(a, EncodeFrame(DecodeFrame(a)))
<1> DEFINE f == DecodeFrame(a)
<1>1. IsRepl(a) /\ a[2] \in {"HELLO", "SNAPSHOT", "LOG", "BEGIN", "DONE"}
  BY Decodings
<1>2. /\ Len(a) \in Nat /\ Len(a) >= 3 /\ a[1] = "CACHE.REPL"
      /\ \A i \in 1 .. Len(a) : a[i] \in Arguments
  BY <1>1 DEF IsRepl
<1>3. a[3] \in Arguments
  BY <1>2
<1>4. CASE a[2] = "HELLO"
  <2> DEFINE p == PositionsOf(a, 6)
  <2>1. HelloValid(a) /\ f = Hello(a[3], a[5], p)
    BY <1>1, <1>4, Decodings
  <2>2. /\ Len(a) >= 6 /\ IsNumber(a[4]) /\ ValueOf(a[4]) = ProtocolVersion
        /\ PositionsValid(a, 6)
    BY <2>1 DEF HelloValid
  <2>3. IsPositions(p) /\ ListsSpelled(a, 6, p)
    BY <2>2, ReadPositions
  <2>4. a[5] \in Arguments /\ Spells(a[4], Text(ProtocolVersion))
    BY <1>2, <2>2, FrameTextFacts
  <2> DEFINE h == HelloHead(a[3], a[5])
  <2> HIDE DEF p, f
  <2>5. /\ h \in Seq(Arguments) /\ Len(h) = 5
        /\ EncodeFrame(f) = h \o EncodePositions(p)
    BY <1>3, <2>1, <2>3, <2>4, WrittenHello
  <2>6. \A i \in 1 .. 5 : Spells(a[i], h[i])
    BY <1>2, <1>4, <2>4, SpellsSelf DEF HelloHead
  <2>7. ListsSpelled(a, 5 + 1, p)
    BY <2>3
  <2> HIDE DEF h
  <2>8. SpelledAs(a, EncodeFrame(f))
    BY <2>3, <2>5, <2>6, <2>7, ListsWritten
  <2> QED
    BY <2>8 DEF f
<1>5. CASE a[2] = "DONE"
  <2> DEFINE p == PositionsOf(a, 4)
  <2>1. PositionsValid(a, 4) /\ f = Done(a[3], p)
    BY <1>1, <1>5, Decodings
  <2>2. IsPositions(p) /\ ListsSpelled(a, 4, p)
    BY <2>1, ReadPositions
  <2> DEFINE h == DoneHead(a[3])
  <2> HIDE DEF p, f
  <2>3. /\ h \in Seq(Arguments) /\ Len(h) = 3
        /\ EncodeFrame(f) = h \o EncodePositions(p)
    BY <1>3, <2>1, <2>2, WrittenDone
  <2>4. \A i \in 1 .. 3 : Spells(a[i], h[i])
    BY <1>2, <1>5, SpellsSelf DEF DoneHead
  <2>5. ListsSpelled(a, 3 + 1, p)
    BY <2>2
  <2> HIDE DEF h
  <2>6. SpelledAs(a, EncodeFrame(f))
    BY <2>2, <2>3, <2>4, <2>5, ListsWritten
  <2> QED
    BY <2>6 DEF f
<1>6. CASE a[2] = "SNAPSHOT"
  <2> DEFINE n == ValueOf(a[4])
             m == ValueOf(a[5])
             s == <<"CACHE.REPL", "SNAPSHOT", a[3], Text(n), Text(m), a[6]>>
  <2>1. SnapshotValid(a) /\ f = Snapshot(a[3], n, m, a[6])
    BY <1>1, <1>6, Decodings
  <2>2. Len(a) = 6 /\ IsNumber(a[4]) /\ IsNumber(a[5])
    BY <2>1 DEF SnapshotValid
  <2>3. /\ n \in Numbers /\ m \in Numbers /\ a[6] \in Arguments
        /\ Spells(a[4], Text(n)) /\ Spells(a[5], Text(m))
    BY <1>2, <2>2, FrameTextFacts
  <2> HIDE DEF n, m, f
  <2>4. EncodeFrame(f) = s /\ s \in Seq(Arguments)
    BY <1>3, <2>1, <2>3, WrittenSnapshot
  <2>5. Len(s) = 6 /\ \A i \in 1 .. 6 : Spells(a[i], s[i])
    BY <1>2, <1>6, <2>3, SpellsSelf
  <2> HIDE DEF s
  <2>6. SpelledAs(a, s)
    BY <2>2, <2>5 DEF SpelledAs
  <2> QED
    BY <2>4, <2>6 DEF f
<1>7. CASE a[2] = "BEGIN"
  <2> DEFINE b == a[4] = "1"
             s == <<"CACHE.REPL", "BEGIN", a[3], IF b THEN "1" ELSE "0">>
  <2>1. BeginValid(a) /\ f = Begin(a[3], b)
    BY <1>1, <1>7, Decodings
  <2>2. Len(a) = 4 /\ a[4] \in {"0", "1"}
    BY <2>1 DEF BeginValid
  <2>3. b \in BOOLEAN
    OBVIOUS
  <2>4. (IF b THEN "1" ELSE "0") = a[4]
    BY <2>2
  <2> HIDE DEF b, f
  <2>5. EncodeFrame(f) = s /\ s \in Seq(Arguments)
    BY <1>3, <2>1, <2>3, WrittenBegin
  <2>6. Len(s) = 4 /\ \A i \in 1 .. 4 : s[i] = a[i]
    BY <1>2, <1>7, <2>4
  <2> HIDE DEF s
  <2>7. SpelledAs(a, s)
    BY <2>2, <2>6, SpellsSelf DEF SpelledAs
  <2> QED
    BY <2>5, <2>7 DEF f
<1>8. CASE a[2] = "LOG"
  <2> DEFINE V(i) == ValueOf(a[i])
             r == SubSeq(a, 9, Len(a))
             h == LogHead(a[3], V(4), V(5), V(6), V(7), Len(r))
  <2>1. LogValid(a) /\ f = Log(a[3], V(4), V(5), V(6), V(7), r)
    BY <1>1, <1>8, Decodings
  <2>2. Len(a) >= 8 /\ (\A i \in 4 .. 8 : IsNumber(a[i])) /\ V(8) = Len(a) - 8
    BY <2>1 DEF LogValid
  <2>3. \A i \in 4 .. 8 : V(i) \in Numbers /\ Spells(a[i], Text(V(i)))
    BY <2>2, FrameTextFacts
  <2>4. /\ r \in Seq(Arguments) /\ Len(r) = Len(a) - 8
        /\ \A j \in 1 .. Len(a) - 8 : r[j] = a[8 + j]
    <3>1. \A i \in 9 .. Len(a) : a[i] \in Arguments
      BY <1>2
    <3>2. /\ r \in Seq(Arguments)
          /\ Len(r) = IF 9 <= Len(a) THEN Len(a) - 9 + 1 ELSE 0
          /\ \A j \in 1 .. Len(a) - 9 + 1 : r[j] = a[9 + j - 1]
      BY <1>2, <3>1, SubSeqProperties
    <3>3. Len(a) - 9 + 1 = Len(a) - 8 /\ (~(9 <= Len(a)) => Len(a) - 8 = 0)
      <4> DEFINE L == Len(a)
      <4>1. L \in Nat /\ L >= 8
        BY <1>2, <2>2
      <4> HIDE DEF L
      <4>2. L - 9 + 1 = L - 8 /\ (~(9 <= L) => L - 8 = 0)
        BY <4>1
      <4> QED
        BY <4>2 DEF L
    <3>4. \A j \in 1 .. Len(a) - 8 : 9 + j - 1 = 8 + j
      BY <1>2
    <3> HIDE DEF r
    <3> QED
      BY <3>2, <3>3, <3>4
  <2>5. Len(r) = V(8) /\ Len(r) \in Numbers
    BY <2>2, <2>3, <2>4
  <2>6. V(4) \in Numbers /\ V(5) \in Numbers /\ V(6) \in Numbers /\ V(7) \in Numbers
    BY <2>3
  <2>7. /\ Spells(a[4], Text(V(4))) /\ Spells(a[5], Text(V(5)))
        /\ Spells(a[6], Text(V(6))) /\ Spells(a[7], Text(V(7)))
        /\ Spells(a[8], Text(Len(r)))
    BY <2>3, <2>5
  <2> HIDE DEF V, r, f
  <2>8. h \in Seq(Arguments) /\ Len(h) = 8 /\ EncodeFrame(f) = h \o r
    <3>1. LogWritten(a[3], V(4), V(5), V(6), V(7), r)
      BY <1>3, <2>4, <2>5, <2>6, WrittenLog
    <3> QED
      BY <2>1, <3>1 DEF LogWritten
  <2>9. \A i \in 1 .. 8 : Spells(a[i], h[i])
    BY <1>2, <1>8, <2>7, SpellsSelf DEF LogHead
  <2> HIDE DEF h
  <2> DEFINE w == h \o r
  <2>10. w \in Seq(Arguments) /\ Joins(w, h, r)
    BY <2>4, <2>8, ConcatProperties, JoinsFacts
  <2>11. Len(r) \in Nat /\ Len(a) = 8 + Len(r) /\ Len(w) = 8 + Len(r)
    BY <1>2, <2>2, <2>4, <2>8, <2>10 DEF Joins
  <2> HIDE DEF w
  <2>12. ASSUME NEW i \in 1 .. Len(a)
         PROVE  Spells(a[i], w[i])
    <3>1. CASE i <= 8
      <4>1. i \in 1 .. 8
        BY <3>1
      <4>2. w[i] = h[i]
        BY <2>8, <2>10, <4>1 DEF Joins
      <4> QED
        BY <2>9, <4>1, <4>2
    <3>2. CASE i > 8
      <4>1. i - 8 \in 1 .. Len(r) /\ 8 + (i - 8) = i
        <5>1. i \in 1 .. 8 + Len(r)
          BY <2>11
        <5> QED
          BY ONLY <2>11, <3>2, <5>1
      <4>2. w[8 + (i - 8)] = r[i - 8]
        BY <2>8, <2>10, <4>1 DEF Joins
      <4>3. r[i - 8] = a[8 + (i - 8)]
        BY <2>4, <4>1
      <4> QED
        BY <4>1, <4>2, <4>3, SpellsSelf
    <3> QED
      BY <2>11, <3>1, <3>2
  <2>13. SpelledAs(a, w)
    BY <2>11, <2>12 DEF SpelledAs
  <2> QED
    BY <2>8, <2>13 DEF f, w
<1> QED
  BY <1>1, <1>4, <1>5, <1>6, <1>7, <1>8

(* A frame that arrives as it was sent is the frame that was sent.         *)
ReadAs(f) == IF f.subcmd = "BEGIN" /\ f.session = "" THEN NoFrame ELSE f

Survives(f) ==
    /\ EncodeFrame(f) \in Seq(Arguments)
    /\ DecodeFrame(EncodeFrame(f)) = ReadAs(f)

(* DecodeFrame gets back the HELLO that was written.                       *)
LEMMA HelloSurvives ==
    ASSUME NEW r \in Arguments, NEW s \in Arguments, NEW p, IsPositions(p)
    PROVE  Survives(Hello(r, s, p))
<1> DEFINE f == Hello(r, s, p)
           h == HelloHead(r, s)
           e == EncodePositions(p)
           a == EncodeFrame(f)
<1>1. h \in Seq(Arguments) /\ Len(h) = 5 /\ a = h \o e
  BY WrittenHello
<1>2. e \in Seq(Arguments)
  BY EncodePositionsFacts
<1>3. a \in Seq(Arguments)
  BY <1>1, <1>2, ConcatProperties
<1>4. h[1] = "CACHE.REPL" /\ h[2] = "HELLO" /\ h[3] = r /\ h[4] = Text(ProtocolVersion) /\ h[5] = s
  BY DEF HelloHead
<1> HIDE DEF h, e, a
<1>5. Lists(a, Len(h) + 1, p) /\ \A i \in 1 .. Len(h) : a[i] = h[i]
  BY <1>1, <1>3, ListsBehind DEF e
<1>6. Lists(a, 6, p) /\ \A i \in 1 .. 5 : a[i] = h[i]
  <2>1. Len(h) + 1 = 6 /\ Len(h) = 5
    BY <1>1
  <2> QED
    BY <1>5, <2>1, Zenon
<1>7. a[1] = "CACHE.REPL" /\ a[2] = "HELLO" /\ a[3] = r /\ a[4] = Text(ProtocolVersion) /\ a[5] = s
  BY <1>4, <1>6
<1>8. PositionsValid(a, 6) /\ PositionsOf(a, 6) = p
  BY <1>3, <1>6, PositionsRead
<1>9. Len(a) >= 6
  <2>1. Len(a) = 6 + 2 * Len(p) /\ Len(p) \in Nat
    BY <1>6 DEF Lists, IsPositions
  <2> QED
    BY <2>1
<1>10. HelloValid(a)
  BY <1>7, <1>8, <1>9, FrameTextFacts, FrameAssumption DEF HelloValid
<1>11. IsRepl(a)
  BY <1>3, <1>7, <1>9 DEF IsRepl
<1>12. DecodeFrame(a) = f
  BY <1>3, <1>7, <1>8, <1>10, <1>11, Decodings
<1>13. ReadAs(f) = f
  BY DEF ReadAs, Hello
<1> QED
  BY <1>3, <1>12, <1>13 DEF Survives, a

(* DecodeFrame gets back the DONE that was written.                        *)
LEMMA DoneSurvives ==
    ASSUME NEW s \in Arguments, NEW p, IsPositions(p)
    PROVE  Survives(Done(s, p))
<1> DEFINE f == Done(s, p)
           h == DoneHead(s)
           e == EncodePositions(p)
           a == EncodeFrame(f)
<1>1. h \in Seq(Arguments) /\ Len(h) = 3 /\ a = h \o e
  BY WrittenDone
<1>2. e \in Seq(Arguments)
  BY EncodePositionsFacts
<1>3. a \in Seq(Arguments)
  BY <1>1, <1>2, ConcatProperties
<1>4. h[1] = "CACHE.REPL" /\ h[2] = "DONE" /\ h[3] = s
  BY DEF DoneHead
<1> HIDE DEF h, e, a
<1>5. Lists(a, Len(h) + 1, p) /\ \A i \in 1 .. Len(h) : a[i] = h[i]
  BY <1>1, <1>3, ListsBehind DEF e
<1>6. Lists(a, 4, p) /\ \A i \in 1 .. 3 : a[i] = h[i]
  <2>1. Len(h) + 1 = 4 /\ Len(h) = 3
    BY <1>1
  <2> QED
    BY <1>5, <2>1, Zenon
<1>7. a[1] = "CACHE.REPL" /\ a[2] = "DONE" /\ a[3] = s
  BY <1>4, <1>6
<1>8. PositionsValid(a, 4) /\ PositionsOf(a, 4) = p
  BY <1>3, <1>6, PositionsRead
<1>9. Len(a) >= 3
  <2>1. Len(a) = 4 + 2 * Len(p) /\ Len(p) \in Nat
    BY <1>6 DEF Lists, IsPositions
  <2> QED
    BY <2>1
<1>10. IsRepl(a)
  BY <1>7, <1>9 DEF IsRepl
<1>11. DecodeFrame(a) = f
  BY <1>3, <1>7, <1>8, <1>10, Decodings
<1>12. ReadAs(f) = f
  BY DEF ReadAs, Done
<1> QED
  BY <1>3, <1>11, <1>12 DEF Survives, a

(* DecodeFrame gets back the SNAPSHOT that was written.                    *)
LEMMA SnapshotSurvives ==
    ASSUME NEW s \in Arguments, NEW n \in Numbers, NEW m \in Numbers, NEW p \in Arguments
    PROVE  Survives(Snapshot(s, n, m, p))
<1> DEFINE f == Snapshot(s, n, m, p)
           a == EncodeFrame(f)
<1>1. a = <<"CACHE.REPL", "SNAPSHOT", s, Text(n), Text(m), p>> /\ a \in Seq(Arguments)
  BY WrittenSnapshot
<1>2. /\ Len(a) = 6 /\ a[1] = "CACHE.REPL" /\ a[2] = "SNAPSHOT" /\ a[3] = s
      /\ a[4] = Text(n) /\ a[5] = Text(m) /\ a[6] = p
  BY <1>1
<1> HIDE DEF a
<1>3. SnapshotValid(a) /\ IsRepl(a)
  BY <1>2, FrameTextFacts DEF SnapshotValid, IsRepl
<1>4. ValueOf(a[4]) = n /\ ValueOf(a[5]) = m
  BY <1>2, FrameTextFacts
<1>5. DecodeFrame(a) = f
  BY <1>1, <1>2, <1>3, <1>4, Decodings
<1>6. ReadAs(f) = f
  BY DEF ReadAs, Snapshot
<1> QED
  BY <1>1, <1>5, <1>6 DEF Survives, a

(* DecodeFrame gets back the BEGIN that was written, unless it names no    *)
(* session.                                                                *)
LEMMA BeginSurvives ==
    ASSUME NEW s \in Arguments, NEW b \in BOOLEAN
    PROVE  Survives(Begin(s, b))
<1> DEFINE f == Begin(s, b)
           a == EncodeFrame(f)
           flag == IF b THEN "1" ELSE "0"
<1>1. a = <<"CACHE.REPL", "BEGIN", s, flag>> /\ a \in Seq(Arguments)
  BY WrittenBegin
<1>2. flag \in {"0", "1"} /\ (flag = "1") = b
  OBVIOUS
<1> HIDE DEF flag
<1>3. Len(a) = 4 /\ a[1] = "CACHE.REPL" /\ a[2] = "BEGIN" /\ a[3] = s /\ a[4] = flag
  BY <1>1
<1> HIDE DEF a
<1>4. IsRepl(a) /\ (BeginValid(a) <=> s # "")
  <2>1. flag \in {"0", "1"}
    BY <1>2
  <2>2. IsRepl(a)
    BY <1>3 DEF IsRepl
  <2>3. BeginValid(a) => s # ""
    BY <1>3 DEF BeginValid
  <2>4. s # "" => BeginValid(a)
    BY <1>3, <2>1 DEF BeginValid
  <2> QED
    BY <2>2, <2>3, <2>4
<1>5. f.subcmd = "BEGIN" /\ f.session = s
  BY DEF Begin
<1>6. Begin(a[3], a[4] = "1") = f
  BY <1>2, <1>3
<1>7. CASE s = ""
  <2>1. DecodeFrame(a) = NoFrame
    BY <1>1, <1>3, <1>4, <1>7, Decodings
  <2>2. ReadAs(f) = NoFrame
    BY <1>5, <1>7 DEF ReadAs
  <2> QED
    BY <1>1, <2>1, <2>2 DEF Survives, a
<1>8. CASE s # ""
  <2>1. DecodeFrame(a) = f
    BY <1>1, <1>3, <1>4, <1>6, <1>8, Decodings
  <2>2. ReadAs(f) = f
    BY <1>5, <1>8 DEF ReadAs
  <2> QED
    BY <1>1, <2>1, <2>2 DEF Survives, a
<1> QED
  BY <1>7, <1>8

(* DecodeFrame gets back the LOG that was written.                         *)
LEMMA LogSurvives ==
    ASSUME NEW s \in Arguments, NEW n \in Numbers, NEW m \in Numbers, NEW w \in Numbers,
           NEW d \in Numbers, NEW r \in Seq(Arguments), Len(r) \in Numbers
    PROVE  Survives(Log(s, n, m, w, d, r))
<1> DEFINE f == Log(s, n, m, w, d, r)
           h == LogHead(s, n, m, w, d, Len(r))
           a == EncodeFrame(f)
           k == Len(r)
<1>1. h \in Seq(Arguments) /\ Len(h) = 8 /\ a = h \o r
  <2>1. LogWritten(s, n, m, w, d, r)
    BY WrittenLog
  <2> QED
    BY <2>1 DEF LogWritten
<1>2. a \in Seq(Arguments)
  BY <1>1, ConcatProperties
<1>3. /\ h[1] = "CACHE.REPL" /\ h[2] = "LOG" /\ h[3] = s /\ h[4] = Text(n) /\ h[5] = Text(m)
      /\ h[6] = Text(w) /\ h[7] = Text(d) /\ h[8] = Text(k)
  BY DEF LogHead
<1>4. k \in Nat /\ k \in Numbers
  OBVIOUS
<1> HIDE DEF h, a, k
<1>5. Joins(a, h, r)
  BY <1>1, <1>2, JoinsFacts
<1>6. /\ Len(a) = 8 + k /\ \A i \in 1 .. 8 : a[i] = h[i]
      /\ \A j \in 1 .. k : a[8 + j] = r[j]
  BY <1>1, <1>5 DEF Joins, k
<1>7. /\ a[1] = "CACHE.REPL" /\ a[2] = "LOG" /\ a[3] = s /\ a[4] = Text(n) /\ a[5] = Text(m)
      /\ a[6] = Text(w) /\ a[7] = Text(d) /\ a[8] = Text(k)
  BY <1>3, <1>6
<1>8. Len(a) = 8 + k /\ Len(a) >= 8 /\ Len(a) >= 3 /\ Len(a) - 8 = k
  <2>1. Len(a) = 8 + k
    BY <1>6
  <2> QED
    BY <1>4, <2>1
<1>9. \A i \in 4 .. 8 : IsNumber(a[i])
  <2>1. /\ IsNumber(a[4]) /\ IsNumber(a[5]) /\ IsNumber(a[6])
        /\ IsNumber(a[7]) /\ IsNumber(a[8])
    BY <1>4, <1>7, FrameTextFacts
  <2>2. \A i \in 4 .. 8 : i = 4 \/ i = 5 \/ i = 6 \/ i = 7 \/ i = 8
    OBVIOUS
  <2> QED
    BY <2>1, <2>2
<1>10. /\ ValueOf(a[4]) = n /\ ValueOf(a[5]) = m /\ ValueOf(a[6]) = w
       /\ ValueOf(a[7]) = d /\ ValueOf(a[8]) = k
  BY <1>4, <1>7, FrameTextFacts
<1>11. SubSeq(a, 9, Len(a)) = r
  <2> DEFINE t == SubSeq(a, 9, 8 + k)
  <2>1. \A i \in 9 .. 8 + k : a[i] \in Arguments
    BY <1>2, <1>4, <1>8
  <2>2. /\ t \in Seq(Arguments)
        /\ Len(t) = IF 9 <= 8 + k THEN (8 + k) - 9 + 1 ELSE 0
        /\ \A i \in 1 .. (8 + k) - 9 + 1 : t[i] = a[9 + i - 1]
    BY <1>4, <2>1, SubSeqProperties
  <2>3. (8 + k) - 9 + 1 = k /\ (~(9 <= 8 + k) => k = 0) /\ \A i \in 1 .. k : 9 + i - 1 = 8 + i
    BY <1>4
  <2> HIDE DEF t
  <2>4. Len(t) = k /\ \A i \in 1 .. k : t[i] = a[8 + i]
    BY <2>2, <2>3
  <2>5. Len(t) = Len(r) /\ \A i \in 1 .. Len(t) : t[i] = r[i]
    BY <1>6, <2>4 DEF k
  <2>6. t = r
    BY <2>2, <2>5, SeqEqual
  <2> QED
    BY <1>8, <2>6 DEF t
<1>12. LogValid(a) /\ IsRepl(a)
  BY <1>7, <1>8, <1>9, <1>10 DEF LogValid, IsRepl
<1>13. DecodeFrame(a) = f
  BY <1>2, <1>7, <1>10, <1>11, <1>12, Decodings
<1>14. ReadAs(f) = f
  BY DEF ReadAs, Log
<1> QED
  BY <1>2, <1>13, <1>14 DEF Survives, a

(* Every frame survives.                                                   *)
LEMMA FramesSurvive ==
    ASSUME NEW f \in FrameSet
    PROVE  Survives(f)
<1>1. /\ \A s \in Ids : s \in Arguments
      /\ \A p \in Payloads : p \in Arguments
      /\ Values \subseteq Numbers /\ RecordTexts \subseteq Arguments
      /\ \A p \in PositionLists : IsPositions(p)
  BY FrameAssumption DEF Arguments, IsPositions
<1>2. ASSUME NEW r \in Records
      PROVE  r \in Seq(Arguments) /\ Len(r) \in Numbers
  <2>1. r \in Seq({r[i] : i \in DOMAIN r}) /\ Len(r) \in Numbers
    BY FrameAssumption
  <2>2. {r[i] : i \in DOMAIN r} \subseteq Arguments
    BY <1>1 DEF RecordTexts
  <2> QED
    BY <2>1, <2>2, SeqMonotonic
<1>3. CASE \E r \in Ids, s \in Ids, p \in PositionLists : f = Hello(r, s, p)
  BY <1>1, <1>3, HelloSurvives
<1>4. CASE \E s \in Ids, b \in BOOLEAN : f = Begin(s, b)
  BY <1>1, <1>4, BeginSurvives
<1>5. CASE \E s \in Ids, n \in Values, m \in Values, p \in Payloads : f = Snapshot(s, n, m, p)
  BY <1>1, <1>5, SnapshotSurvives
<1>6. CASE \E s \in Ids, n \in Values, m \in Values, w \in Values, d \in Values, r \in Records :
             f = Log(s, n, m, w, d, r)
  <2>1. PICK s \in Ids, n \in Values, m \in Values, w \in Values, d \in Values, r \in Records :
          f = Log(s, n, m, w, d, r)
    BY <1>6
  <2>2. s \in Arguments /\ n \in Numbers /\ m \in Numbers /\ w \in Numbers /\ d \in Numbers
        /\ r \in Seq(Arguments) /\ Len(r) \in Numbers
    BY <1>1, <1>2
  <2>3. Survives(Log(s, n, m, w, d, r))
    BY <2>2, LogSurvives
  <2> QED
    BY <2>1, <2>3
<1>7. CASE \E s \in Ids, p \in PositionLists : f = Done(s, p)
  BY <1>1, <1>7, DoneSurvives
<1> QED
  BY <1>3, <1>4, <1>5, <1>6, <1>7 DEF FrameSet

(* What arrives is made of arguments.                                      *)
LEMMA ArrivedArguments ==
    ASSUME NEW sent \in Seq(Arguments), NEW a \in FrameArrivals(sent)
    PROVE  a \in Seq(Arguments)
<1>1. FrameNoise \subseteq Arguments /\ Len(sent) \in Nat
  BY DEF Arguments
<1>2. CASE \E n \in 0 .. Len(sent) : a = SubSeq(sent, 1, n)
  <2>1. PICK n \in 0 .. Len(sent) : a = SubSeq(sent, 1, n)
    BY <1>2
  <2>2. n \in Int /\ \A i \in 1 .. n : sent[i] \in Arguments
    BY <1>1
  <2> QED
    BY <2>1, <2>2, SubSeqProperties
<1>3. CASE \E text \in FrameNoise : a = Append(sent, text)
  BY <1>1, <1>3, AppendProperties
<1>4. CASE \E i \in DOMAIN sent, text \in FrameNoise : a = [sent EXCEPT ![i] = text]
  <2>1. PICK i \in DOMAIN sent, text \in FrameNoise : a = [sent EXCEPT ![i] = text]
    BY <1>4
  <2>2. i \in 1 .. Len(sent) /\ text \in Arguments
    BY <1>1
  <2> QED
    BY <2>1, <2>2, ExceptSeq
<1> QED
  BY <1>2, <1>3, <1>4 DEF FrameArrivals

FrameInv ==
    /\ frame \in FrameSet
    /\ args \in Seq(Arguments)
    /\ decoded = Pending \/ decoded = DecodeFrame(args)

(* A frame that arrives as it was sent decodes to itself, and whatever     *)
(* DecodeFrame takes for a frame is the encoding of that frame, up to      *)
(* zeros in front of its numbers.                                          *)
THEOREM FramesDecodeExactly == FrameSpec => []FramesAreExact
<1>1. ASSUME FrameInit PROVE FrameInv
  <2>1. frame \in FrameSet /\ args \in FrameArrivals(EncodeFrame(frame))
        /\ decoded = Pending
    BY <1>1 DEF FrameInit
  <2>2. EncodeFrame(frame) \in Seq(Arguments)
    BY <2>1, FramesSurvive DEF Survives
  <2> QED
    BY <2>1, <2>2, ArrivedArguments DEF FrameInv
<1>2. ASSUME FrameInv, [FrameNext]_frameVars PROVE FrameInv'
  BY <1>2 DEF FrameInv, FrameNext, Receive, frameVars
<1>3. ASSUME FrameInv PROVE FramesAreExact
  <2>1. frame \in FrameSet /\ args \in Seq(Arguments)
    BY <1>3 DEF FrameInv
  <2>2. decoded # Pending => decoded = DecodeFrame(args)
    BY <1>3 DEF FrameInv
  <2>3. DecodeFrame(EncodeFrame(frame)) = ReadAs(frame)
    BY <2>1, FramesSurvive DEF Survives
  <2>4. FrameRoundTrip
    BY <2>2, <2>3 DEF FrameRoundTrip, Received, ReadAs
  <2>5. FrameIsCanonical
    BY <2>1, <2>2, Canonical DEF SpelledAs, FrameIsCanonical, Received
  <2> QED
    BY <2>4, <2>5 DEF FramesAreExact
<1> QED
  BY <1>1, <1>2, <1>3, PTL DEF FrameSpec
=============================================================================
