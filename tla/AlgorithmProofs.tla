---------------------------- MODULE AlgorithmProofs ----------------------------
(***************************************************************************)
(* Theorems about the glob matcher, for every pattern and every text, and  *)
(* about the reads of a sorted set, for every sorted set and every range.  *)
(***************************************************************************)
EXTENDS GlobMatch, ZSetReads, InductionProofs, SequenceTheorems, FunctionTheorems, FiniteSetTheorems

(* An atom ends inside the pattern.                                        *)
LEMMA AtomFacts ==
    ASSUME NEW p \in Seq(Int), NEW i \in 1 .. Len(p)
    PROVE  AtomAt(p, i) \in Int /\ AfterAtom(p, i) \in i + 1 .. Len(p) + 1
BY DEF AtomAt, AfterAtom, IsEscape

-----------------------------------------------------------------------------
(* What ScanClass computes, place by place.                                *)
Scans == [closed : BOOLEAN, end : Nat, atoms : SUBSET Int]

IsRangeAt(p, i) ==
    ~IsEscape(p, i) /\ AfterAtom(p, i) < Len(p) /\ p[AfterAtom(p, i)] = Hyphen

ClosesAt(p, i, last) ==
    ~IsEscape(p, last) /\ LargerOf(AtomAt(p, i), AtomAt(p, last)) = Close

ScanAt(p, from, scan, i) ==
    IF i > Len(p) THEN Unclosed
    ELSE IF p[i] = Close /\ i # from
    THEN [closed |-> TRUE, end |-> i + 1, atoms |-> {}]
    ELSE IF ~IsRangeAt(p, i)
    THEN WithAtoms(scan[AfterAtom(p, i)], {AtomAt(p, i)})
    ELSE LET last == AfterAtom(p, i) + 1
             range == Between(AtomAt(p, i), AtomAt(p, last))
         IN  IF ClosesAt(p, i, last)
             THEN [closed |-> TRUE, end |-> AfterAtom(p, last), atoms |-> range]
             ELSE WithAtoms(scan[AfterAtom(p, last)], range)

IsScan(scan, p, from) ==
    scan = [i \in 1 .. Len(p) + 2 |-> ScanAt(p, from, scan, i)]

(* The place after a range.                                                *)
LEMMA RangeFacts ==
    ASSUME NEW p \in Seq(Int), NEW i \in 1 .. Len(p), IsRangeAt(p, i)
    PROVE  /\ AfterAtom(p, i) + 1 \in i + 2 .. Len(p)
           /\ AfterAtom(p, AfterAtom(p, i) + 1) \in i + 3 .. Len(p) + 1
           /\ Between(AtomAt(p, i), AtomAt(p, AfterAtom(p, i) + 1)) \in SUBSET Int
<1>1. AfterAtom(p, i) + 1 \in i + 2 .. Len(p)
  BY AtomFacts, SMTT(30) DEF IsRangeAt
<1> QED
  BY <1>1, AtomFacts, SMTT(30) DEF Between

(* Adding atoms to a scan.                                                 *)
LEMMA WithAtomsFacts ==
    ASSUME NEW s \in Scans, NEW A \in SUBSET Int
    PROVE  /\ WithAtoms(s, A) \in Scans
           /\ WithAtoms(s, A).closed = s.closed
           /\ WithAtoms(s, A).end = s.end
           /\ WithAtoms(s, A).atoms = s.atoms \cup A
BY DEF WithAtoms, Scans

(* A step of the scan is typed and looks at later places only.             *)
LEMMA ScanAtFacts ==
    ASSUME NEW p \in Seq(Int), NEW from, NEW i \in 1 .. Len(p) + 2,
           NEW f, \A j \in i + 1 .. Len(p) + 2 : f[j] \in Scans
    PROVE  /\ ScanAt(p, from, f, i) \in Scans
           /\ \A g : (\A j \in i + 1 .. Len(p) + 2 : f[j] = g[j]) =>
                        ScanAt(p, from, f, i) = ScanAt(p, from, g, i)
<1>1. CASE i > Len(p)
  BY <1>1 DEF ScanAt, Unclosed, Scans
<1>2. CASE i <= Len(p) /\ p[i] = Close /\ i # from
  BY <1>2 DEF ScanAt, Scans
<1>3. CASE i <= Len(p) /\ ~(p[i] = Close /\ i # from) /\ ~IsRangeAt(p, i)
  <2>1. AfterAtom(p, i) \in i + 1 .. Len(p) + 2 /\ AtomAt(p, i) \in Int
    BY <1>3, AtomFacts
  <2>2. ASSUME NEW g
        PROVE  ScanAt(p, from, g, i) = WithAtoms(g[AfterAtom(p, i)], {AtomAt(p, i)})
    BY <1>3 DEF ScanAt
  <2>3. f[AfterAtom(p, i)] \in Scans
    BY <2>1
  <2>4. WithAtoms(f[AfterAtom(p, i)], {AtomAt(p, i)}) \in Scans
    BY <2>1, <2>3, WithAtomsFacts
  <2> QED
    BY <2>1, <2>2, <2>4
<1>4. CASE i <= Len(p) /\ ~(p[i] = Close /\ i # from) /\ IsRangeAt(p, i)
  <2> DEFINE last == AfterAtom(p, i) + 1
             range == Between(AtomAt(p, i), AtomAt(p, last))
  <2>1. last \in i + 2 .. Len(p) /\ AfterAtom(p, last) \in i + 3 .. Len(p) + 1 /\ range \in SUBSET Int
    BY <1>4, RangeFacts
  <2>2. ASSUME NEW g
        PROVE  ScanAt(p, from, g, i) = IF ClosesAt(p, i, last)
                                        THEN [closed |-> TRUE, end |-> AfterAtom(p, last), atoms |-> range]
                                        ELSE WithAtoms(g[AfterAtom(p, last)], range)
    BY <1>4 DEF ScanAt
  <2> HIDE DEF last, range
  <2>3. AfterAtom(p, last) \in i + 1 .. Len(p) + 2
    BY <2>1
  <2>4. f[AfterAtom(p, last)] \in Scans
    BY <2>3
  <2>5. WithAtoms(f[AfterAtom(p, last)], range) \in Scans
    BY <2>1, <2>4, WithAtomsFacts
  <2>6. [closed |-> TRUE, end |-> AfterAtom(p, last), atoms |-> range] \in Scans
    BY <2>1 DEF Scans
  <2> QED
    BY <2>2, <2>3, <2>5, <2>6
<1> QED
  BY <1>1, <1>2, <1>3, <1>4

(* The recursive function of ScanClass exists.                             *)
LEMMA ScanExists ==
    ASSUME NEW p \in Seq(Int), NEW from \in 1 .. Len(p) + 2
    PROVE  \E f \in [1 .. Len(p) + 2 -> Scans] :
               IsScan(f, p, from) /\ ScanClass(p, from) = f[from]
<1> DEFINE N == Len(p) + 2
           step == [q \in (1 .. N) \X [1 .. N -> Scans] |-> ScanAt(p, from, q[2], q[1])]
           scan == CHOOSE f : IsScan(f, p, from)
<1>1. N \in Nat /\ Unclosed \in Scans
  BY DEF Unclosed, Scans
<1>2. step \in [(1 .. N) \X [1 .. N -> Scans] -> Scans]
  <2>1. ASSUME NEW i \in 1 .. N, NEW f \in [1 .. N -> Scans]
        PROVE  ScanAt(p, from, f, i) \in Scans
    BY ScanAtFacts
  <2> QED
    BY <2>1
<1>3. \A i \in 1 .. N : \A f \in [1 .. N -> Scans] : step[<<i, f>>] = ScanAt(p, from, f, i)
  OBVIOUS
<1>4. LooksUp(step, N, Scans)
  <2> HIDE DEF step
  <2>1. ASSUME NEW i \in 1 .. N, NEW f \in [1 .. N -> Scans], NEW g \in [1 .. N -> Scans],
               \A j \in i + 1 .. N : f[j] = g[j]
        PROVE  step[<<i, f>>] = step[<<i, g>>]
    <3>1. \A j \in i + 1 .. N : f[j] \in Scans
      OBVIOUS
    <3>2. ScanAt(p, from, f, i) = ScanAt(p, from, g, i)
      BY <2>1, <3>1, ScanAtFacts
    <3> QED
      BY <1>3, <3>2
  <2> QED
    BY <2>1 DEF LooksUp
<1>5. \E f : IsScan(f, p, from)
  <2>1. PICK f \in [1 .. N -> Scans] : IsDownwardRecursion(f, N, 0, step)
    <3> HIDE DEF step, N
    <3> QED
      BY <1>1, <1>2, <1>4, DownwardRecursion
  <2>2. \A i \in 1 .. N : i > 0 => f[i] = ScanAt(p, from, f, i)
    <3> HIDE DEF step
    <3> QED
      BY <1>3, <2>1 DEF IsDownwardRecursion
  <2>3. IsScan(f, p, from)
    BY <2>1, <2>2 DEF IsScan
  <2> QED
    BY <2>3
<1>6. IsScan(scan, p, from)
  BY <1>5
<1>7. ScanClass(p, from) = scan[from]
  BY DEF ScanClass, scan, IsScan, ScanAt, IsRangeAt, ClosesAt
<1> HIDE DEF scan
<1>8. \A i \in 1 .. N : scan[i] = ScanAt(p, from, scan, i)
  BY <1>6 DEF IsScan
<1>9. 1 .. N \subseteq {i \in 1 .. N : scan[i] \in Scans}
  <2> DEFINE S == {i \in 1 .. N : scan[i] \in Scans}
  <2>1. ASSUME NEW i \in 1 .. N, \A j \in i + 1 .. N : j \in S
        PROVE  i \in S
    BY <1>8, <2>1, ScanAtFacts
  <2> HIDE DEF S, N
  <2> QED
    BY <1>1, <2>1, DownwardInduction DEF S
<1>10. scan \in [1 .. N -> Scans]
  BY <1>6, <1>9 DEF IsScan
<1> QED
  BY <1>6, <1>7, <1>10

(* A class that is closed ends behind its first character and inside the   *)
(* pattern.                                                                *)
LEMMA ScanEnds ==
    ASSUME NEW p \in Seq(Int), NEW from \in 1 .. Len(p) + 2
    PROVE  /\ ScanClass(p, from) \in Scans
           /\ ScanClass(p, from).closed => ScanClass(p, from).end \in from + 1 .. Len(p) + 1
<1> DEFINE N == Len(p) + 2
<1>1. PICK f \in [1 .. N -> Scans] : IsScan(f, p, from) /\ ScanClass(p, from) = f[from]
  BY ScanExists
<1>2. \A i \in 1 .. N : f[i] = ScanAt(p, from, f, i)
  BY <1>1 DEF IsScan
<1> DEFINE S == {i \in 1 .. N : f[i].closed => f[i].end \in i + 1 .. Len(p) + 1}
<1>3. ASSUME NEW i \in 1 .. N, \A j \in i + 1 .. N : j \in S
      PROVE  i \in S
  <2>1. f[i] = ScanAt(p, from, f, i)
    BY <1>2
  <2>2. CASE i > Len(p)
    BY <2>1, <2>2 DEF ScanAt, Unclosed
  <2>3. CASE i <= Len(p) /\ p[i] = Close /\ i # from
    BY <2>1, <2>3 DEF ScanAt
  <2>4. CASE i <= Len(p) /\ ~(p[i] = Close /\ i # from) /\ ~IsRangeAt(p, i)
    <3>1. AfterAtom(p, i) \in i + 1 .. Len(p) + 1 /\ AtomAt(p, i) \in Int
      BY <2>4, AtomFacts
    <3>2. f[i] = WithAtoms(f[AfterAtom(p, i)], {AtomAt(p, i)})
      BY <2>1, <2>4 DEF ScanAt
    <3>3. f[AfterAtom(p, i)] \in Scans /\ AfterAtom(p, i) \in S
      BY <1>3, <3>1
    <3>4. f[i].closed = f[AfterAtom(p, i)].closed /\ f[i].end = f[AfterAtom(p, i)].end
      BY <3>1, <3>2, <3>3, WithAtomsFacts
    <3> QED
      BY <3>1, <3>3, <3>4
  <2>5. CASE i <= Len(p) /\ ~(p[i] = Close /\ i # from) /\ IsRangeAt(p, i)
    <3> DEFINE last == AfterAtom(p, i) + 1
               range == Between(AtomAt(p, i), AtomAt(p, last))
    <3>1. last \in i + 2 .. Len(p) /\ AfterAtom(p, last) \in i + 3 .. Len(p) + 1 /\ range \in SUBSET Int
      BY <2>5, RangeFacts
    <3>2. f[i] = IF ClosesAt(p, i, last) THEN [closed |-> TRUE, end |-> AfterAtom(p, last), atoms |-> range]
                 ELSE WithAtoms(f[AfterAtom(p, last)], range)
      BY <2>1, <2>5 DEF ScanAt
    <3> HIDE DEF last, range
    <3>3. f[AfterAtom(p, last)] \in Scans /\ AfterAtom(p, last) \in S
      BY <1>3, <3>1
    <3>4. CASE ClosesAt(p, i, last)
      BY <3>1, <3>2, <3>4
    <3>5. CASE ~ClosesAt(p, i, last)
      <4>1. f[i].closed = f[AfterAtom(p, last)].closed /\ f[i].end = f[AfterAtom(p, last)].end
        BY <3>1, <3>2, <3>3, <3>5, WithAtomsFacts
      <4> QED
        BY <3>1, <3>3, <4>1
    <3> QED
      BY <3>4, <3>5
  <2> QED
    BY <2>2, <2>3, <2>4, <2>5
<1>4. 1 .. N \subseteq S
  <2>1. N \in Nat
    OBVIOUS
  <2> HIDE DEF S, N
  <2> QED
    BY <1>3, <2>1, DownwardInduction
<1>5. from \in S
  BY <1>4
<1> QED
  BY <1>1, <1>5

-----------------------------------------------------------------------------
(* A token that matches ends behind its start and inside the pattern.      *)
LEMMA MatchOneRange ==
    ASSUME NEW p \in Seq(Int), NEW i \in 1 .. Len(p), NEW c, MatchOne(p, i, c) # 0
    PROVE  MatchOne(p, i, c) \in i + 1 .. Len(p) + 1
<1>1. CASE p[i] = Star
  <2>1. MatchOne(p, i, c) = 0
    BY <1>1 DEF MatchOne, Star, Question, Open
  <2> QED
    BY <2>1
<1>2. CASE p[i] = Question
  <2>1. MatchOne(p, i, c) = i + 1
    BY <1>2 DEF MatchOne, Star, Question, Open
  <2> QED
    BY <2>1
<1>3. CASE p[i] = Open
  <2> DEFINE negate == i + 1 <= Len(p) /\ p[i + 1] = Caret
             from == IF negate THEN i + 1 + 1 ELSE i + 1
             class == ScanClass(p, from)
  <2>1. MatchOne(p, i, c) = MatchClass(p, i + 1, c)
    BY <1>3 DEF MatchOne, Open, Question, Star
  <2>2. MatchClass(p, i + 1, c) = IF class.closed /\ (c \in class.atoms) # negate THEN class.end ELSE 0
    BY DEF MatchClass
  <2>3. from \in i + 1 .. Len(p) + 2 /\ from \in 1 .. Len(p) + 2
    OBVIOUS
  <2> HIDE DEF class, from, negate
  <2>4. class.closed => class.end \in from + 1 .. Len(p) + 1
    BY <2>3, ScanEnds DEF class
  <2> QED
    BY <2>1, <2>2, <2>3, <2>4
<1>4. CASE p[i] \notin {Star, Question, Open}
  <2>1. MatchOne(p, i, c) = IF AtomAt(p, i) = c THEN AfterAtom(p, i) ELSE 0
    BY <1>4 DEF MatchOne
  <2> QED
    BY <2>1, AtomFacts
<1> QED
  BY <1>1, <1>2, <1>3, <1>4

(* Where a token ends does not depend on the character it matches.         *)
LEMMA MatchOneEnd ==
    ASSUME NEW p \in Seq(Int), NEW i \in 1 .. Len(p), NEW c, NEW d,
           MatchOne(p, i, c) # 0, MatchOne(p, i, d) # 0
    PROVE  MatchOne(p, i, c) = MatchOne(p, i, d)
<1>1. CASE p[i] = Star
  <2>1. MatchOne(p, i, c) = 0
    BY <1>1 DEF MatchOne, Star, Question, Open
  <2> QED
    BY <2>1
<1>2. CASE p[i] = Question
  <2>1. MatchOne(p, i, c) = i + 1 /\ MatchOne(p, i, d) = i + 1
    BY <1>2 DEF MatchOne, Star, Question, Open
  <2> QED
    BY <2>1
<1>3. CASE p[i] = Open
  <2> DEFINE negate == i + 1 <= Len(p) /\ p[i + 1] = Caret
             class == ScanClass(p, IF negate THEN i + 1 + 1 ELSE i + 1)
  <2>1. ASSUME NEW e
        PROVE  MatchOne(p, i, e) = MatchClass(p, i + 1, e)
    BY <1>3 DEF MatchOne, Open, Question, Star
  <2>2. ASSUME NEW e
        PROVE  MatchClass(p, i + 1, e) = IF class.closed /\ (e \in class.atoms) # negate THEN class.end ELSE 0
    BY DEF MatchClass
  <2> HIDE DEF class, negate
  <2> QED
    BY <2>1, <2>2
<1>4. CASE p[i] \notin {Star, Question, Open}
  <2>1. ASSUME NEW e
        PROVE  MatchOne(p, i, e) = IF AtomAt(p, i) = e THEN AfterAtom(p, i) ELSE 0
    BY <1>4 DEF MatchOne
  <2> QED
    BY <2>1
<1> QED
  BY <1>1, <1>2, <1>3, <1>4

-----------------------------------------------------------------------------
(* The function of Means: from where on the rest of the pattern matches.   *)
FromAt(p, t, F, i) ==
    IF i > Len(p) THEN {Len(t) + 1}
    ELSE IF p[i] = Star
    THEN {j \in 1 .. Len(t) + 1 : \E k \in F[i + 1] : j <= k}
    ELSE {j \in 1 .. Len(t) : /\ MatchOne(p, i, t[j]) # 0
                              /\ j + 1 \in F[MatchOne(p, i, t[j])]}

IsFrom(F, p, t) == F = [i \in 1 .. Len(p) + 1 |-> FromAt(p, t, F, i)]

From(p, t) == CHOOSE F : IsFrom(F, p, t)

Places(t) == 1 .. Len(t) + 1

(* A step of it yields places of the text and looks at later tokens only.  *)
LEMMA FromAtFacts ==
    ASSUME NEW p \in Seq(Int), NEW t \in Seq(Int), NEW i \in 1 .. Len(p) + 1, NEW F
    PROVE  /\ FromAt(p, t, F, i) \in SUBSET Places(t)
           /\ \A G : (\A j \in i + 1 .. Len(p) + 1 : F[j] = G[j]) =>
                        FromAt(p, t, F, i) = FromAt(p, t, G, i)
<1>1. CASE i > Len(p)
  BY <1>1 DEF FromAt, Places
<1>2. CASE i <= Len(p) /\ p[i] = Star
  <2>1. ASSUME NEW G
        PROVE  FromAt(p, t, G, i) = {j \in 1 .. Len(t) + 1 : \E k \in G[i + 1] : j <= k}
    BY <1>2 DEF FromAt
  <2>2. i + 1 \in i + 1 .. Len(p) + 1
    BY <1>2
  <2>3. FromAt(p, t, F, i) \in SUBSET Places(t)
    BY <2>1 DEF Places
  <2>4. ASSUME NEW G, F[i + 1] = G[i + 1]
        PROVE  FromAt(p, t, F, i) = FromAt(p, t, G, i)
    BY <2>1, <2>4
  <2> QED
    BY <2>2, <2>3, <2>4
<1>3. CASE i <= Len(p) /\ p[i] # Star
  <2>1. ASSUME NEW G
        PROVE  FromAt(p, t, G, i) = {j \in 1 .. Len(t) : /\ MatchOne(p, i, t[j]) # 0
                                                          /\ j + 1 \in G[MatchOne(p, i, t[j])]}
    BY <1>3 DEF FromAt
  <2>2. ASSUME NEW j \in 1 .. Len(t), MatchOne(p, i, t[j]) # 0
        PROVE  MatchOne(p, i, t[j]) \in i + 1 .. Len(p) + 1
    BY <1>3, <2>2, MatchOneRange
  <2>3. FromAt(p, t, F, i) \in SUBSET Places(t)
    BY <2>1 DEF Places
  <2>4. ASSUME NEW G, \A j \in i + 1 .. Len(p) + 1 : F[j] = G[j]
        PROVE  FromAt(p, t, F, i) = FromAt(p, t, G, i)
    <3>1. ASSUME NEW j \in 1 .. Len(t), MatchOne(p, i, t[j]) # 0
          PROVE  F[MatchOne(p, i, t[j])] = G[MatchOne(p, i, t[j])]
      BY <2>2, <2>4, <3>1
    <3> QED
      BY <2>1, <3>1
  <2> QED
    BY <2>3, <2>4
<1> QED
  BY <1>1, <1>2, <1>3

(* The recursive function of Means exists and meets its equation.          *)
LEMMA FromExists ==
    ASSUME NEW p \in Seq(Int), NEW t \in Seq(Int)
    PROVE  /\ From(p, t) \in [1 .. Len(p) + 1 -> SUBSET Places(t)]
           /\ \A i \in 1 .. Len(p) + 1 : From(p, t)[i] = FromAt(p, t, From(p, t), i)
           /\ Means(p, t) = (1 \in From(p, t)[1])
<1> DEFINE N == Len(p) + 1
           V == SUBSET Places(t)
           step == [q \in (1 .. N) \X [1 .. N -> V] |-> FromAt(p, t, q[2], q[1])]
<1>1. N \in Nat /\ {} \in V
  OBVIOUS
<1>2. step \in [(1 .. N) \X [1 .. N -> V] -> V]
  <2>1. ASSUME NEW i \in 1 .. N, NEW F \in [1 .. N -> V]
        PROVE  FromAt(p, t, F, i) \in V
    BY FromAtFacts
  <2> QED
    BY <2>1
<1>3. \A i \in 1 .. N : \A F \in [1 .. N -> V] : step[<<i, F>>] = FromAt(p, t, F, i)
  OBVIOUS
<1>4. LooksUp(step, N, V)
  <2> HIDE DEF step
  <2>1. ASSUME NEW i \in 1 .. N, NEW F \in [1 .. N -> V], NEW G \in [1 .. N -> V],
               \A j \in i + 1 .. N : F[j] = G[j]
        PROVE  step[<<i, F>>] = step[<<i, G>>]
    <3>1. FromAt(p, t, F, i) = FromAt(p, t, G, i)
      BY <2>1, FromAtFacts
    <3> QED
      BY <1>3, <3>1
  <2> QED
    BY <2>1 DEF LooksUp
<1>5. \E F : IsFrom(F, p, t)
  <2>1. PICK F \in [1 .. N -> V] : IsDownwardRecursion(F, N, 0, step)
    <3> HIDE DEF step, N, V
    <3> QED
      BY <1>1, <1>2, <1>4, DownwardRecursion
  <2>2. \A i \in 1 .. N : i > 0 => F[i] = FromAt(p, t, F, i)
    <3> HIDE DEF step
    <3> QED
      BY <1>3, <2>1 DEF IsDownwardRecursion
  <2>3. IsFrom(F, p, t)
    BY <2>1, <2>2 DEF IsFrom
  <2> QED
    BY <2>3
<1>6. IsFrom(From(p, t), p, t)
  BY <1>5 DEF From
<1>7. Means(p, t) = (1 \in From(p, t)[1])
  BY DEF Means, From, IsFrom, FromAt
<1>8. \A i \in 1 .. N : From(p, t)[i] = FromAt(p, t, From(p, t), i)
  BY <1>6 DEF IsFrom
<1>9. \A i \in 1 .. N : From(p, t)[i] \in V
  BY <1>8, FromAtFacts
<1> QED
  BY <1>6, <1>7, <1>8, <1>9 DEF IsFrom

(* A pattern means yes or no.                                              *)
LEMMA MeansType ==
    ASSUME NEW p, NEW t
    PROVE  Means(p, t) \in BOOLEAN
<1>1. Means(p, t) = (1 \in From(p, t)[1])
  BY DEF Means, From, IsFrom, FromAt
<1>2. (1 \in From(p, t)[1]) \in BOOLEAN
  OBVIOUS
<1> QED
  BY ONLY <1>1, <1>2, Zenon

(* The rest of the pattern from i on matches the text from j on.           *)
Fits(p, t, i, j) == j \in From(p, t)[i]

(* The end of the pattern matches the end of the text.                     *)
LEMMA FitsAtEnd ==
    ASSUME NEW p \in Seq(Int), NEW t \in Seq(Int), NEW j
    PROVE  Fits(p, t, Len(p) + 1, j) <=> j = Len(t) + 1
<1>1. From(p, t)[Len(p) + 1] = FromAt(p, t, From(p, t), Len(p) + 1)
  BY FromExists
<1> QED
  BY <1>1 DEF Fits, FromAt

(* A star takes any part of the text.                                      *)
LEMMA FitsAtStar ==
    ASSUME NEW p \in Seq(Int), NEW t \in Seq(Int), NEW i \in 1 .. Len(p), p[i] = Star,
           NEW j \in Places(t)
    PROVE  Fits(p, t, i, j) <=> \E k \in Places(t) : j <= k /\ Fits(p, t, i + 1, k)
<1>1. From(p, t)[i] = FromAt(p, t, From(p, t), i)
  BY FromExists
<1>2. From(p, t)[i + 1] \in SUBSET Places(t)
  <2>1. i + 1 \in 1 .. Len(p) + 1
    OBVIOUS
  <2> QED
    BY <2>1, FromExists, ZenonT(40)
<1> QED
  BY <1>1, <1>2 DEF Fits, FromAt, Places

(* Another token takes one character.                                      *)
LEMMA FitsAtToken ==
    ASSUME NEW p \in Seq(Int), NEW t \in Seq(Int), NEW i \in 1 .. Len(p), p[i] # Star, NEW j
    PROVE  Fits(p, t, i, j) <=> /\ j \in 1 .. Len(t)
                                /\ MatchOne(p, i, t[j]) # 0
                                /\ Fits(p, t, MatchOne(p, i, t[j]), j + 1)
<1>1. From(p, t)[i] = FromAt(p, t, From(p, t), i)
  BY FromExists
<1> QED
  BY <1>1 DEF Fits, FromAt

(* A place that fits is a place of the text.                               *)
LEMMA FitsInText ==
    ASSUME NEW p \in Seq(Int), NEW t \in Seq(Int), NEW i \in 1 .. Len(p) + 1, NEW j, Fits(p, t, i, j)
    PROVE  j \in Places(t)
BY FromExists DEF Fits

-----------------------------------------------------------------------------
(* Between i and j - 1 the pattern has stars only.                         *)
OnlyStars(p, i, j) == \A k \in i .. j - 1 : p[k] = Star

FitsLater(p, t, j, m) == \E k \in Places(t) : m <= k /\ Fits(p, t, j, k)

(* A run of stars is one star.                                             *)
LEMMA StarsAreOne ==
    ASSUME NEW p \in Seq(Int), NEW t \in Seq(Int), NEW j \in 1 .. Len(p) + 1
    PROVE  \A i \in 1 .. Len(p) : i < j /\ OnlyStars(p, i, j) =>
               \A m \in Places(t) : Fits(p, t, i, m) <=> FitsLater(p, t, j, m)
<1> DEFINE S == {i \in 1 .. Len(p) : i < j /\ OnlyStars(p, i, j) =>
                    \A m \in Places(t) : Fits(p, t, i, m) <=> FitsLater(p, t, j, m)}
<1>1. ASSUME NEW i \in 1 .. Len(p), \A k \in i + 1 .. Len(p) : k \in S
      PROVE  i \in S
  <2>1. SUFFICES ASSUME i < j, OnlyStars(p, i, j), NEW m \in Places(t)
                 PROVE  Fits(p, t, i, m) <=> FitsLater(p, t, j, m)
    OBVIOUS
  <2>2. p[i] = Star
    BY <2>1 DEF OnlyStars
  <2>3. Fits(p, t, i, m) <=> FitsLater(p, t, i + 1, m)
    BY <2>2, FitsAtStar DEF FitsLater
  <2>4. CASE i + 1 = j
    BY <2>3, <2>4
  <2>5. CASE i + 1 < j
    <3>1. i + 1 \in S /\ OnlyStars(p, i + 1, j)
      BY <1>1, <2>1, <2>5, SMTT(30) DEF OnlyStars
    <3>2. \A k \in Places(t) : Fits(p, t, i + 1, k) <=> FitsLater(p, t, j, k)
      BY <2>5, <3>1
    <3>3. FitsLater(p, t, i + 1, m) => FitsLater(p, t, j, m)
      <4>1. SUFFICES ASSUME NEW k \in Places(t), m <= k, Fits(p, t, i + 1, k)
                     PROVE  FitsLater(p, t, j, m)
        BY DEF FitsLater
      <4>2. PICK l \in Places(t) : k <= l /\ Fits(p, t, j, l)
        BY <3>2, <4>1 DEF FitsLater
      <4>3. m <= l
        BY <4>1, <4>2 DEF Places
      <4> QED
        BY <4>2, <4>3 DEF FitsLater
    <3>4. FitsLater(p, t, j, m) => FitsLater(p, t, i + 1, m)
      <4>1. SUFFICES ASSUME FitsLater(p, t, j, m)
                     PROVE  FitsLater(p, t, i + 1, m)
        OBVIOUS
      <4>2. Fits(p, t, i + 1, m) /\ m <= m
        BY <3>2, <4>1 DEF Places
      <4> QED
        BY <4>2 DEF FitsLater
    <3> QED
      BY <2>3, <3>3, <3>4
  <2> QED
    BY <2>1, <2>4, <2>5
<1>2. 1 .. Len(p) \subseteq S
  <2>1. Len(p) \in Nat
    OBVIOUS
  <2> HIDE DEF S
  <2> QED
    BY <1>1, <2>1, DownwardInduction
<1> QED
  BY <1>2

(* Where a run of stars ends.                                              *)
LEMMA AfterStarsFacts ==
    ASSUME pattern \in Seq(Int), NEW i \in 1 .. Len(pattern) + 1
    PROVE  /\ AfterStars(i) \in i .. Len(pattern) + 1
           /\ OnlyStars(pattern, i, AfterStars(i))
           /\ AfterStars(i) <= Len(pattern) => pattern[AfterStars(i)] # Star
<1> DEFINE last == Len(pattern) + 1 - i
           Hits == {n \in Nat : pattern[i + n] # Star}
<1>1. last \in Nat
  OBVIOUS
<1>2. PICK n \in 0 .. last : (\A m \in 0 .. n - 1 : m \notin Hits) /\ (n < last => n \in Hits)
  <2> HIDE DEF last, Hits
  <2> QED
    BY <1>1, FirstNumber
<1>3. i + n \in i .. Len(pattern) + 1
  BY <1>1, <1>2
<1>4. \A k \in i .. i + n - 1 : pattern[k] = Star
  <2>1. SUFFICES ASSUME NEW k \in i .. i + n - 1 PROVE pattern[k] = Star
    OBVIOUS
  <2>2. k - i \in 0 .. n - 1 /\ i + (k - i) = k
    OBVIOUS
  <2>3. k - i \notin Hits
    BY <1>2, <2>2
  <2> QED
    BY <2>2, <2>3
<1>5. i + n <= Len(pattern) => pattern[i + n] # Star
  BY <1>2
<1> DEFINE Ends(j) == /\ \A k \in i .. j - 1 : pattern[k] = Star
                      /\ j <= Len(pattern) => pattern[j] # Star
<1>6. AfterStars(i) = CHOOSE j \in i .. Len(pattern) + 1 : Ends(j)
  BY DEF AfterStars
<1>7. Ends(i + n)
  BY <1>4, <1>5
<1>8. AfterStars(i) \in i .. Len(pattern) + 1 /\ Ends(AfterStars(i))
  <2> HIDE DEF Ends
  <2> QED
    BY <1>3, <1>6, <1>7
<1> QED
  BY <1>8 DEF OnlyStars

(* When the text is used up, stars alone match.                            *)
LEMMA StarsMatchNothing ==
    ASSUME pattern \in Seq(Int), text \in Seq(Int), NEW i \in 1 .. Len(pattern) + 1
    PROVE  Fits(pattern, text, i, Len(text) + 1) <=> AfterStars(i) > Len(pattern)
<1> DEFINE j == AfterStars(i)
           end == Len(text) + 1
<1>1. /\ j \in i .. Len(pattern) + 1
      /\ OnlyStars(pattern, i, j)
      /\ j <= Len(pattern) => pattern[j] # Star
  BY AfterStarsFacts
<1> HIDE DEF j
<1>2. Fits(pattern, text, j, end) <=> j > Len(pattern)
  <2>1. CASE j > Len(pattern)
    <3>1. j = Len(pattern) + 1
      BY <1>1, <2>1
    <3> QED
      BY <2>1, <3>1, FitsAtEnd
  <2>2. CASE j <= Len(pattern)
    <3>1. j \in 1 .. Len(pattern) /\ end \notin 1 .. Len(text)
      BY <1>1, <2>2
    <3> QED
      BY <1>1, <2>2, <3>1, FitsAtToken
  <2> QED
    BY <1>1, <2>1, <2>2
<1>3. CASE j = i
  BY <1>2, <1>3 DEF j
<1>4. CASE i < j
  <2>1. end \in Places(text)
    BY DEF Places
  <2>2. i \in 1 .. Len(pattern) /\ j \in 1 .. Len(pattern) + 1
    BY <1>1, <1>4
  <2>3. Fits(pattern, text, i, end) <=> FitsLater(pattern, text, j, end)
    BY <1>1, <1>4, <2>1, <2>2, StarsAreOne
  <2>4. \A k \in Places(text) : end <= k <=> k = end
    BY DEF Places
  <2>5. FitsLater(pattern, text, j, end) <=> Fits(pattern, text, j, end)
    BY <2>1, <2>4 DEF FitsLater
  <2> QED
    BY <1>2, <2>3, <2>5 DEF j
<1> QED
  BY <1>1, <1>3, <1>4

-----------------------------------------------------------------------------
(* The matcher's positions lie inside the pattern and the text, and the    *)
(* last star took nothing beyond the current position.                     *)
PositionInv ==
    /\ pattern \in Seq(Int) /\ text \in Seq(Int)
    /\ patternIndex \in 1 .. Len(pattern) + 1
    /\ textIndex \in Places(text)
    /\ starPatternIndex \in 0 .. Len(pattern) + 1
    /\ starTextIndex \in Places(text)
    /\ starTextIndex <= textIndex
    /\ result \in {"running", "match", "mismatch"}

(* The current attempt tells whether the star may take nothing more, and   *)
(* any other place where the rest after the star fits is as many           *)
(* characters behind the star's as the position is.                        *)
Attempt(p, t, i, j, star, taken) ==
    /\ Fits(p, t, i, j) => Fits(p, t, star, taken)
    /\ \A k \in Places(t) :
           taken <= k /\ Fits(p, t, star, k) => Fits(p, t, i, k + (j - taken))

AttemptInv ==
    Attempt(pattern, text, patternIndex, textIndex, starPatternIndex, starTextIndex)

(* What is left to find out: whether the rest fits here or, after a star,  *)
(* here or later.                                                          *)
SearchInv ==
    IF starPatternIndex = NoStar
    THEN Means(pattern, text) <=> Fits(pattern, text, patternIndex, textIndex)
    ELSE /\ Means(pattern, text) <=> FitsLater(pattern, text, starPatternIndex, starTextIndex)
         /\ AttemptInv

GlobInv ==
    /\ PositionInv
    /\ result = "running" => SearchInv
    /\ ResultIsMeaning

(* The matcher starts with the whole pattern and the whole text.           *)
LEMMA GlobInit ==
    ASSUME Init
    PROVE  GlobInv
<1>1. pattern \in Seq(Int) /\ text \in Seq(Int)
  BY GlobAssumption DEF Init
<1>2. PositionInv
  BY <1>1 DEF Init, PositionInv, Places, NoStar
<1>3. SearchInv
  BY <1>1, FromExists DEF Init, SearchInv, Fits, NoStar
<1> QED
  BY <1>2, <1>3 DEF Init, GlobInv, ResultIsMeaning

(* The matcher never changes its arguments.                                *)
LEMMA GlobArguments ==
    ASSUME [Next]_vars
    PROVE  pattern' = pattern /\ text' = text
BY DEF Next, vars, PassStars, PassToken, Restart, Fail, EndOfText

(* A run of stars that becomes the place to come back to: whatever fitted  *)
(* behind the previous star fits behind this one.                          *)
LEMMA GlobPassStars ==
    ASSUME GlobInv, PassStars
    PROVE  GlobInv'
<1> DEFINE p == pattern
           t == text
           j == AfterStars(patternIndex)
<1>1. PositionInv /\ SearchInv /\ result = "running"
  BY DEF GlobInv, PassStars, InText
<1>2. /\ patternIndex \in 1 .. Len(p) /\ p[patternIndex] = Star
      /\ textIndex \in 1 .. Len(t)
      /\ p \in Seq(Int) /\ t \in Seq(Int)
  BY <1>1 DEF PassStars, InText, AtStar, PositionInv, Places
<1>3. /\ j \in patternIndex .. Len(p) + 1
      /\ OnlyStars(p, patternIndex, j)
      /\ j <= Len(p) => p[j] # Star
  BY <1>2, AfterStarsFacts
<1>4. /\ pattern' = pattern /\ text' = text /\ textIndex' = textIndex /\ result' = result
      /\ patternIndex' = j /\ starPatternIndex' = j /\ starTextIndex' = textIndex
  BY DEF PassStars
<1> HIDE DEF j
<1>5. patternIndex < j
  BY <1>2, <1>3
<1>6. PositionInv'
  BY <1>1, <1>2, <1>3, <1>4 DEF PositionInv, Places
<1>7. Fits(p, t, patternIndex, textIndex) <=> FitsLater(p, t, j, textIndex)
  BY <1>2, <1>3, <1>5, StarsAreOne DEF Places
<1>8. Means(p, t) <=> Fits(p, t, patternIndex, textIndex)
  <2>1. CASE starPatternIndex = NoStar
    BY <1>1, <2>1 DEF SearchInv
  <2>2. CASE starPatternIndex # NoStar
    <3>1. /\ Means(p, t) <=> FitsLater(p, t, starPatternIndex, starTextIndex)
          /\ AttemptInv
      BY <1>1, <2>2 DEF SearchInv
    <3>2. ASSUME Fits(p, t, patternIndex, textIndex)
          PROVE  FitsLater(p, t, starPatternIndex, starTextIndex)
      <4>1. starTextIndex \in Places(t) /\ starTextIndex <= starTextIndex
        BY <1>1 DEF PositionInv, Places
      <4> QED
        BY <3>1, <3>2, <4>1 DEF AttemptInv, Attempt, FitsLater
    <3>3. ASSUME FitsLater(p, t, starPatternIndex, starTextIndex)
          PROVE  Fits(p, t, patternIndex, textIndex)
      <4>1. PICK k \in Places(t) : starTextIndex <= k /\ Fits(p, t, starPatternIndex, k)
        BY <3>3 DEF FitsLater
      <4> DEFINE l == k + (textIndex - starTextIndex)
      <4>2. Fits(p, t, patternIndex, l)
        BY <3>1, <4>1 DEF AttemptInv, Attempt
      <4>3. textIndex <= l
        BY <1>1, <4>1 DEF PositionInv, Places
      <4> HIDE DEF l
      <4>4. l \in Places(t)
        <5>1. patternIndex \in 1 .. Len(p) + 1
          BY <1>2
        <5> HIDE DEF p, t
        <5> QED
          BY <1>2, <4>2, <5>1, FitsInText
      <4>5. FitsLater(p, t, j, l)
        BY <1>2, <1>3, <1>5, <4>2, <4>4, StarsAreOne
      <4>6. PICK n \in Places(t) : l <= n /\ Fits(p, t, j, n)
        BY <4>5 DEF FitsLater
      <4>7. textIndex <= n
        BY <1>1, <4>3, <4>4, <4>6 DEF PositionInv, Places
      <4>8. FitsLater(p, t, j, textIndex)
        BY <4>6, <4>7 DEF FitsLater
      <4> QED
        BY <1>7, <4>8
    <3> QED
      BY <3>1, <3>2, <3>3
  <2> QED
    BY <2>1, <2>2
<1>9. SearchInv'
  <2>1. j # NoStar
    BY <1>2, <1>3 DEF NoStar
  <2>2. \A k \in Places(t) : k + (textIndex - textIndex) = k
    BY <1>2 DEF Places
  <2>3. AttemptInv'
    BY <1>4, <2>2 DEF AttemptInv, Attempt
  <2>4. Means(p, t) <=> FitsLater(p, t, j, textIndex)
    BY <1>7, <1>8
  <2> QED
    BY <1>4, <2>1, <2>3, <2>4 DEF SearchInv
<1> QED
  BY <1>1, <1>4, <1>6, <1>9 DEF GlobInv, ResultIsMeaning

(* A token takes one character, here and at every other place where the    *)
(* rest fits, and ends at the same index there.                            *)
LEMMA GlobPassToken ==
    ASSUME GlobInv, PassToken
    PROVE  GlobInv'
<1> DEFINE p == pattern
           t == text
           n == MatchOne(p, patternIndex, t[textIndex])
<1>1. PositionInv /\ SearchInv /\ result = "running"
  BY DEF GlobInv, PassToken, InText
<1>2. /\ p \in Seq(Int) /\ t \in Seq(Int)
      /\ textIndex \in 1 .. Len(t)
      /\ patternIndex \in 1 .. Len(p) /\ p[patternIndex] # Star
      /\ NextIndex = n /\ n # 0
  BY <1>1, SMTT(30) DEF PassToken, InText, AtStar, PositionInv, Places, NextIndex
<1>3. n \in 1 .. Len(p) + 1
  BY <1>2, MatchOneRange
<1>4. /\ pattern' = pattern /\ text' = text /\ result' = result
      /\ patternIndex' = n /\ textIndex' = textIndex + 1
      /\ starPatternIndex' = starPatternIndex /\ starTextIndex' = starTextIndex
  BY <1>2 DEF PassToken
<1> HIDE DEF n
<1>5. PositionInv'
  BY <1>1, <1>2, <1>3, <1>4 DEF PositionInv, Places
<1>6. Fits(p, t, patternIndex, textIndex) <=> Fits(p, t, n, textIndex + 1)
  BY <1>2, FitsAtToken DEF n
<1>7. ASSUME starPatternIndex # NoStar
      PROVE  AttemptInv'
  <2>1. AttemptInv
    BY <1>1, <1>7 DEF SearchInv
  <2>2. ASSUME NEW k \in Places(t), starTextIndex <= k, Fits(p, t, starPatternIndex, k)
        PROVE  Fits(p, t, n, k + ((textIndex + 1) - starTextIndex))
    <3> DEFINE l == k + (textIndex - starTextIndex)
    <3>1. Fits(p, t, patternIndex, l)
      BY <2>1, <2>2 DEF AttemptInv, Attempt
    <3>2. l + 1 = k + ((textIndex + 1) - starTextIndex)
      BY <1>1, <1>2 DEF PositionInv, Places
    <3> HIDE DEF l
    <3>3. /\ l \in 1 .. Len(t)
          /\ MatchOne(p, patternIndex, t[l]) # 0
          /\ Fits(p, t, MatchOne(p, patternIndex, t[l]), l + 1)
      BY <1>2, <3>1, FitsAtToken
    <3>4. MatchOne(p, patternIndex, t[l]) = n
      BY <1>2, <3>3, MatchOneEnd DEF n
    <3> QED
      BY <3>2, <3>3, <3>4
  <2>3. Fits(p, t, n, textIndex + 1) => Fits(p, t, starPatternIndex, starTextIndex)
    BY <1>6, <2>1 DEF AttemptInv, Attempt
  <2> HIDE DEF p, t
  <2>4. \A k \in Places(t) :
            starTextIndex <= k /\ Fits(p, t, starPatternIndex, k) =>
                Fits(p, t, n, k + ((textIndex + 1) - starTextIndex))
    BY <2>2
  <2>5. Attempt(p, t, n, textIndex + 1, starPatternIndex, starTextIndex)
    BY ONLY <2>3, <2>4 DEF Attempt
  <2> QED
    BY <1>4, <2>5 DEF AttemptInv, p, t
<1>8. SearchInv'
  <2>1. CASE starPatternIndex = NoStar
    BY <1>1, <1>4, <1>6, <2>1 DEF SearchInv
  <2>2. CASE starPatternIndex # NoStar
    BY <1>1, <1>4, <1>7, <2>2 DEF SearchInv
  <2> QED
    BY <2>1, <2>2
<1> QED
  BY <1>1, <1>4, <1>5, <1>8 DEF GlobInv, ResultIsMeaning

(* Where the next token does not match, the rest does not fit.             *)
LEMMA NothingFits ==
    ASSUME PositionInv, InText, ~AtStar, NextIndex = 0
    PROVE  ~Fits(pattern, text, patternIndex, textIndex)
<1>1. /\ pattern \in Seq(Int) /\ text \in Seq(Int)
      /\ textIndex \in 1 .. Len(text)
      /\ patternIndex \in 1 .. Len(pattern) + 1
  BY DEF PositionInv, InText, Places
<1>2. CASE patternIndex <= Len(pattern)
  <2>1. patternIndex \in 1 .. Len(pattern) /\ pattern[patternIndex] # Star
    BY <1>1, <1>2 DEF AtStar
  <2>2. MatchOne(pattern, patternIndex, text[textIndex]) = 0
    BY <1>1, <1>2 DEF NextIndex
  <2> QED
    BY <1>1, <2>1, <2>2, FitsAtToken
<1>3. CASE patternIndex > Len(pattern)
  <2>1. patternIndex = Len(pattern) + 1 /\ textIndex # Len(text) + 1
    BY <1>1, <1>3
  <2> QED
    BY <1>1, <2>1, FitsAtEnd
<1> QED
  BY <1>1, <1>2, <1>3

(* The star takes one character more: no match is lost, because the place  *)
(* it had did not fit.                                                     *)
LEMMA GlobRestart ==
    ASSUME GlobInv, Restart
    PROVE  GlobInv'
<1> DEFINE p == pattern
           t == text
<1>1. PositionInv /\ SearchInv /\ result = "running" /\ starPatternIndex # NoStar
  BY DEF GlobInv, Restart, InText
<1>2. /\ p \in Seq(Int) /\ t \in Seq(Int)
      /\ textIndex \in 1 .. Len(t)
      /\ starTextIndex \in 1 .. Len(t)
  BY <1>1 DEF Restart, InText, PositionInv, Places
<1>3. /\ pattern' = pattern /\ text' = text /\ result' = result
      /\ patternIndex' = starPatternIndex /\ textIndex' = starTextIndex + 1
      /\ starPatternIndex' = starPatternIndex /\ starTextIndex' = starTextIndex + 1
  BY DEF Restart
<1>4. PositionInv'
  BY <1>1, <1>2, <1>3 DEF PositionInv, Places, NoStar
<1>5. ~Fits(p, t, patternIndex, textIndex)
  BY <1>1, NothingFits DEF Restart
<1>6. AttemptInv /\ (Means(p, t) <=> FitsLater(p, t, starPatternIndex, starTextIndex))
  BY <1>1 DEF SearchInv
<1>7. ~Fits(p, t, starPatternIndex, starTextIndex)
  <2>1. SUFFICES ASSUME Fits(p, t, starPatternIndex, starTextIndex) PROVE FALSE
    OBVIOUS
  <2>2. starTextIndex \in Places(t) /\ starTextIndex <= starTextIndex
    BY <1>2 DEF Places
  <2>3. Fits(p, t, patternIndex, starTextIndex + (textIndex - starTextIndex))
    BY <1>6, <2>1, <2>2 DEF AttemptInv, Attempt
  <2>4. starTextIndex + (textIndex - starTextIndex) = textIndex
    BY <1>2
  <2> QED
    BY <1>5, <2>3, <2>4
<1>8. FitsLater(p, t, starPatternIndex, starTextIndex)
        <=> FitsLater(p, t, starPatternIndex, starTextIndex + 1)
  <2>1. \A k \in Places(t) : starTextIndex + 1 <= k => starTextIndex <= k
    BY <1>2 DEF Places
  <2>2. \A k \in Places(t) : starTextIndex <= k => k = starTextIndex \/ starTextIndex + 1 <= k
    BY <1>2 DEF Places
  <2> QED
    BY <1>7, <2>1, <2>2 DEF FitsLater
<1>9. SearchInv'
  <2>1. \A k \in Places(t) : k + ((starTextIndex + 1) - (starTextIndex + 1)) = k
    BY <1>2 DEF Places
  <2>2. AttemptInv'
    BY <1>3, <2>1 DEF AttemptInv, Attempt
  <2> QED
    BY <1>1, <1>3, <1>6, <1>8, <2>2 DEF SearchInv
<1> QED
  BY <1>1, <1>3, <1>4, <1>9 DEF GlobInv, ResultIsMeaning

(* Without a star there is nothing to come back to.                        *)
LEMMA GlobFail ==
    ASSUME GlobInv, Fail
    PROVE  GlobInv'
<1>1. PositionInv /\ SearchInv /\ starPatternIndex = NoStar
  BY DEF GlobInv, Fail, InText
<1>2. ~Fits(pattern, text, patternIndex, textIndex)
  BY <1>1, NothingFits DEF Fail
<1>3. ~Means(pattern, text)
  BY <1>1, <1>2 DEF SearchInv
<1>4. result' = "mismatch" /\ pattern' = pattern /\ text' = text
  BY DEF Fail
<1>5. PositionInv'
  BY <1>1 DEF Fail, PositionInv
<1>6. ResultIsMeaning'
  <2>1. Means(pattern, text) \in BOOLEAN
    BY MeansType
  <2> QED
    BY <1>3, <1>4, <2>1 DEF ResultIsMeaning
<1> QED
  BY <1>4, <1>5, <1>6 DEF GlobInv

(* At the end of the text the star can take nothing more, and the rest     *)
(* matches when it is stars only.                                          *)
LEMMA GlobEndOfText ==
    ASSUME GlobInv, EndOfText
    PROVE  GlobInv'
<1> DEFINE p == pattern
           t == text
           j == AfterStars(patternIndex)
<1>1. PositionInv /\ SearchInv
  BY DEF GlobInv, EndOfText
<1>2. /\ p \in Seq(Int) /\ t \in Seq(Int) /\ textIndex = Len(t) + 1
      /\ patternIndex \in 1 .. Len(p) + 1
  <2>1. textIndex > Len(t)
    BY DEF EndOfText
  <2> QED
    BY <1>1, <2>1 DEF PositionInv, Places
<1>3. j \in 1 .. Len(p) + 1
  BY <1>2, AfterStarsFacts
<1>4. Fits(p, t, patternIndex, textIndex) <=> j > Len(p)
  BY <1>2, StarsMatchNothing
<1>5. /\ pattern' = pattern /\ text' = text /\ patternIndex' = j
      /\ textIndex' = textIndex /\ starPatternIndex' = starPatternIndex
      /\ starTextIndex' = starTextIndex
      /\ result' = IF j > Len(p) THEN "match" ELSE "mismatch"
  BY DEF EndOfText
<1> HIDE DEF j
<1>6. PositionInv'
  BY <1>1, <1>3, <1>5 DEF PositionInv
<1>7. Means(p, t) <=> Fits(p, t, patternIndex, textIndex)
  <2>1. CASE starPatternIndex = NoStar
    BY <1>1, <2>1 DEF SearchInv
  <2>2. CASE starPatternIndex # NoStar
    <3>1. AttemptInv /\ (Means(p, t) <=> FitsLater(p, t, starPatternIndex, starTextIndex))
      BY <1>1, <2>2 DEF SearchInv
    <3>2. ASSUME Fits(p, t, patternIndex, textIndex)
          PROVE  FitsLater(p, t, starPatternIndex, starTextIndex)
      <4>1. starTextIndex \in Places(t) /\ starTextIndex <= starTextIndex
        BY <1>1 DEF PositionInv, Places
      <4> QED
        BY <3>1, <3>2, <4>1 DEF AttemptInv, Attempt, FitsLater
    <3>3. ASSUME FitsLater(p, t, starPatternIndex, starTextIndex)
          PROVE  Fits(p, t, patternIndex, textIndex)
      <4>1. PICK k \in Places(t) : starTextIndex <= k /\ Fits(p, t, starPatternIndex, k)
        BY <3>3 DEF FitsLater
      <4> DEFINE l == k + (textIndex - starTextIndex)
      <4>2. Fits(p, t, patternIndex, l)
        BY <3>1, <4>1 DEF AttemptInv, Attempt
      <4>3. textIndex <= l
        BY <1>1, <4>1 DEF PositionInv, Places
      <4> HIDE DEF l
      <4>4. l \in Places(t)
        <5>1. patternIndex \in 1 .. Len(p) + 1
          BY <1>2
        <5> HIDE DEF p, t
        <5> QED
          BY <1>2, <4>2, <5>1, FitsInText
      <4>5. l = textIndex
        BY <1>2, <4>3, <4>4 DEF Places
      <4> QED
        BY <4>2, <4>5
    <3> QED
      BY <3>1, <3>2, <3>3
  <2> QED
    BY <2>1, <2>2
<1>8. ResultIsMeaning'
  <2>1. (result' = "match") <=> j > Len(p)
    BY <1>5
  <2>2. Means(p, t) \in BOOLEAN
    BY MeansType
  <2>3. (result' = "match") = Means(p, t)
    BY <1>4, <1>7, <2>1, <2>2
  <2> QED
    BY <1>5, <2>3 DEF ResultIsMeaning
<1>9. result' # "running"
  BY <1>5
<1> QED
  BY <1>6, <1>8, <1>9 DEF GlobInv

(* Every step keeps the invariant.                                         *)
LEMMA GlobStep ==
    ASSUME GlobInv, [Next]_vars
    PROVE  GlobInv'
<1>1. CASE UNCHANGED vars
  BY <1>1 DEF vars, GlobInv, PositionInv, SearchInv, AttemptInv, FitsLater, ResultIsMeaning
<1> QED
  BY <1>1, GlobPassStars, GlobPassToken, GlobRestart, GlobFail, GlobEndOfText DEF Next

(* For every pattern and every text, the matcher's answer is what the      *)
(* pattern means: restarting from the last star alone loses no match and   *)
(* invents none.                                                           *)
THEOREM MatcherIsCorrect == Spec => []ResultIsMeaning
<1>1. Init => GlobInv
  BY GlobInit
<1>2. GlobInv /\ [Next]_vars => GlobInv'
  BY GlobStep
<1>3. GlobInv => ResultIsMeaning
  BY DEF GlobInv
<1> QED
  BY <1>1, <1>2, <1>3, PTL DEF Spec

-----------------------------------------------------------------------------
(* q is p with a character inserted behind place i.                        *)
Inserted(p, i, q) ==
    /\ q \in Seq(Int) /\ Len(q) = Len(p) + 1
    /\ \A k \in i + 1 .. Len(p) : q[k + 1] = p[k]

(* Behind the inserted character atoms and ranges are the same, one place  *)
(* later.                                                                  *)
LEMMA ShiftedAtoms ==
    ASSUME NEW p \in Seq(Int), NEW i \in Nat, NEW q, Inserted(p, i, q),
           NEW k \in i + 1 .. Len(p)
    PROVE  /\ q[k + 1] = p[k]
           /\ IsEscape(q, k + 1) <=> IsEscape(p, k)
           /\ AtomAt(q, k + 1) = AtomAt(p, k)
           /\ AfterAtom(q, k + 1) = AfterAtom(p, k) + 1
           /\ IsRangeAt(q, k + 1) <=> IsRangeAt(p, k)
<1>1. q[k + 1] = p[k] /\ Len(q) = Len(p) + 1
  BY DEF Inserted
<1>2. IsEscape(q, k + 1) <=> IsEscape(p, k)
  BY <1>1 DEF IsEscape
<1>3. AtomAt(q, k + 1) = AtomAt(p, k)
  <2>1. CASE IsEscape(p, k)
    <3>1. k + 1 \in i + 1 .. Len(p)
      BY <2>1 DEF IsEscape
    <3>2. q[k + 1 + 1] = p[k + 1]
      BY <3>1 DEF Inserted
    <3> QED
      BY <1>2, <2>1, <3>2 DEF AtomAt
  <2>2. CASE ~IsEscape(p, k)
    BY <1>1, <1>2, <2>2 DEF AtomAt
  <2> QED
    BY <2>1, <2>2
<1>4. AfterAtom(q, k + 1) = AfterAtom(p, k) + 1
  BY <1>2 DEF AfterAtom
<1>5. IsRangeAt(q, k + 1) <=> IsRangeAt(p, k)
  <2> DEFINE n == AfterAtom(p, k)
  <2>1. n \in k + 1 .. Len(p) + 1
    BY AtomFacts
  <2>2. IsRangeAt(q, k + 1) <=> ~IsEscape(p, k) /\ n + 1 < Len(q) /\ q[n + 1] = Hyphen
    BY <1>2, <1>4 DEF IsRangeAt
  <2>3. IsRangeAt(p, k) <=> ~IsEscape(p, k) /\ n < Len(p) /\ p[n] = Hyphen
    BY DEF IsRangeAt
  <2> HIDE DEF n
  <2>4. n < Len(p) => q[n + 1] = p[n]
    <3>1. n < Len(p) => n \in i + 1 .. Len(p)
      BY <2>1
    <3> QED
      BY <3>1 DEF Inserted
  <2> QED
    BY <1>1, <2>1, <2>2, <2>3, <2>4
<1> QED
  BY <1>1, <1>2, <1>3, <1>4, <1>5

(* Two scans that differ only in where they end.                           *)
ShiftedScan(s, r) ==
    /\ r.closed = s.closed
    /\ r.atoms = s.atoms
    /\ s.closed => r.end = s.end + 1

(* Adding atoms keeps that.                                                *)
LEMMA ShiftedWithAtoms ==
    ASSUME NEW s \in Scans, NEW r \in Scans, NEW A \in SUBSET Int, ShiftedScan(s, r)
    PROVE  ShiftedScan(WithAtoms(s, A), WithAtoms(r, A))
<1>1. /\ WithAtoms(s, A).closed = s.closed /\ WithAtoms(s, A).end = s.end
      /\ WithAtoms(s, A).atoms = s.atoms \cup A
  BY WithAtomsFacts
<1>2. /\ WithAtoms(r, A).closed = r.closed /\ WithAtoms(r, A).end = r.end
      /\ WithAtoms(r, A).atoms = r.atoms \cup A
  BY WithAtomsFacts
<1> QED
  BY <1>1, <1>2 DEF ShiftedScan

(* A class reads the same with a character inserted before it.             *)
LEMMA ShiftedClass ==
    ASSUME NEW p \in Seq(Int), NEW i \in Nat, NEW q, Inserted(p, i, q), i < Len(p)
    PROVE  ShiftedScan(ScanClass(p, i + 1), ScanClass(q, i + 2))
<1> DEFINE N == Len(p) + 2
<1>0. q \in Seq(Int) /\ Len(q) = Len(p) + 1 /\ N \in Nat /\ i + 1 \in 1 .. N /\ i + 2 \in 1 .. N + 1
  BY DEF Inserted
<1>1. PICK f \in [1 .. N -> Scans] : IsScan(f, p, i + 1) /\ ScanClass(p, i + 1) = f[i + 1]
  BY <1>0, ScanExists
<1>2. PICK g \in [1 .. N + 1 -> Scans] : IsScan(g, q, i + 2) /\ ScanClass(q, i + 2) = g[i + 2]
  <2>1. Len(q) + 2 = N + 1 /\ i + 2 \in 1 .. Len(q) + 2
    BY <1>0
  <2>2. \E g \in [1 .. Len(q) + 2 -> Scans] : IsScan(g, q, i + 2) /\ ScanClass(q, i + 2) = g[i + 2]
    BY <1>0, <2>1, ScanExists
  <2> QED
    BY <2>1, <2>2
<1>3. \A k \in 1 .. N : f[k] = ScanAt(p, i + 1, f, k)
  BY <1>1 DEF IsScan
<1>4. \A k \in 1 .. N + 1 : g[k] = ScanAt(q, i + 2, g, k)
  BY <1>0, <1>2 DEF IsScan
<1> DEFINE S == {k \in 1 .. N : k > i => ShiftedScan(f[k], g[k + 1])}
<1>5. ASSUME NEW k \in 1 .. N, \A j \in k + 1 .. N : j \in S
      PROVE  k \in S
  <2>1. SUFFICES ASSUME k > i PROVE ShiftedScan(f[k], g[k + 1])
    OBVIOUS
  <2>2. f[k] = ScanAt(p, i + 1, f, k) /\ g[k + 1] = ScanAt(q, i + 2, g, k + 1)
    BY <1>3, <1>4
  <2>3. CASE k > Len(p)
    <3>1. f[k] = Unclosed /\ g[k + 1] = Unclosed
      BY <1>0, <2>2, <2>3 DEF ScanAt
    <3> QED
      BY <3>1 DEF ShiftedScan, Unclosed
  <2>4. CASE k <= Len(p)
    <3>1. k \in i + 1 .. Len(p) /\ k \in 1 .. Len(p) /\ ~(k + 1 > Len(q))
      BY <1>0, <2>1, <2>4
    <3>2. /\ q[k + 1] = p[k]
          /\ AtomAt(q, k + 1) = AtomAt(p, k)
          /\ AfterAtom(q, k + 1) = AfterAtom(p, k) + 1
          /\ IsRangeAt(q, k + 1) <=> IsRangeAt(p, k)
      BY <3>1, ShiftedAtoms
    <3>3. k = i + 1 <=> k + 1 = i + 2
      OBVIOUS
    <3>4. CASE p[k] = Close /\ k # i + 1
      <4>1. f[k] = [closed |-> TRUE, end |-> k + 1, atoms |-> {}]
        BY <2>2, <3>1, <3>4 DEF ScanAt
      <4>2. g[k + 1] = [closed |-> TRUE, end |-> k + 1 + 1, atoms |-> {}]
        BY <2>2, <3>1, <3>2, <3>3, <3>4 DEF ScanAt
      <4> QED
        BY <4>1, <4>2 DEF ShiftedScan
    <3>5. CASE ~(p[k] = Close /\ k # i + 1) /\ ~IsRangeAt(p, k)
      <4> DEFINE n == AfterAtom(p, k)
                 A == {AtomAt(p, k)}
      <4>1. n \in k + 1 .. N /\ A \in SUBSET Int
        BY <3>1, AtomFacts
      <4>2. f[k] = WithAtoms(f[n], A)
        BY <2>2, <3>1, <3>5 DEF ScanAt
      <4>3. g[k + 1] = WithAtoms(g[n + 1], A)
        BY <2>2, <3>1, <3>2, <3>3, <3>5 DEF ScanAt
      <4> HIDE DEF n, A
      <4>4. n > i /\ n \in S
        BY <1>5, <2>1, <4>1
      <4>5. f[n] \in Scans /\ g[n + 1] \in Scans /\ ShiftedScan(f[n], g[n + 1])
        BY <4>1, <4>4, SMTT(30)
      <4> QED
        BY <4>1, <4>2, <4>3, <4>5, ShiftedWithAtoms
    <3>6. CASE ~(p[k] = Close /\ k # i + 1) /\ IsRangeAt(p, k)
      <4> DEFINE last == AfterAtom(p, k) + 1
                 n == AfterAtom(p, last)
                 A == Between(AtomAt(p, k), AtomAt(p, last))
      <4>1. last \in k + 2 .. Len(p) /\ n \in k + 3 .. Len(p) + 1 /\ A \in SUBSET Int
        BY <3>1, <3>6, RangeFacts
      <4>2. f[k] = IF ClosesAt(p, k, last) THEN [closed |-> TRUE, end |-> n, atoms |-> A]
                   ELSE WithAtoms(f[n], A)
        BY <2>2, <3>1, <3>6 DEF ScanAt
      <4>3. last \in i + 1 .. Len(p)
        BY <2>1, <4>1
      <4>4. /\ IsEscape(q, last + 1) <=> IsEscape(p, last)
            /\ AtomAt(q, last + 1) = AtomAt(p, last)
            /\ AfterAtom(q, last + 1) = n + 1
            /\ ClosesAt(q, k + 1, last + 1) <=> ClosesAt(p, k, last)
        <5>1. /\ IsEscape(q, last + 1) <=> IsEscape(p, last)
              /\ AtomAt(q, last + 1) = AtomAt(p, last)
              /\ AfterAtom(q, last + 1) = n + 1
          BY <4>3, ShiftedAtoms
        <5>2. ClosesAt(q, k + 1, last + 1) <=> ClosesAt(p, k, last)
          BY <3>2, <5>1 DEF ClosesAt
        <5> QED
          BY <5>1, <5>2
      <4>5. AfterAtom(q, k + 1) + 1 = last + 1
        BY <3>2
      <4>6. g[k + 1] = IF ClosesAt(p, k, last) THEN [closed |-> TRUE, end |-> n + 1, atoms |-> A]
                       ELSE WithAtoms(g[n + 1], A)
        BY <2>2, <3>1, <3>2, <3>3, <3>6, <4>4, <4>5 DEF ScanAt
      <4> HIDE DEF last, n, A
      <4>7. n > i /\ n \in S
        BY <1>5, <2>1, <4>1
      <4>8. f[n] \in Scans /\ g[n + 1] \in Scans /\ ShiftedScan(f[n], g[n + 1])
        <5>1. n \in 1 .. N /\ n + 1 \in 1 .. N + 1
          BY <3>1, <4>1
        <5> QED
          BY <4>7, <5>1
      <4>9. CASE ClosesAt(p, k, last)
        BY <4>1, <4>2, <4>6, <4>9 DEF ShiftedScan
      <4>10. CASE ~ClosesAt(p, k, last)
        BY <4>1, <4>2, <4>6, <4>8, <4>10, ShiftedWithAtoms
      <4> QED
        BY <4>9, <4>10
    <3> QED
      BY <3>4, <3>5, <3>6
  <2> QED
    BY <2>3, <2>4
<1>6. 1 .. N \subseteq S
  <2> HIDE DEF S, N
  <2> QED
    BY <1>0, <1>5, DownwardInduction
<1>7. i + 1 \in S /\ i + 1 > i /\ i + 1 + 1 = i + 2
  <2>1. i + 1 > i /\ i + 1 + 1 = i + 2
    OBVIOUS
  <2>2. i + 1 \in S
    <3> HIDE DEF S
    <3> QED
      BY <1>0, <1>6
  <2> QED
    BY <2>1, <2>2
<1>8. ShiftedScan(f[i + 1], g[i + 1 + 1])
  BY <1>7
<1> QED
  BY <1>1, <1>2, <1>7, <1>8

(* A ] at the start of a class is a member of it.                          *)
LEMMA LeadingCloseIsMember ==
    ASSUME NEW p \in Seq(Int), NEW from \in 1 .. Len(p), p[from] = Close
    PROVE  ScanClass(p, from).closed => Close \in ScanClass(p, from).atoms
<1> DEFINE N == Len(p) + 2
<1>1. from \in 1 .. N
  OBVIOUS
<1>2. PICK f \in [1 .. N -> Scans] : IsScan(f, p, from) /\ ScanClass(p, from) = f[from]
  BY <1>1, ScanExists
<1>3. f[from] = ScanAt(p, from, f, from)
  BY <1>1, <1>2 DEF IsScan
<1>4. AtomAt(p, from) = Close
  BY DEF AtomAt, IsEscape, Close, Escape
<1>5. CASE ~IsRangeAt(p, from)
  <2> DEFINE n == AfterAtom(p, from)
  <2>1. f[from] = WithAtoms(f[n], {Close})
    BY <1>3, <1>4, <1>5 DEF ScanAt
  <2>2. n \in 1 .. N /\ {Close} \in SUBSET Int
    BY AtomFacts DEF Close
  <2> HIDE DEF n
  <2>3. f[from].atoms = f[n].atoms \cup {Close}
    BY <2>1, <2>2, WithAtomsFacts
  <2> QED
    BY <1>2, <2>3
<1>6. CASE IsRangeAt(p, from)
  <2> DEFINE last == AfterAtom(p, from) + 1
             n == AfterAtom(p, last)
             A == Between(AtomAt(p, from), AtomAt(p, last))
  <2>1. last \in from + 2 .. Len(p) /\ n \in from + 3 .. Len(p) + 1 /\ A \in SUBSET Int
    BY <1>6, RangeFacts
  <2>2. f[from] = IF ClosesAt(p, from, last) THEN [closed |-> TRUE, end |-> n, atoms |-> A]
                   ELSE WithAtoms(f[n], A)
    BY <1>3, <1>6 DEF ScanAt
  <2>3. Close \in A
    <3>1. AtomAt(p, last) \in Int
      BY <2>1, AtomFacts
    <3> QED
      BY <1>4, <3>1 DEF Between, Close
  <2> HIDE DEF last, n, A
  <2>4. f[from].atoms \in {A, f[n].atoms \cup A}
    <3>1. n \in 1 .. N
      BY <2>1
    <3>2. f[n] \in Scans
      BY <3>1
    <3>3. CASE ClosesAt(p, from, last)
      BY <2>2, <3>3
    <3>4. CASE ~ClosesAt(p, from, last)
      BY <2>1, <2>2, <3>2, <3>4, WithAtomsFacts
    <3> QED
      BY <3>3, <3>4
  <2> QED
    BY <1>2, <2>3, <2>4
<1> QED
  BY <1>5, <1>6

(* What a class matches, with and without ^.                               *)
LEMMA ClassMatches ==
    ASSUME NEW p \in Seq(Int), NEW i \in 1 .. Len(p), p[i] = Open, i < Len(p), NEW c
    PROVE  /\ p[i + 1] # Caret =>
                MatchOne(p, i, c) = IF ScanClass(p, i + 1).closed /\ c \in ScanClass(p, i + 1).atoms
                                    THEN ScanClass(p, i + 1).end ELSE 0
           /\ p[i + 1] = Caret =>
                MatchOne(p, i, c) = IF ScanClass(p, i + 2).closed /\ c \notin ScanClass(p, i + 2).atoms
                                    THEN ScanClass(p, i + 2).end ELSE 0
<1>1. MatchOne(p, i, c) = MatchClass(p, i + 1, c)
  BY DEF MatchOne, Open, Question, Star
<1>2. i + 1 <= Len(p) /\ i + 1 + 1 = i + 2
  OBVIOUS
<1>3. ASSUME p[i + 1] # Caret
      PROVE  MatchClass(p, i + 1, c) = IF ScanClass(p, i + 1).closed /\ c \in ScanClass(p, i + 1).atoms
                                       THEN ScanClass(p, i + 1).end ELSE 0
  BY <1>3 DEF MatchClass
<1>4. ASSUME p[i + 1] = Caret
      PROVE  MatchClass(p, i + 1, c) = IF ScanClass(p, i + 2).closed /\ c \notin ScanClass(p, i + 2).atoms
                                       THEN ScanClass(p, i + 2).end ELSE 0
  BY <1>2, <1>4 DEF MatchClass
<1> QED
  BY <1>1, <1>3, <1>4

(* A pattern with ^ inserted into a class.                                 *)
LEMMA NegatedPattern ==
    ASSUME NEW p \in Seq(Int), NEW i \in 1 .. Len(p), i < Len(p), NEW q,
           q = SubSeq(p, 1, i) \o <<Caret>> \o SubSeq(p, i + 1, Len(p))
    PROVE  Inserted(p, i, q) /\ q[i] = p[i] /\ q[i + 1] = Caret
<1> DEFINE a == SubSeq(p, 1, i)
           b == <<Caret>>
           c == SubSeq(p, i + 1, Len(p))
<1>1. a \in Seq(Int) /\ Len(a) = i /\ \A k \in 1 .. i : a[k] = p[k]
  OBVIOUS
<1>2. b \in Seq(Int) /\ Len(b) = 1 /\ b[1] = Caret
  BY DEF Caret
<1>3. c \in Seq(Int) /\ Len(c) = Len(p) - i /\ \A k \in 1 .. Len(p) - i : c[k] = p[i + k]
  OBVIOUS
<1> HIDE DEF a, b, c
<1>4. /\ a \o b \in Seq(Int) /\ Len(a \o b) = i + 1
      /\ (a \o b)[i] = p[i] /\ (a \o b)[i + 1] = Caret
  <2>1. /\ a \o b \in Seq(Int) /\ Len(a \o b) = Len(a) + Len(b)
        /\ \A k \in 1 .. Len(a) + Len(b) : (a \o b)[k] = IF k <= Len(a) THEN a[k] ELSE b[k - Len(a)]
    BY <1>1, <1>2, ConcatProperties
  <2>2. /\ i \in 1 .. Len(a) + Len(b) /\ i <= Len(a) /\ i \in 1 .. i
        /\ i + 1 \in 1 .. Len(a) + Len(b) /\ ~(i + 1 <= Len(a)) /\ i + 1 - Len(a) = 1
    BY <1>1, <1>2
  <2>3. (a \o b)[i] = a[i] /\ (a \o b)[i + 1] = b[i + 1 - Len(a)]
    BY <2>1, <2>2
  <2> QED
    BY <1>1, <1>2, <2>1, <2>2, <2>3
<1>5. q = (a \o b) \o c
  BY DEF a, b, c
<1> DEFINE d == a \o b
<1> HIDE DEF d
<1>6. /\ q \in Seq(Int) /\ Len(q) = Len(p) + 1
      /\ \A k \in 1 .. Len(p) + 1 : q[k] = IF k <= i + 1 THEN d[k] ELSE c[k - (i + 1)]
  <2>1. d \in Seq(Int) /\ Len(d) = i + 1 /\ q = d \o c
    BY <1>4, <1>5 DEF d
  <2>2. /\ q \in Seq(Int) /\ Len(q) = Len(d) + Len(c)
        /\ \A k \in 1 .. Len(d) + Len(c) : q[k] = IF k <= Len(d) THEN d[k] ELSE c[k - Len(d)]
    <3>1. d \in Seq(Int) /\ c \in Seq(Int)
      BY <1>3, <2>1
    <3>2. /\ d \o c \in Seq(Int) /\ Len(d \o c) = Len(d) + Len(c)
          /\ \A k \in 1 .. Len(d) + Len(c) : (d \o c)[k] = IF k <= Len(d) THEN d[k] ELSE c[k - Len(d)]
      BY ONLY <3>1, ConcatProperties
    <3> QED
      BY <2>1, <3>2
  <2>3. Len(d) + Len(c) = Len(p) + 1
    BY <1>3, <2>1
  <2> QED
    BY <2>1, <2>2, <2>3
<1>7. q[i] = p[i] /\ q[i + 1] = Caret
  <2>1. i \in 1 .. Len(p) + 1 /\ i + 1 \in 1 .. Len(p) + 1 /\ i <= i + 1 /\ i + 1 <= i + 1
    OBVIOUS
  <2>2. q[i] = d[i] /\ q[i + 1] = d[i + 1]
    BY <1>6, <2>1
  <2> QED
    BY <1>4, <2>2 DEF d
<1>8. ASSUME NEW k \in i + 1 .. Len(p)
      PROVE  q[k + 1] = p[k]
  <2>1. k + 1 \in 1 .. Len(p) + 1 /\ ~(k + 1 <= i + 1)
    OBVIOUS
  <2>2. q[k + 1] = c[(k + 1) - (i + 1)]
    BY <1>6, <2>1
  <2>3. (k + 1) - (i + 1) = k - i /\ k - i \in 1 .. Len(p) - i /\ i + (k - i) = k
    OBVIOUS
  <2>4. c[k - i] = p[i + (k - i)]
    BY <1>3, <2>3
  <2> QED
    BY <2>2, <2>3, <2>4
<1> QED
  BY <1>6, <1>7, <1>8 DEF Inserted

(* What a class at i matches in p, and in q, where it has a ^.             *)
OneClass(p, i, q, class) ==
    /\ class.closed => class.end \in Nat \ {0}
    /\ \A c : MatchOne(p, i, c) = IF class.closed /\ c \in class.atoms THEN class.end ELSE 0
    /\ \A c : MatchOne(q, i, c) = IF class.closed /\ c \notin class.atoms THEN class.end + 1 ELSE 0
    /\ p[i + 1] = Close /\ class.closed => Close \in class.atoms

(* With ^ a class matches exactly what it does not match without.          *)
LEMMA ClassIsConsistent ==
    ASSUME pattern \in Seq(Int), NEW i \in 1 .. Len(pattern), pattern[i] = Open,
           i < Len(pattern), pattern[i + 1] # Caret, NEW q,
           q = SubSeq(pattern, 1, i) \o <<Caret>> \o SubSeq(pattern, i + 1, Len(pattern))
    PROVE  OneClass(pattern, i, q, ScanClass(pattern, i + 1))
<1> DEFINE class == ScanClass(pattern, i + 1)
<1>1. Inserted(pattern, i, q) /\ q[i] = pattern[i] /\ q[i + 1] = Caret
  BY NegatedPattern
<1>2. q \in Seq(Int) /\ i \in 1 .. Len(q) /\ i < Len(q)
  <2>1. q \in Seq(Int) /\ Len(q) = Len(pattern) + 1
    BY <1>1 DEF Inserted
  <2>2. Len(pattern) \in Nat /\ i \in 1 .. Len(pattern)
    OBVIOUS
  <2>3. i \in 1 .. Len(pattern) + 1 /\ i < Len(pattern) + 1
    BY ONLY <2>2
  <2> QED
    BY <2>1, <2>3
<1>3. i + 1 \in 1 .. Len(pattern) /\ i + 1 \in 1 .. Len(pattern) + 2
  OBVIOUS
<1>4. class \in Scans /\ (class.closed => class.end \in i + 1 + 1 .. Len(pattern) + 1)
  BY <1>3, ScanEnds
<1>5. ShiftedScan(class, ScanClass(q, i + 2))
  BY <1>1, ShiftedClass
<1>6. ASSUME NEW c
      PROVE  MatchOne(pattern, i, c) = IF class.closed /\ c \in class.atoms THEN class.end ELSE 0
  BY ClassMatches
<1>7. ASSUME NEW c
      PROVE  MatchOne(q, i, c) = IF class.closed /\ c \notin class.atoms THEN class.end + 1 ELSE 0
  <2> DEFINE r == ScanClass(q, i + 2)
  <2>1. MatchOne(q, i, c) = IF r.closed /\ c \notin r.atoms THEN r.end ELSE 0
    BY <1>1, <1>2, ClassMatches
  <2> HIDE DEF r
  <2>2. r.closed = class.closed /\ r.atoms = class.atoms /\ (class.closed => r.end = class.end + 1)
    BY <1>5 DEF ShiftedScan, r
  <2> QED
    BY <2>1, <2>2
<1>8. pattern[i + 1] = Close /\ class.closed => Close \in class.atoms
  BY <1>3, LeadingCloseIsMember
<1> HIDE DEF class
<1>9. class.closed => class.end \in Nat \ {0}
  BY <1>4
<1>10. OneClass(pattern, i, q, class)
  BY <1>6, <1>7, <1>8, <1>9 DEF OneClass
<1> QED
  BY <1>10 DEF class

(* Consistency is about the arguments alone.                               *)
LEMMA PatternIsConsistent ==
    ASSUME pattern \in Seq(Int)
    PROVE  NegationIsComplement
<1>1. SUFFICES ASSUME NEW i \in 1 .. Len(pattern), pattern[i] = Open, i < Len(pattern),
                      pattern[i + 1] # Caret
               PROVE  LET negated == SubSeq(pattern, 1, i) \o <<Caret>> \o SubSeq(pattern, i + 1, Len(pattern))
                          accepts == {c \in Chars : MatchOne(pattern, i, c) # 0}
                          refuses == {c \in Chars : MatchOne(negated, i, c) # 0}
                      IN  /\ accepts \cap refuses = {}
                          /\ accepts \cup refuses \in {{}, Chars}
                          /\ \A c, d \in accepts : MatchOne(pattern, i, c) = MatchOne(pattern, i, d)
                          /\ \A c \in accepts, d \in refuses :
                               MatchOne(negated, i, d) = MatchOne(pattern, i, c) + 1
                          /\ pattern[i + 1] = Close => Close \notin refuses
  BY DEF NegationIsComplement
<1> DEFINE class == ScanClass(pattern, i + 1)
           q == SubSeq(pattern, 1, i) \o <<Caret>> \o SubSeq(pattern, i + 1, Len(pattern))
           accepts == {c \in Chars : MatchOne(pattern, i, c) # 0}
           refuses == {c \in Chars : MatchOne(q, i, c) # 0}
<1>2. /\ class.closed => class.end \in Nat \ {0}
      /\ \A c : MatchOne(pattern, i, c) = IF class.closed /\ c \in class.atoms THEN class.end ELSE 0
      /\ \A c : MatchOne(q, i, c) = IF class.closed /\ c \notin class.atoms THEN class.end + 1 ELSE 0
      /\ pattern[i + 1] = Close /\ class.closed => Close \in class.atoms
  <2>1. OneClass(pattern, i, q, class)
    BY <1>1, ClassIsConsistent
  <2> HIDE DEF class, q
  <2> QED
    BY <2>1 DEF OneClass
<1> HIDE DEF class, q
<1>3. \A c : MatchOne(pattern, i, c) # 0 <=> class.closed /\ c \in class.atoms
  BY <1>2
<1>4. \A c : MatchOne(q, i, c) # 0 <=> class.closed /\ c \notin class.atoms
  BY <1>2
<1>5. accepts = {c \in Chars : class.closed /\ c \in class.atoms}
  BY <1>3
<1>6. refuses = {c \in Chars : class.closed /\ c \notin class.atoms}
  BY <1>4
<1> HIDE DEF accepts, refuses
<1>7. accepts \cap refuses = {} /\ accepts \cup refuses \in {{}, Chars}
  BY <1>5, <1>6
<1>8. \A c \in accepts : MatchOne(pattern, i, c) = class.end
  BY <1>2, <1>5
<1>9. \A d \in refuses : MatchOne(q, i, d) = class.end + 1
  BY <1>2, <1>6
<1>10. pattern[i + 1] = Close => Close \notin refuses
  BY <1>2, <1>6
<1>11. \A c \in accepts, d \in refuses : MatchOne(q, i, d) = MatchOne(pattern, i, c) + 1
  BY <1>8, <1>9
<1>12. \A c, d \in accepts : MatchOne(pattern, i, c) = MatchOne(pattern, i, d)
  BY <1>8
<1> QED
  BY <1>7, <1>10, <1>11, <1>12 DEF q, accepts, refuses

-----------------------------------------------------------------------------
(* p and q have the same length and agree from place m on.                 *)
SameFrom(p, m, q) ==
    /\ q \in Seq(Int) /\ Len(q) = Len(p)
    /\ \A k \in m .. Len(p) : q[k] = p[k]

(* From there on they have the same atoms and the same ranges.             *)
LEMMA SameAtoms ==
    ASSUME NEW p \in Seq(Int), NEW m \in Nat \ {0}, NEW q, SameFrom(p, m, q),
           NEW k \in m .. Len(p)
    PROVE  /\ q[k] = p[k]
           /\ IsEscape(q, k) <=> IsEscape(p, k)
           /\ AtomAt(q, k) = AtomAt(p, k)
           /\ AfterAtom(q, k) = AfterAtom(p, k)
           /\ IsRangeAt(q, k) <=> IsRangeAt(p, k)
<1>1. q[k] = p[k] /\ Len(q) = Len(p)
  BY DEF SameFrom
<1>2. IsEscape(q, k) <=> IsEscape(p, k)
  BY <1>1 DEF IsEscape
<1>3. AtomAt(q, k) = AtomAt(p, k)
  <2>1. CASE IsEscape(p, k)
    <3>1. k + 1 \in m .. Len(p)
      BY <2>1 DEF IsEscape
    <3>2. q[k + 1] = p[k + 1]
      BY <3>1 DEF SameFrom
    <3> QED
      BY <1>2, <2>1, <3>2 DEF AtomAt
  <2>2. CASE ~IsEscape(p, k)
    BY <1>1, <1>2, <2>2 DEF AtomAt
  <2> QED
    BY <2>1, <2>2
<1>4. AfterAtom(q, k) = AfterAtom(p, k)
  BY <1>2 DEF AfterAtom
<1>5. IsRangeAt(q, k) <=> IsRangeAt(p, k)
  <2> DEFINE n == AfterAtom(p, k)
  <2>1. n \in k + 1 .. Len(p) + 1
    BY AtomFacts
  <2>2. IsRangeAt(q, k) <=> ~IsEscape(p, k) /\ n < Len(p) /\ q[n] = Hyphen
    BY <1>1, <1>2, <1>4 DEF IsRangeAt
  <2>3. IsRangeAt(p, k) <=> ~IsEscape(p, k) /\ n < Len(p) /\ p[n] = Hyphen
    BY DEF IsRangeAt
  <2> HIDE DEF n
  <2>4. n < Len(p) => q[n] = p[n]
    <3>1. n < Len(p) => n \in m .. Len(p)
      BY <2>1
    <3> QED
      BY <3>1 DEF SameFrom
  <2> QED
    BY <2>2, <2>3, <2>4
<1> QED
  BY <1>1, <1>2, <1>3, <1>4, <1>5

(* Scans from the same place agree from m on.                              *)
LEMMA SameScan ==
    ASSUME NEW p \in Seq(Int), NEW m \in 1 .. Len(p) + 2, NEW q, SameFrom(p, m, q), NEW from,
           NEW f \in [1 .. Len(p) + 2 -> Scans], IsScan(f, p, from),
           NEW g \in [1 .. Len(p) + 2 -> Scans], IsScan(g, q, from)
    PROVE  f[m] = g[m]
<1> DEFINE N == Len(p) + 2
           S == {k \in 1 .. N : k >= m => f[k] = g[k]}
<1>1. N \in Nat /\ Len(q) = Len(p) /\ m \in Nat \ {0}
  BY DEF SameFrom
<1>2. \A k \in 1 .. N : f[k] = ScanAt(p, from, f, k) /\ g[k] = ScanAt(q, from, g, k)
  BY <1>1 DEF IsScan
<1>3. ASSUME NEW k \in 1 .. N, \A j \in k + 1 .. N : j \in S
      PROVE  k \in S
  <2>1. SUFFICES ASSUME k >= m PROVE f[k] = g[k]
    OBVIOUS
  <2>2. f[k] = ScanAt(p, from, f, k) /\ g[k] = ScanAt(q, from, g, k)
    BY <1>2
  <2>3. \A j \in k + 1 .. Len(p) + 2 : f[j] = g[j] /\ f[j] \in Scans
    BY <1>3, <2>1
  <2>4. ScanAt(p, from, f, k) = ScanAt(p, from, g, k)
    BY <2>3, ScanAtFacts
  <2>5. ScanAt(p, from, g, k) = ScanAt(q, from, g, k)
    <3>1. CASE k > Len(p)
      BY <1>1, <3>1 DEF ScanAt
    <3>2. CASE k <= Len(p)
      <4>1. k \in m .. Len(p) /\ k \in 1 .. Len(p)
        BY <2>1, <3>2
      <4>2. /\ q[k] = p[k] /\ AtomAt(q, k) = AtomAt(p, k) /\ AfterAtom(q, k) = AfterAtom(p, k)
            /\ IsRangeAt(q, k) <=> IsRangeAt(p, k)
        BY <1>1, <4>1, SameAtoms
      <4>3. CASE ~IsRangeAt(p, k)
        BY <1>1, <4>2, <4>3 DEF ScanAt
      <4>4. CASE IsRangeAt(p, k)
        <5> DEFINE last == AfterAtom(p, k) + 1
        <5>1. last \in m .. Len(p)
          BY <2>1, <4>1, <4>4, RangeFacts
        <5>2. /\ IsEscape(q, last) <=> IsEscape(p, last)
              /\ AtomAt(q, last) = AtomAt(p, last) /\ AfterAtom(q, last) = AfterAtom(p, last)
          BY <1>1, <5>1, SameAtoms
        <5>3. ClosesAt(q, k, last) <=> ClosesAt(p, k, last)
          BY <4>2, <5>2 DEF ClosesAt
        <5> QED
          BY <1>1, <4>2, <4>4, <5>2, <5>3 DEF ScanAt
      <4> QED
        BY <4>3, <4>4
    <3> QED
      BY <3>1, <3>2
  <2> QED
    BY <2>2, <2>4, <2>5
<1>4. 1 .. N \subseteq S
  <2> HIDE DEF S, N
  <2> QED
    BY <1>1, <1>3, DownwardInduction
<1>5. m \in S /\ m >= m
  BY <1>4
<1> QED
  BY <1>5

(* A range at i + 1, and q with its ends exchanged.                        *)
IsTurned(p, i, q) ==
    /\ p[i + 2] = Hyphen /\ IsPlain(p[i + 1]) /\ IsPlain(p[i + 3])
    /\ q = [p EXCEPT ![i + 1] = p[i + 3], ![i + 3] = p[i + 1]]

(* Exchanging two places of a pattern.                                     *)
LEMMA TurnedPattern ==
    ASSUME NEW p \in Seq(Int), NEW i \in 1 .. Len(p) - 3, NEW q, IsTurned(p, i, q)
    PROVE  /\ q \in Seq(Int) /\ Len(q) = Len(p) /\ SameFrom(p, i + 4, q) /\ q[i] = p[i]
           /\ q[i + 1] = p[i + 3] /\ q[i + 2] = Hyphen /\ q[i + 3] = p[i + 1]
<1> DEFINE N == Len(p)
<1>1. N \in Nat /\ p \in [1 .. N -> Int] /\ i \in 1 .. N /\ i + 1 \in 1 .. N /\ i + 2 \in 1 .. N /\ i + 3 \in 1 .. N
  OBVIOUS
<1>2. q = [p EXCEPT ![i + 1] = p[i + 3], ![i + 3] = p[i + 1]] /\ p[i + 2] = Hyphen
  BY DEF IsTurned
<1> HIDE DEF N
<1>3. q \in [1 .. N -> Int]
  BY <1>1, <1>2
<1>4. \A k \in 1 .. N : q[k] = IF k = i + 3 THEN p[i + 1] ELSE IF k = i + 1 THEN p[i + 3] ELSE p[k]
  BY <1>1, <1>2
<1>5. q \in Seq(Int) /\ Len(q) = N
  BY <1>1, <1>3
<1>6. \A k \in i + 4 .. N : q[k] = p[k]
  <2>1. ASSUME NEW k \in i + 4 .. N
        PROVE  k \in 1 .. N /\ k # i + 3 /\ k # i + 1
    BY <1>1
  <2> QED
    BY <1>4, <2>1
<1>7. q[i] = p[i] /\ q[i + 1] = p[i + 3] /\ q[i + 2] = p[i + 2] /\ q[i + 3] = p[i + 1]
  <2>1. i # i + 3 /\ i # i + 1 /\ i + 2 # i + 3 /\ i + 2 # i + 1 /\ i + 1 # i + 3
    BY <1>1
  <2> QED
    BY <1>1, <1>4, <2>1
<1> QED
  BY <1>2, <1>5, <1>6, <1>7 DEF N, SameFrom

(* The order of two ends does not matter.                                  *)
LEMMA EndsInOrder ==
    ASSUME NEW x \in Int, NEW y \in Int
    PROVE  /\ Between(x, y) = Between(y, x) /\ LargerOf(x, y) = LargerOf(y, x)
           /\ Between(x, y) \in SUBSET Int
           /\ \A c \in Int : (x <= c /\ c <= y) \/ (y <= c /\ c <= x) => c \in Between(x, y)
BY DEF Between, LargerOf

(* What a class that starts with a range scans to.                         *)
LEMMA LeadingRange ==
    ASSUME NEW p \in Seq(Int), NEW i \in 1 .. Len(p) - 3, p[i + 2] = Hyphen,
           IsPlain(p[i + 1]), IsPlain(p[i + 3]),
           NEW f \in [1 .. Len(p) + 2 -> Scans], IsScan(f, p, i + 1)
    PROVE  f[i + 1] = IF LargerOf(p[i + 1], p[i + 3]) = Close
                      THEN [closed |-> TRUE, end |-> i + 4, atoms |-> Between(p[i + 1], p[i + 3])]
                      ELSE WithAtoms(f[i + 4], Between(p[i + 1], p[i + 3]))
<1>1. i + 1 \in 1 .. Len(p) + 2 /\ ~(i + 1 > Len(p)) /\ i + 2 < Len(p)
  OBVIOUS
<1>2. f[i + 1] = ScanAt(p, i + 1, f, i + 1)
  BY <1>1 DEF IsScan
<1>3. /\ ~IsEscape(p, i + 1) /\ AfterAtom(p, i + 1) = i + 2 /\ AtomAt(p, i + 1) = p[i + 1]
      /\ ~IsEscape(p, i + 3) /\ AfterAtom(p, i + 3) = i + 4 /\ AtomAt(p, i + 3) = p[i + 3]
  BY DEF IsPlain, IsEscape, AfterAtom, AtomAt
<1>4. IsRangeAt(p, i + 1) /\ AfterAtom(p, i + 1) + 1 = i + 3
  BY <1>1, <1>3 DEF IsRangeAt
<1>5. ClosesAt(p, i + 1, i + 3) <=> LargerOf(p[i + 1], p[i + 3]) = Close
  BY <1>3 DEF ClosesAt
<1> QED
  BY <1>1, <1>2, <1>3, <1>4, <1>5 DEF ScanAt

(* A class that starts with a range reads the same with its ends exchanged *)
(* and, if it is closed, has all that lies between them.                   *)
LEMMA TurnedClass ==
    ASSUME NEW p \in Seq(Int), NEW i \in 1 .. Len(p) - 3, NEW q, IsTurned(p, i, q)
    PROVE  /\ ScanClass(q, i + 1) = ScanClass(p, i + 1)
           /\ Between(p[i + 1], p[i + 3]) \subseteq ScanClass(p, i + 1).atoms
<1> DEFINE N == Len(p) + 2
           x == p[i + 1]
           y == p[i + 3]
<1>1. /\ q \in Seq(Int) /\ Len(q) = Len(p) /\ SameFrom(p, i + 4, q)
      /\ q[i + 1] = y /\ q[i + 2] = Hyphen /\ q[i + 3] = x
  <2>1. /\ q \in Seq(Int) /\ Len(q) = Len(p) /\ SameFrom(p, i + 4, q) /\ q[i] = p[i]
        /\ q[i + 1] = p[i + 3] /\ q[i + 2] = Hyphen /\ q[i + 3] = p[i + 1]
    BY TurnedPattern
  <2> QED
    BY <2>1
<1>2. i + 1 \in 1 .. N /\ i + 4 \in 1 .. N /\ x \in Int /\ y \in Int
  OBVIOUS
<1>3. PICK f \in [1 .. N -> Scans] : IsScan(f, p, i + 1) /\ ScanClass(p, i + 1) = f[i + 1]
  BY <1>2, ScanExists
<1>4. PICK g \in [1 .. N -> Scans] : IsScan(g, q, i + 1) /\ ScanClass(q, i + 1) = g[i + 1]
  BY <1>1, <1>2, ScanExists
<1>5. f[i + 4] = g[i + 4] /\ f[i + 4] \in Scans
  BY <1>1, <1>2, <1>3, <1>4, SameScan
<1>6. f[i + 1] = IF LargerOf(x, y) = Close
                 THEN [closed |-> TRUE, end |-> i + 4, atoms |-> Between(x, y)]
                 ELSE WithAtoms(f[i + 4], Between(x, y))
  BY <1>3, LeadingRange DEF IsTurned
<1>7. g[i + 1] = IF LargerOf(y, x) = Close
                 THEN [closed |-> TRUE, end |-> i + 4, atoms |-> Between(y, x)]
                 ELSE WithAtoms(g[i + 4], Between(y, x))
  <2>1. IsPlain(q[i + 1]) /\ IsPlain(q[i + 3]) /\ i \in 1 .. Len(q) - 3
    BY <1>1 DEF IsTurned
  <2> QED
    BY <1>1, <1>4, <2>1, LeadingRange
<1>8. Between(x, y) = Between(y, x) /\ LargerOf(x, y) = LargerOf(y, x) /\ Between(x, y) \in SUBSET Int
  BY <1>2, EndsInOrder
<1> HIDE DEF x, y
<1>9. f[i + 1] = g[i + 1]
  BY <1>5, <1>6, <1>7, <1>8
<1>10. Between(x, y) \subseteq f[i + 1].atoms
  <2>1. WithAtoms(f[i + 4], Between(x, y)).atoms = f[i + 4].atoms \cup Between(x, y)
    BY <1>5, <1>8, WithAtomsFacts
  <2> QED
    BY <1>6, <2>1
<1> QED
  BY <1>3, <1>4, <1>9, <1>10 DEF x, y

(* Reading a range both ways is about the arguments alone.                 *)
LEMMA PatternReadsBothWays ==
    ASSUME pattern \in Seq(Int), text \in Seq(Int)
    PROVE  RangesReadBothWays
<1>1. SUFFICES ASSUME NEW i \in 1 .. Len(pattern) - 3, NEW q,
                      q = [pattern EXCEPT ![i + 1] = pattern[i + 3], ![i + 3] = pattern[i + 1]],
                      pattern[i] = Open, pattern[i + 2] = Hyphen,
                      IsPlain(pattern[i + 1]), IsPlain(pattern[i + 3])
               PROVE  /\ \A c \in Chars : MatchOne(q, i, c) = MatchOne(pattern, i, c)
                      /\ (\E c \in Chars : MatchOne(pattern, i, c) # 0) =>
                           \A c \in Chars : \/ pattern[i + 1] <= c /\ c <= pattern[i + 3]
                                            \/ pattern[i + 3] <= c /\ c <= pattern[i + 1]
                                            => MatchOne(pattern, i, c) # 0
  BY DEF RangesReadBothWays
<1> DEFINE class == ScanClass(pattern, i + 1)
           x == pattern[i + 1]
           y == pattern[i + 3]
<1>2. IsTurned(pattern, i, q)
  BY <1>1, Zenon DEF IsTurned
<1>3. i \in 1 .. Len(pattern) /\ i < Len(pattern)
  OBVIOUS
<1>4. /\ q \in Seq(Int) /\ Len(q) = Len(pattern) /\ q[i] = Open /\ q[i + 1] # Caret
      /\ pattern[i + 1] # Caret
  <2>1. q \in Seq(Int) /\ Len(q) = Len(pattern) /\ q[i] = pattern[i] /\ q[i + 1] = pattern[i + 3]
    BY <1>2, TurnedPattern
  <2> QED
    BY <1>1, <2>1 DEF IsPlain
<1>5. ScanClass(q, i + 1) = class /\ Between(x, y) \subseteq class.atoms
  BY <1>2, TurnedClass
<1>6. ASSUME NEW c
      PROVE  /\ MatchOne(pattern, i, c) = IF class.closed /\ c \in class.atoms THEN class.end ELSE 0
             /\ MatchOne(q, i, c) = IF class.closed /\ c \in class.atoms THEN class.end ELSE 0
  BY <1>1, <1>3, <1>4, <1>5, ClassMatches
<1>7. class.closed => class.end # 0
  <2>1. i + 1 \in 1 .. Len(pattern) + 2
    OBVIOUS
  <2>2. class.closed => class.end \in i + 1 + 1 .. Len(pattern) + 1
    BY <2>1, ScanEnds
  <2> HIDE DEF class
  <2> QED
    BY <2>2
<1>8. x \in Int /\ y \in Int /\ Chars \subseteq Int
  BY DEF Chars
<1>9. \A c \in Int : (x <= c /\ c <= y) \/ (y <= c /\ c <= x) => c \in Between(x, y)
  BY <1>8, EndsInOrder
<1> HIDE DEF class
<1>10. ASSUME NEW c \in Chars, MatchOne(pattern, i, c) # 0, NEW d \in Chars, d \in Between(x, y)
      PROVE  MatchOne(pattern, i, d) # 0
  BY <1>5, <1>6, <1>7, <1>10
<1> QED
  BY <1>6, <1>8, <1>9, <1>10

(* For every pattern, a class ends at the same place whatever it matches,  *)
(* [^...] accepts exactly what [...] refuses, one that is not closed       *)
(* accepts nothing, a leading ] is a member, and a range at the start of a *)
(* class reads the same backwards and forwards, its ends included.         *)
THEOREM ClassesReadConsistently == Spec => []ClassesAreConsistent
<1>1. Init => GlobInv
  BY GlobInit
<1>2. GlobInv /\ [Next]_vars => GlobInv'
  BY GlobStep
<1>3. GlobInv => ClassesAreConsistent
  BY PatternIsConsistent, PatternReadsBothWays DEF GlobInv, PositionInv, ClassesAreConsistent
<1> QED
  BY <1>1, <1>2, <1>3, PTL DEF Spec

-----------------------------------------------------------------------------
(* Sets whose members are paired have the same size.                       *)
LEMMA SameSize ==
    ASSUME NEW A, NEW B, NEW f \in [A -> B], IsFiniteSet(A),
           \A a, b \in A : f[a] = f[b] => a = b, \A b \in B : \E a \in A : f[a] = b
    PROVE  IsFiniteSet(B) /\ Cardinality(B) = Cardinality(A)
<1>1. f \in Injection(A, B)
  BY Fun_IsInj
<1>2. f \in Surjection(A, B)
  BY Fun_IsSurj
<1>3. ExistsBijection(A, B)
  BY <1>1, <1>2 DEF ExistsBijection, Bijection
<1> QED
  BY <1>3, FS_Bijection

(* Sorting.  R orders S strictly and totally.                              *)
StrictOrder(S, R) ==
    /\ \A a \in S : <<a, a>> \notin R
    /\ \A a, b \in S : a = b \/ <<a, b>> \in R \/ <<b, a>> \in R
    /\ \A a, b, c \in S : <<a, b>> \in R /\ <<b, c>> \in R => <<a, c>> \in R

(* s lists the n members of S in the order R.                              *)
Lists(s, S, R, n) ==
    /\ s \in [1 .. n -> S]
    /\ \A i \in 1 .. n : \A j \in i + 1 .. n : <<s[i], s[j]>> \in R
    /\ \A m \in S : \E i \in 1 .. n : s[i] = m

(* A list takes one more member.                                           *)
LEMMA ListInserts ==
    ASSUME NEW S, NEW R, NEW n \in Nat, NEW s, Lists(s, S, R, n), NEW x, x \notin S,
           StrictOrder(S \cup {x}, R)
    PROVE  \E t : Lists(t, S \cup {x}, R, n + 1)
<1> DEFINE Hits == {k \in Nat : <<x, s[k + 1]>> \in R}
<1>1. PICK k \in 0 .. n : /\ \A m \in 0 .. k - 1 : m \notin Hits
                          /\ k < n => k \in Hits
  <2> HIDE DEF Hits
  <2> QED
    BY FirstNumber
<1>2. k \in Nat /\ k <= n
  BY <1>1
<1>3. \A i \in 1 .. n : s[i] \in S /\ s[i] # x
  BY DEF Lists
<1>4. ASSUME NEW i \in 1 .. k
      PROVE  <<s[i], x>> \in R
  <2>1. i - 1 \in 0 .. k - 1 /\ i \in 1 .. n /\ (i - 1) + 1 = i /\ i - 1 \in Nat
    BY <1>2
  <2>2. ~(<<x, s[i]>> \in R)
    BY <1>1, <2>1
  <2> QED
    BY <1>3, <2>1, <2>2 DEF StrictOrder
<1>5. ASSUME NEW i \in k + 1 .. n
      PROVE  <<x, s[i]>> \in R
  <2>1. k < n /\ k + 1 \in 1 .. n /\ i \in 1 .. n
    BY <1>2
  <2>2. <<x, s[k + 1]>> \in R
    BY <1>1, <2>1
  <2>3. CASE i = k + 1
    BY <2>2, <2>3
  <2>4. CASE i # k + 1
    <3>1. i \in (k + 1) + 1 .. n
      BY <1>2, <2>4
    <3>2. <<s[k + 1], s[i]>> \in R
      BY <2>1, <3>1 DEF Lists
    <3> QED
      BY <1>3, <2>1, <2>2, <3>2 DEF StrictOrder
  <2> QED
    BY <2>3, <2>4
<1> DEFINE t == [j \in 1 .. n + 1 |-> IF j <= k THEN s[j] ELSE IF j = k + 1 THEN x ELSE s[j - 1]]
<1>6. t \in [1 .. n + 1 -> S \cup {x}]
  <2>1. ASSUME NEW j \in 1 .. n + 1
        PROVE  (IF j <= k THEN s[j] ELSE IF j = k + 1 THEN x ELSE s[j - 1]) \in S \cup {x}
    <3>1. j <= k => j \in 1 .. n
      BY <1>2
    <3>2. ~(j <= k) /\ j # k + 1 => j - 1 \in 1 .. n
      BY <1>2
    <3> QED
      BY <1>3, <3>1, <3>2
  <2> QED
    BY <2>1
<1>7. \A j \in 1 .. n + 1 : t[j] = IF j <= k THEN s[j] ELSE IF j = k + 1 THEN x ELSE s[j - 1]
  OBVIOUS
<1> HIDE DEF t
<1>8. ASSUME NEW i \in 1 .. n + 1, NEW j \in i + 1 .. n + 1
      PROVE  <<t[i], t[j]>> \in R
  <2>1. j \in 1 .. n + 1 /\ i \in Nat /\ j \in Nat /\ i < j
    OBVIOUS
  <2>2. CASE j <= k
    <3>1. i <= k /\ i \in 1 .. n /\ j \in i + 1 .. n
      BY <1>2, <2>1, <2>2
    <3> QED
      BY <1>7, <2>1, <2>2, <3>1 DEF Lists
  <2>3. CASE j = k + 1
    <3>1. i \in 1 .. k /\ i <= k /\ ~(j <= k)
      BY <1>2, <2>1, <2>3
    <3> QED
      BY <1>4, <1>7, <2>1, <2>3, <3>1
  <2>4. CASE j > k + 1
    <3>1. t[j] = s[j - 1] /\ j - 1 \in 1 .. n /\ j - 1 \in k + 1 .. n
      BY <1>2, <1>7, <2>1, <2>4
    <3>2. CASE i <= k
      <4>1. t[i] = s[i] /\ i \in 1 .. n /\ j - 1 \in i + 1 .. n
        BY <1>2, <1>7, <2>1, <2>4, <3>2
      <4> QED
        BY <3>1, <4>1 DEF Lists
    <3>3. CASE i = k + 1
      <4>1. t[i] = x
        BY <1>2, <1>7, <3>3
      <4> QED
        BY <1>5, <3>1, <4>1
    <3>4. CASE i > k + 1
      <4>1. t[i] = s[i - 1] /\ i - 1 \in 1 .. n /\ j - 1 \in (i - 1) + 1 .. n
        BY <1>2, <1>7, <2>1, <3>4
      <4> QED
        BY <3>1, <4>1 DEF Lists
    <3> QED
      BY <1>2, <2>1, <3>2, <3>3, <3>4
  <2> QED
    BY <1>2, <2>1, <2>2, <2>3, <2>4
<1>9. ASSUME NEW m \in S \cup {x}
      PROVE  \E i \in 1 .. n + 1 : t[i] = m
  <2>1. CASE m = x
    <3>1. k + 1 \in 1 .. n + 1 /\ t[k + 1] = x
      BY <1>2, <1>7
    <3> QED
      BY <2>1, <3>1
  <2>2. CASE m # x
    <3>1. PICK i \in 1 .. n : s[i] = m
      BY <2>2 DEF Lists
    <3>2. CASE i <= k
      <4>1. i \in 1 .. n + 1 /\ t[i] = s[i]
        BY <1>2, <1>7, <3>2
      <4> QED
        BY <3>1, <4>1
    <3>3. CASE i > k
      <4>1. i + 1 \in 1 .. n + 1 /\ ~(i + 1 <= k) /\ i + 1 # k + 1 /\ (i + 1) - 1 = i
        BY <1>2, <3>3
      <4>2. t[i + 1] = s[i]
        BY <1>7, <4>1
      <4> QED
        BY <3>1, <4>1, <4>2
    <3> QED
      BY <1>2, <3>2, <3>3
  <2> QED
    BY <2>1, <2>2
<1> QED
  BY <1>6, <1>8, <1>9 DEF Lists

(* Every finite set with a strict total order can be sorted.               *)
LEMMA ListExists ==
    ASSUME NEW S, IsFiniteSet(S), NEW R, StrictOrder(S, R)
    PROVE  \E s : Lists(s, S, R, Cardinality(S))
<1> DEFINE Listed(T) == \E s : Lists(s, T, R, Cardinality(T))
           N == {n \in Nat : \A T \in SUBSET S : Cardinality(T) = n => Listed(T)}
<1>1. \A T \in SUBSET S : IsFiniteSet(T) /\ Cardinality(T) \in Nat
  BY FS_Subset, FS_CardinalityType
<1>2. 0 \in N
  <2>1. ASSUME NEW T \in SUBSET S, Cardinality(T) = 0
        PROVE  Listed(T)
    <3>1. T = {}
      BY <1>1, <2>1, FS_EmptySet
    <3>2. \A i \in 1 .. 0 : FALSE
      OBVIOUS
    <3>3. Lists([i \in 1 .. 0 |-> 0], {}, R, 0)
      BY <3>2 DEF Lists
    <3> QED
      BY <2>1, <3>1, <3>3
  <2> HIDE DEF Listed
  <2> QED
    BY <2>1
<1>3. ASSUME NEW n \in Nat, n \in N
      PROVE  n + 1 \in N
  <2>1. ASSUME NEW T \in SUBSET S, Cardinality(T) = n + 1
        PROVE  Listed(T)
    <3>1. PICK x \in T : TRUE
      BY <2>1, FS_EmptySet
    <3>2. T \ {x} \in SUBSET S /\ Cardinality(T \ {x}) = n
      <4>1. Cardinality(T \ {x}) = Cardinality(T) - 1
        BY <1>1, <3>1, FS_RemoveElement
      <4> QED
        BY <2>1, <4>1
    <3>3. PICK s : Lists(s, T \ {x}, R, n)
      BY <1>3, <3>2
    <3>4. (T \ {x}) \cup {x} = T /\ x \notin T \ {x}
      BY <3>1
    <3>5. StrictOrder(T, R)
      BY DEF StrictOrder
    <3>6. \E t : Lists(t, (T \ {x}) \cup {x}, R, n + 1)
      BY <3>3, <3>4, <3>5, ListInserts
    <3> QED
      BY <2>1, <3>4, <3>6
  <2> HIDE DEF Listed
  <2> QED
    BY <2>1
<1>4. Nat \subseteq N
  <2> HIDE DEF N
  <2> QED
    BY <1>2, <1>3, SetInduction
<1>5. S \in SUBSET S
  OBVIOUS
<1> QED
  BY <1>1, <1>4, <1>5

(* A list has every member at one place, and as many members before it as  *)
(* places.                                                                 *)
LEMMA ListPlaces ==
    ASSUME NEW S, NEW R, NEW n \in Nat, NEW s, Lists(s, S, R, n), StrictOrder(S, R)
    PROVE  /\ \A i, j \in 1 .. n : s[i] = s[j] => i = j
           /\ \A i \in 1 .. n : Cardinality({o \in S : <<o, s[i]>> \in R}) = i - 1
<1>1. \A i \in 1 .. n : s[i] \in S
  BY DEF Lists
<1>2. ASSUME NEW i \in 1 .. n, NEW j \in 1 .. n, s[i] = s[j]
      PROVE  i = j
  <2>1. CASE i < j
    <3>1. j \in i + 1 .. n
      BY <2>1
    <3>2. <<s[i], s[j]>> \in R
      BY <3>1 DEF Lists
    <3> QED
      BY <1>1, <1>2, <3>2 DEF StrictOrder
  <2>2. CASE j < i
    <3>1. i \in j + 1 .. n
      BY <2>2
    <3>2. <<s[j], s[i]>> \in R
      BY <3>1 DEF Lists
    <3> QED
      BY <1>1, <1>2, <3>2 DEF StrictOrder
  <2> QED
    BY <2>1, <2>2
<1>3. ASSUME NEW i \in 1 .. n
      PROVE  Cardinality({o \in S : <<o, s[i]>> \in R}) = i - 1
  <2> DEFINE P == {o \in S : <<o, s[i]>> \in R}
             f == [j \in 1 .. i - 1 |-> s[j]]
  <2>1. ASSUME NEW j \in 1 .. i - 1
        PROVE  s[j] \in P /\ j \in 1 .. n
    <3>1. j \in 1 .. n /\ i \in j + 1 .. n
      OBVIOUS
    <3>2. <<s[j], s[i]>> \in R
      BY <3>1 DEF Lists
    <3> QED
      BY <1>1, <3>1, <3>2
  <2>2. ASSUME NEW o \in P
        PROVE  \E j \in 1 .. i - 1 : s[j] = o
    <3>1. PICK j \in 1 .. n : s[j] = o
      BY DEF Lists
    <3>2. CASE j = i
      BY <1>1, <3>1, <3>2 DEF StrictOrder
    <3>3. CASE j > i
      <4>1. j \in i + 1 .. n
        BY <3>3
      <4>2. <<s[i], s[j]>> \in R
        BY <4>1 DEF Lists
      <4>3. <<s[i], s[i]>> \in R
        BY <1>1, <3>1, <4>2 DEF StrictOrder
      <4> QED
        BY <1>1, <4>3 DEF StrictOrder
    <3>4. CASE j < i
      BY <3>1, <3>4
    <3> QED
      BY <3>2, <3>3, <3>4
  <2> HIDE DEF P
  <2>3. /\ f \in [1 .. i - 1 -> P] /\ \A a, b \in 1 .. i - 1 : f[a] = f[b] => a = b
        /\ \A o \in P : \E j \in 1 .. i - 1 : f[j] = o
    BY <1>2, <2>1, <2>2
  <2>4. IsFiniteSet(1 .. i - 1) /\ Cardinality(1 .. i - 1) = i - 1
    <3>1. 1 \in Int /\ i - 1 \in Int
      OBVIOUS
    <3>2. IsFiniteSet(1 .. i - 1) /\ Cardinality(1 .. i - 1) = IF 1 > i - 1 THEN 0 ELSE (i - 1) - 1 + 1
      BY <3>1, FS_Interval
    <3> QED
      BY <3>2
  <2>5. Cardinality(P) = Cardinality(1 .. i - 1)
    <3> HIDE DEF f
    <3> QED
      BY <2>3, <2>4, SameSize
  <2> QED
    BY <2>4, <2>5 DEF P
<1> QED
  BY <1>2, <1>3

-----------------------------------------------------------------------------
(* The reads of a sorted set.                                              *)
(* A sorted set is finite and its members and scores are numbers, so the   *)
(* comparisons the sorts are given are strict and total.                   *)
LEMMA OrdersAreStrict ==
    ASSUME NEW z \in ZSets
    PROVE  /\ StrictOrder(DOMAIN z, LexOrder(z))
           /\ StrictOrder(DOMAIN z, ScoreOrder(z))
           /\ IsFiniteSet(DOMAIN z)
           /\ Cardinality(DOMAIN z) \in Nat
           /\ \A m \in DOMAIN z : m \in Int /\ z[m] \in -ScoreLimit .. ScoreLimit
<1>1. PICK S \in SUBSET ZMembers : z \in [S -> ZScores]
  BY DEF ZSets
<1>2. \A m \in DOMAIN z : m \in Int /\ z[m] \in Int
  BY <1>1, ReadAssumption DEF ZScores
<1>3. IsFiniteSet(DOMAIN z)
  BY <1>1, FS_Subset, ReadAssumption
<1>4. StrictOrder(DOMAIN z, LexOrder(z))
  BY <1>2 DEF StrictOrder, LexOrder
<1>5. StrictOrder(DOMAIN z, ScoreOrder(z))
  <2>1. ASSUME NEW a \in DOMAIN z, NEW b \in DOMAIN z
        PROVE  <<a, b>> \in ScoreOrder(z) <=> z[a] < z[b] \/ (z[a] = z[b] /\ a < b)
    BY <1>2 DEF ScoreOrder
  <2>2. ASSUME NEW a \in DOMAIN z
        PROVE  <<a, a>> \notin ScoreOrder(z)
    BY <1>2, <2>1
  <2>3. ASSUME NEW a \in DOMAIN z, NEW b \in DOMAIN z
        PROVE  a = b \/ <<a, b>> \in ScoreOrder(z) \/ <<b, a>> \in ScoreOrder(z)
    BY <1>2, <2>1
  <2>4. ASSUME NEW a \in DOMAIN z, NEW b \in DOMAIN z, NEW c \in DOMAIN z,
               <<a, b>> \in ScoreOrder(z), <<b, c>> \in ScoreOrder(z)
        PROVE  <<a, c>> \in ScoreOrder(z)
    <3>1. z[a] \in Int /\ z[b] \in Int /\ z[c] \in Int /\ a \in Int /\ b \in Int /\ c \in Int
      BY <1>2
    <3>2. /\ z[a] < z[b] \/ (z[a] = z[b] /\ a < b)
          /\ z[b] < z[c] \/ (z[b] = z[c] /\ b < c)
      BY <2>1, <2>4
    <3>3. z[a] < z[c] \/ (z[a] = z[c] /\ a < c)
      BY <3>1, <3>2
    <3> QED
      BY <2>1, <3>3
  <2> QED
    BY <2>2, <2>3, <2>4 DEF StrictOrder
<1>6. \A m \in DOMAIN z : m \in Int /\ z[m] \in -ScoreLimit .. ScoreLimit
  BY <1>1, ReadAssumption DEF ZScores
<1> QED
  BY <1>3, <1>4, <1>5, <1>6, FS_CardinalityType

(* The sort of a set by a strict total order lists it.                     *)
LEMMA SortedLists ==
    ASSUME NEW S, IsFiniteSet(S), NEW R, StrictOrder(S, R)
    PROVE  Lists(Sorted(S, R), S, R, Cardinality(S))
<1>1. Cardinality(S) = Cardinality(S)
  BY DEF Cardinality
<1> DEFINE n == Cardinality(S)
           Listing(s) == /\ \A i \in DOMAIN s : \A j \in i + 1 .. n : <<s[i], s[j]>> \in R
                         /\ \A m \in S : \E i \in DOMAIN s : s[i] = m
<1>2. PICK s : Lists(s, S, R, n)
  BY ListExists
<1>3. s \in [1 .. n -> S] /\ Listing(s)
  BY <1>2 DEF Lists
<1>4. Sorted(S, R) = CHOOSE t \in [1 .. n -> S] : Listing(t)
  BY <1>1 DEF Sorted
<1> HIDE DEF n, Listing
<1>5. Sorted(S, R) \in [1 .. n -> S] /\ Listing(Sorted(S, R))
  BY <1>3, <1>4
<1> QED
  BY <1>5 DEF Lists, Listing, n

(* What the sorts of a sorted set give.                                    *)
LEMMA EntriesFacts ==
    ASSUME NEW z \in ZSets
    PROVE  /\ Lists(EntriesByScore(z), DOMAIN z, ScoreOrder(z), Cardinality(DOMAIN z))
           /\ EntriesByScore(z) \in Seq(DOMAIN z)
           /\ Len(EntriesByScore(z)) = Cardinality(DOMAIN z)
           /\ EntriesByLex(z) \in Seq(DOMAIN z)
<1>1. \A s, R : Lists(s, DOMAIN z, R, Cardinality(DOMAIN z))
                  => s \in Seq(DOMAIN z) /\ Len(s) = Cardinality(DOMAIN z)
  BY OrdersAreStrict DEF Lists
<1>2. Lists(EntriesByScore(z), DOMAIN z, ScoreOrder(z), Cardinality(DOMAIN z))
  BY OrdersAreStrict, SortedLists DEF EntriesByScore
<1>3. Lists(EntriesByLex(z), DOMAIN z, LexOrder(z), Cardinality(DOMAIN z))
  BY OrdersAreStrict, SortedLists DEF EntriesByLex
<1> QED
  BY <1>1, <1>2, <1>3

(* Reverse reads a sequence from its end.                                  *)
LEMMA ReverseFacts ==
    ASSUME NEW V, NEW e \in Seq(V)
    PROVE  /\ Reverse(e) \in Seq(V)
           /\ Len(Reverse(e)) = Len(e)
           /\ \A i \in 1 .. Len(e) : Reverse(e)[i] = e[(Len(e) - i) + 1]
<1>1. Len(e) \in Nat /\ \A i \in 1 .. Len(e) : e[i] \in V
  OBVIOUS
<1>2. \A i \in 1 .. Len(e) : (Len(e) - i) + 1 \in 1 .. Len(e)
  BY <1>1
<1>3. Reverse(e) = [i \in 1 .. Len(e) |-> e[(Len(e) - i) + 1]]
  BY DEF Reverse
<1>4. Reverse(e) \in [1 .. Len(e) -> V]
  BY <1>1, <1>2, <1>3
<1> QED
  BY <1>1, <1>3, <1>4

(* The loop that filters keeps one entry for every place it wants.         *)
LEMMA FilteredFacts ==
    ASSUME NEW V, NEW e \in Seq(V), NEW W
    PROVE  /\ Filtered(e, W) \in Seq(V)
           /\ Len(Filtered(e, W)) = Cardinality({i \in 1 .. Len(e) : e[i] \in W})
<1>1. PICK N \in Nat : N = Len(e)
  OBVIOUS
<1>2. PICK U : U = Seq(V)
  OBVIOUS
<1>3. \A n \in 1 .. N : e[n] \in V
  BY <1>1
<1> DEFINE Take(n, v) == IF e[n] \in W THEN Append(v, e[n]) ELSE v
           step == [p \in Nat \X U |-> IF p[1] \in 1 .. N THEN Take(p[1], p[2]) ELSE p[2]]
<1>4. \A n \in 1 .. N : \A v \in U : Take(n, v) \in U
  BY <1>2, <1>3
<1>5. step \in [Nat \X U -> U]
  <2> HIDE DEF Take
  <2>1. ASSUME NEW n \in Nat, NEW v \in U
        PROVE  (IF n \in 1 .. N THEN Take(n, v) ELSE v) \in U
    BY <1>4
  <2> QED
    BY <2>1
<1>6. ASSUME NEW n \in 1 .. N, NEW v \in U
      PROVE  step[<<n, v>>] = Take(n, v)
  <2> HIDE DEF Take
  <2>1. <<n, v>> \in Nat \X U /\ <<n, v>>[1] = n /\ <<n, v>>[2] = v
    BY <1>1
  <2> QED
    BY <2>1
<1>7. <<>> \in U
  BY <1>2
<1> HIDE DEF step
<1>8. PICK f \in [0 .. N -> U] : IsRecursion(f, N, <<>>, step)
  BY <1>5, <1>7, PartialRecursion
<1> DEFINE Def(h) == h = [n \in 0 .. Len(e) |-> IF n = 0 THEN <<>>
                                                ELSE IF e[n] \in W THEN Append(h[n - 1], e[n])
                                                ELSE h[n - 1]]
           kept == CHOOSE h : Def(h)
<1>9. Def(f)
  <2>1. ASSUME NEW n \in 0 .. N
        PROVE  f[n] = IF n = 0 THEN <<>> ELSE Take(n, f[n - 1])
    <3> HIDE DEF Take
    <3>1. CASE n = 0
      BY <1>8, <3>1 DEF IsRecursion
    <3>2. CASE n # 0
      <4>1. f[n] = step[<<n, f[n - 1]>>] /\ n \in 1 .. N /\ f[n - 1] \in U
        BY <1>8, <3>2 DEF IsRecursion
      <4> QED
        BY <1>6, <3>2, <4>1
    <3> QED
      BY <3>1, <3>2
  <2> QED
    BY <1>1, <1>8, <2>1
<1>10. Def(kept)
  <2> HIDE DEF Def
  <2> QED
    BY <1>9
<1>11. Filtered(e, W) = kept[N]
  BY <1>1 DEF Filtered
<1> HIDE DEF kept
<1>12. kept = [n \in 0 .. N |-> IF n = 0 THEN <<>> ELSE Take(n, kept[n - 1])]
  BY <1>1, <1>10
<1> HIDE DEF Def
<1>13. \A n \in 0 .. N : kept[n] = IF n = 0 THEN <<>> ELSE Take(n, kept[n - 1])
  <2> HIDE DEF Take
  <2> QED
    BY <1>12
<1> DEFINE Wanted(n) == {i \in 1 .. n : e[i] \in W}
           S == {n \in Nat : n <= N => /\ kept[n] \in Seq(V) /\ IsFiniteSet(Wanted(n))
                                       /\ Len(kept[n]) = Cardinality(Wanted(n))}
<1>14. 0 \in S
  <2>1. Wanted(0) = {}
    OBVIOUS
  <2>2. kept[0] = <<>>
    BY <1>13
  <2> HIDE DEF Wanted
  <2> QED
    BY <2>1, <2>2, FS_EmptySet
<1>15. ASSUME NEW n \in Nat, n \in S
       PROVE  n + 1 \in S
  <2>1. SUFFICES ASSUME n + 1 <= N
                 PROVE  /\ kept[n + 1] \in Seq(V) /\ IsFiniteSet(Wanted(n + 1))
                        /\ Len(kept[n + 1]) = Cardinality(Wanted(n + 1))
    OBVIOUS
  <2>2. n + 1 \in 0 .. N /\ n + 1 # 0 /\ (n + 1) - 1 = n /\ n + 1 \in 1 .. N
    BY <1>1, <2>1
  <2>3. kept[n + 1] = Take(n + 1, kept[n])
    BY <1>13, <2>2
  <2>4. kept[n] \in Seq(V) /\ IsFiniteSet(Wanted(n)) /\ Len(kept[n]) = Cardinality(Wanted(n))
    BY <1>15, <2>2
  <2>5. CASE e[n + 1] \in W
    <3>1. Wanted(n + 1) = Wanted(n) \cup {n + 1} /\ n + 1 \notin Wanted(n)
      BY <2>5
    <3>2. kept[n + 1] = Append(kept[n], e[n + 1])
      BY <2>3, <2>5
    <3> HIDE DEF Wanted
    <3>3. IsFiniteSet(Wanted(n + 1)) /\ Cardinality(Wanted(n + 1)) = Cardinality(Wanted(n)) + 1
      BY <2>4, <3>1, FS_AddElement
    <3> QED
      BY <1>3, <2>2, <2>4, <3>2, <3>3
  <2>6. CASE e[n + 1] \notin W
    <3>1. Wanted(n + 1) = Wanted(n)
      BY <2>6
    <3> QED
      BY <2>3, <2>4, <2>6, <3>1
  <2> QED
    BY <2>5, <2>6
<1>16. N \in S
  <2> HIDE DEF S
  <2> QED
    BY <1>14, <1>15, SetInduction
<1> QED
  BY <1>1, <1>11, <1>16

(* Filtering a list keeps every wanted member once.                        *)
LEMMA FilteredCount ==
    ASSUME NEW S, NEW R, NEW n \in Nat, NEW s, Lists(s, S, R, n), StrictOrder(S, R),
           s \in Seq(S), Len(s) = n, NEW W, W \subseteq S
    PROVE  Len(Filtered(s, W)) = Cardinality(W)
<1> DEFINE I == {i \in 1 .. n : s[i] \in W}
           f == [i \in I |-> s[i]]
<1>1. IsFiniteSet(I)
  <2>1. IsFiniteSet(1 .. n)
    BY FS_Interval
  <2> QED
    BY <2>1, FS_Subset
<1>2. /\ f \in [I -> W] /\ \A a, b \in I : f[a] = f[b] => a = b
      /\ \A m \in W : \E i \in I : f[i] = m
  <2>1. \A a, b \in 1 .. n : s[a] = s[b] => a = b
    BY ListPlaces
  <2>2. ASSUME NEW m \in W
        PROVE  \E i \in I : f[i] = m
    BY DEF Lists
  <2> QED
    BY <2>1, <2>2
<1>3. Cardinality(W) = Cardinality(I)
  <2> HIDE DEF I, f
  <2> QED
    BY <1>1, <1>2, SameSize
<1> QED
  BY <1>3, FilteredFacts

(* The ranks a window reads: a negative index counts from the end, and the *)
(* window is cut to the ranks there are.                                   *)
RankFrom(a, n) == IF a < 0 THEN a + n ELSE a
LowestRank(a, n) == IF RankFrom(a, n) < 0 THEN 0 ELSE RankFrom(a, n)
HighestRank(b, n) == IF RankFrom(b, n) >= n THEN n - 1 ELSE RankFrom(b, n)

(* r is the entries of e with the ranks lo to hi.                          *)
IsWindow(r, e, lo, hi) ==
    /\ lo > hi => r = <<>>
    /\ lo <= hi => /\ Len(r) = (hi - lo) + 1
                   /\ \A i \in 1 .. (hi - lo) + 1 : r[i] = e[lo + i]

(* A window's ranks are numbers below the size.                            *)
LEMMA RankTypes ==
    ASSUME NEW a \in Int, NEW n \in Nat
    PROVE  /\ RankFrom(a, n) \in Int
           /\ LowestRank(a, n) \in Nat
           /\ HighestRank(a, n) \in Int
           /\ HighestRank(a, n) <= n - 1
BY DEF RankFrom, LowestRank, HighestRank

(* The window is what ZRANGE by rank returns.                              *)
LEMMA RankRangeIsWindow ==
    ASSUME NEW V, NEW e \in Seq(V), NEW a \in Int, NEW b \in Int
    PROVE  /\ ApplyRankRange(e, a, b) \in Seq(V)
           /\ IsWindow(ApplyRankRange(e, a, b), e, LowestRank(a, Len(e)), HighestRank(b, Len(e)))
<1> DEFINE n == Len(e)
           lo == LowestRank(a, n)
           hi == HighestRank(b, n)
           empty == n = 0 \/ RankFrom(b, n) < 0 \/ lo >= n \/ lo > hi
           r == ApplyRankRange(e, a, b)
<1>1. n \in Nat /\ \A i \in 1 .. n : e[i] \in V
  OBVIOUS
<1>2. r = IF empty THEN <<>> ELSE SubSeq(e, lo + 1, hi + 1)
  BY DEF ApplyRankRange, RankFrom, LowestRank, HighestRank
<1>3. lo \in Nat /\ hi \in Int /\ hi <= n - 1
  <2> HIDE DEF n
  <2> QED
    BY <1>1, RankTypes
<1>4. empty <=> lo > hi
  <2> HIDE DEF n
  <2> QED
    BY <1>1 DEF RankFrom, LowestRank, HighestRank
<1> HIDE DEF n, lo, hi, empty, r
<1>5. CASE empty
  <2>1. r = <<>> /\ lo > hi
    BY <1>2, <1>4, <1>5
  <2>2. ~(lo <= hi)
    BY <1>3, <2>1
  <2> QED
    BY <2>1, <2>2 DEF IsWindow, n, lo, hi, r
<1>6. CASE ~empty
  <2>1. lo <= hi /\ lo + 1 \in Int /\ hi + 1 \in Int /\ lo + 1 <= hi + 1
        /\ ((hi + 1) - (lo + 1)) + 1 = (hi - lo) + 1
    BY <1>3, <1>4, <1>6
  <2>2. \A i \in lo + 1 .. hi + 1 : e[i] \in V
    BY <1>1, <1>3
  <2>3. /\ SubSeq(e, lo + 1, hi + 1) \in Seq(V)
        /\ Len(SubSeq(e, lo + 1, hi + 1)) = ((hi + 1) - (lo + 1)) + 1
        /\ \A i \in 1 .. ((hi + 1) - (lo + 1)) + 1 : SubSeq(e, lo + 1, hi + 1)[i] = e[((lo + 1) + i) - 1]
    BY <2>1, <2>2, SubSeqProperties
  <2>4. \A i \in 1 .. (hi - lo) + 1 : ((lo + 1) + i) - 1 = lo + i
    BY <1>3
  <2>5. r \in Seq(V) /\ Len(r) = (hi - lo) + 1 /\ \A i \in 1 .. (hi - lo) + 1 : r[i] = e[lo + i]
    BY <1>2, <1>6, <2>1, <2>3, <2>4
  <2>6. ~(lo > hi)
    BY <1>3, <2>1
  <2> QED
    BY <2>5, <2>6 DEF IsWindow, n, lo, hi, r
<1> QED
  BY <1>5, <1>6

(* The window of -1 - b to -1 - a lies as far from the end as the window   *)
(* of a to b from the start.                                               *)
LEMMA RanksMirror ==
    ASSUME NEW a \in Int, NEW n \in Nat
    PROVE  /\ LowestRank(-1 - a, n) = (n - 1) - HighestRank(a, n)
           /\ HighestRank(-1 - a, n) = (n - 1) - LowestRank(a, n)
BY DEF RankFrom, LowestRank, HighestRank

(* Reading ranks backwards is reading the mirrored ranks, reversed.        *)
LEMMA RankReverse ==
    ASSUME NEW V, NEW e \in Seq(V), NEW a \in Int, NEW b \in Int
    PROVE  ApplyRankRange(Reverse(e), a, b)
             = Reverse(ApplyRankRange(e, -1 - b, -1 - a))
<1>1. PICK n \in Nat : n = Len(e)
  OBVIOUS
<1>2. PICK back \in Seq(V) : back = Reverse(e)
  BY ReverseFacts
<1>3. Len(back) = n /\ \A i \in 1 .. n : back[i] = e[(n - i) + 1]
  BY <1>1, <1>2, ReverseFacts
<1>4. -1 - a \in Int /\ -1 - b \in Int
  OBVIOUS
<1>5. PICK lo \in Nat : lo = LowestRank(a, n)
  BY RankTypes
<1>6. PICK hi \in Int : hi = HighestRank(b, n) /\ hi <= n - 1
  BY RankTypes
<1>7. PICK r \in Seq(V) : r = ApplyRankRange(back, a, b) /\ IsWindow(r, back, lo, hi)
  BY <1>3, <1>5, <1>6, RankRangeIsWindow
<1>8. LowestRank(-1 - b, n) = (n - 1) - hi /\ HighestRank(-1 - a, n) = (n - 1) - lo
  BY <1>5, <1>6, RanksMirror
<1>9. PICK t \in Seq(V) : /\ t = ApplyRankRange(e, -1 - b, -1 - a)
                          /\ IsWindow(t, e, (n - 1) - hi, (n - 1) - lo)
  BY <1>1, <1>4, <1>8, RankRangeIsWindow
<1>10. PICK u \in Seq(V) : /\ u = Reverse(t) /\ Len(u) = Len(t)
                           /\ \A i \in 1 .. Len(t) : u[i] = t[(Len(t) - i) + 1]
  BY ReverseFacts
<1>11. CASE lo > hi
  <2>1. (n - 1) - hi > (n - 1) - lo
    BY <1>1, <1>5, <1>6, <1>11
  <2>2. r = <<>> /\ t = <<>>
    BY <1>7, <1>9, <1>11, <2>1 DEF IsWindow
  <2>3. u = <<>>
    BY <1>10, <2>2
  <2> QED
    BY <1>2, <1>7, <1>9, <1>10, <2>2, <2>3
<1>12. CASE lo <= hi
  <2>1. n \in Nat /\ lo \in Nat /\ hi \in Int /\ hi <= n - 1
    BY <1>6
  <2>2. PICK k \in Nat : k = (hi - lo) + 1
    <3>1. (hi - lo) + 1 \in Nat
      BY ONLY <1>12, <2>1
    <3> QED
      BY <3>1
  <2>3. (n - 1) - hi <= (n - 1) - lo /\ (((n - 1) - lo) - ((n - 1) - hi)) + 1 = k
    BY ONLY <1>12, <2>1, <2>2
  <2>4. Len(r) = k /\ \A i \in 1 .. k : r[i] = back[lo + i]
    BY <1>7, <1>12, <2>2 DEF IsWindow
  <2>5. Len(t) = k /\ \A i \in 1 .. k : t[i] = e[((n - 1) - hi) + i]
    BY <1>9, <2>3 DEF IsWindow
  <2>6. ASSUME NEW i \in 1 .. k
        PROVE  r[i] = u[i]
    <3>1. /\ lo + i \in 1 .. n /\ (k - i) + 1 \in 1 .. k
          /\ ((n - 1) - hi) + ((k - i) + 1) = (n - (lo + i)) + 1
      BY ONLY i \in 1 .. k, <2>1, <2>2
    <3>2. r[i] = e[(n - (lo + i)) + 1]
      BY <1>3, <2>4, <3>1
    <3>3. u[i] = t[(k - i) + 1]
      BY <1>10, <2>5
    <3>4. t[(k - i) + 1] = e[((n - 1) - hi) + ((k - i) + 1)]
      BY <2>5, <3>1
    <3> QED
      BY <3>1, <3>2, <3>3, <3>4
  <2>7. r = u
    BY <1>7, <1>10, <2>4, <2>5, <2>6, SeqEqual
  <2> QED
    BY <1>2, <1>7, <1>9, <1>10, <2>7
<1> QED
  BY <1>5, <1>6, <1>11, <1>12

(* A page continues the pages before it, reaches the end when there is no  *)
(* limit, and is empty only at the end.                                    *)
LEMMA PageContinues ==
    ASSUME NEW V, NEW r \in Seq(V), NEW o \in 0 .. Len(r), NEW c \in Int \ {0}, NEW page,
           page = ApplyLimit(r, o, c)
    PROVE  /\ page \in Seq(V)
           /\ o + Len(page) <= Len(r)
           /\ SubSeq(r, 1, o) \o page = SubSeq(r, 1, o + Len(page))
           /\ page = <<>> => o = Len(r)
           /\ c < 0 => o + Len(page) = Len(r)
<1>1. PICK n \in Nat : n = Len(r)
  OBVIOUS
<1>2. \A i \in 1 .. n : r[i] \in V
  BY <1>1
<1>3. o \in Nat /\ o <= n
  BY <1>1
<1>4. CASE o = n
  <2>1. o >= Len(r) /\ o + 0 = n
    BY <1>1, <1>3, <1>4
  <2>2. page = <<>>
    BY <2>1 DEF ApplyLimit
  <2>3. SubSeq(r, 1, o) = r
    BY <1>1, <1>4, SubSeqFull
  <2>4. Len(page) = 0 /\ page \in Seq(V) /\ r \o page = r
    BY <2>2, ConcatEmptySeq
  <2>5. o + Len(page) = o
    BY <1>3, <2>4
  <2> QED
    BY <1>1, <1>4, <2>3, <2>4, <2>5
<1>5. CASE o < n
  <2> DEFINE k == IF c > 0 /\ c < n - o THEN o + c ELSE n
  <2>1. k \in Int /\ o < k /\ k <= n /\ (c < 0 => k = n)
    BY <1>3, <1>5
  <2>2. page = SubSeq(r, o + 1, k)
    <3>1. ~(o < 0 \/ c = 0 \/ o >= n)
      BY <1>3, <1>5
    <3> QED
      BY <1>1, <3>1 DEF ApplyLimit
  <2> HIDE DEF k
  <2>3. \A i \in o + 1 .. k : r[i] \in V
    BY <1>2, <1>3, <2>1
  <2>4. page \in Seq(V) /\ Len(page) = (k - (o + 1)) + 1
    <3>1. o + 1 \in Int /\ o + 1 <= k
      BY <1>3, <2>1
    <3> QED
      BY <2>1, <2>2, <2>3, <3>1, SubSeqProperties
  <2>5. (k - (o + 1)) + 1 # 0 /\ o + ((k - (o + 1)) + 1) = k
    BY <1>3, <2>1
  <2>6. SubSeq(r, 1, o) \o SubSeq(r, o + 1, k) = SubSeq(r, 1, k)
    <3>1. 1 \in 1 .. Len(r) + 1 /\ o \in 1 - 1 .. Len(r) /\ k \in o .. Len(r)
      BY <1>1, <1>3, <2>1
    <3> QED
      BY <3>1, ConcatAdjacentSubSeq
  <2> QED
    BY <1>1, <2>1, <2>2, <2>4, <2>5, <2>6
<1> QED
  BY <1>3, <1>4, <1>5

(* What ZRANGE by score or member returns: a sequence of members, cut by   *)
(* LIMIT, and with REV the range of the exchanged bounds backwards.        *)
LEMMA BoundsRange ==
    ASSUME NEW z \in ZSets, NEW m, NEW f, NEW s, NEW back \in BOOLEAN
    PROVE  /\ ZRangeByBounds(z, m, f, s, back, NoLimit) \in Seq(DOMAIN z)
           /\ back => ZRangeByBounds(z, m, f, s, back, NoLimit)
                        = Reverse(ZRangeByBounds(z, m, s, f, FALSE, NoLimit))
<1> DEFINE Found(lower, upper) == IF m = "BYSCORE"
                                  THEN FilterByScore(z, EntriesByScore(z), lower, upper)
                                  ELSE FilterByLex(EntriesByLex(z), lower, upper)
<1>1. \A lower, upper : Found(lower, upper) \in Seq(DOMAIN z)
  BY EntriesFacts, FilteredFacts DEF FilterByScore, FilterByLex
<1>2. ZRangeByBounds(z, m, f, s, back, NoLimit)
        = IF back THEN Reverse(Found(s, f)) ELSE Found(f, s)
  BY DEF ZRangeByBounds, NoLimit
<1>3. ZRangeByBounds(z, m, s, f, FALSE, NoLimit) = Found(s, f)
  BY DEF ZRangeByBounds, NoLimit
<1> HIDE DEF Found
<1> QED
  BY <1>1, <1>2, <1>3, ReverseFacts

(* LIMIT cuts the range that ZRANGE returns without it.                    *)
LEMMA LimitCutsRange ==
    ASSUME NEW z, NEW m, NEW f, NEW s, NEW back, NEW o, NEW c
    PROVE  ZRangeByBounds(z, m, f, s, back, Limit(o, c))
             = ApplyLimit(ZRangeByBounds(z, m, f, s, back, NoLimit), o, c)
BY DEF ZRangeByBounds, Limit, NoLimit

(* What the client asked for: the range at once.                           *)
AtOnce == ZRangeByBounds(stored, mode, first, second, rev, NoLimit)

(* The pages the client has got are the first entries of the range, all of *)
(* them once it has stopped; by rank it gets its answer in one step.       *)
ReadTypes ==
    /\ stored \in ZSets
    /\ rev \in BOOLEAN
    /\ done \in BOOLEAN
    /\ mode = "RANK" => first \in Int /\ second \in Int
    /\ mode = "BYSCORE" => first \in ScoreBounds /\ second \in ScoreBounds
    /\ mode # "RANK" => count \in Int \ {0}

PagesInv ==
    mode # "RANK" =>
        /\ Len(pages) \in 0 .. Len(AtOnce)
        /\ pages = SubSeq(AtOnce, 1, Len(pages))
        /\ done => pages = AtOnce

RanksInv ==
    mode = "RANK" /\ done => pages = ZRangeByRank(stored, first, second, rev)

ReadInv == ReadTypes /\ PagesInv /\ RanksInv

(* The client starts without pages.                                        *)
LEMMA ReadInvInit == ReadInit => ReadInv
<1> SUFFICES ASSUME ReadInit
             PROVE  ReadInv
  OBVIOUS
<1>1. /\ stored \in ZSets /\ mode \in {"RANK", "BYSCORE", "BYLEX"}
      /\ first \in Arguments(mode) /\ second \in Arguments(mode)
      /\ rev \in BOOLEAN /\ count \in IF mode = "RANK" THEN {0} ELSE PageSizes
      /\ pages = <<>> /\ done = FALSE
  BY DEF ReadInit
<1>2. mode = "RANK" => first \in Int /\ second \in Int
  <2>1. -MaxIndex .. MaxIndex \subseteq Int
    BY ReadAssumption
  <2> QED
    BY <1>1, <2>1 DEF Arguments
<1>3. mode = "BYSCORE" => first \in ScoreBounds /\ second \in ScoreBounds
  BY <1>1 DEF Arguments
<1>4. mode # "RANK" => count \in Int \ {0}
  BY <1>1, ReadAssumption
<1>5. ReadTypes
  BY <1>1, <1>2, <1>3, <1>4 DEF ReadTypes
<1>6. PagesInv
  <2>1. AtOnce \in Seq(DOMAIN stored)
    BY <1>1, BoundsRange DEF AtOnce
  <2>2. Len(pages) = 0 /\ 0 \in 0 .. Len(AtOnce)
    BY <1>1, <2>1
  <2>3. SubSeq(AtOnce, 1, 0) = <<>>
    BY SubSeqEmpty
  <2> QED
    BY <1>1, <2>2, <2>3 DEF PagesInv
<1> QED
  BY <1>1, <1>5, <1>6 DEF ReadInv, RanksInv

(* Every answer continues the pages the client has got.                    *)
LEMMA ReadStep == ReadInv /\ [ReadNext]_readVars => ReadInv'
<1> SUFFICES ASSUME ReadInv, [ReadNext]_readVars
             PROVE  ReadInv'
  OBVIOUS
<1> DEFINE arguments == <<stored, mode, first, second, rev, count>>
<1>1. CASE UNCHANGED readVars
  BY <1>1 DEF ReadInv, ReadTypes, PagesInv, RanksInv, AtOnce, readVars
<1>2. ASSUME UNCHANGED arguments, done' \in BOOLEAN
      PROVE  ReadTypes'
  BY <1>2 DEF ReadInv, ReadTypes
<1>3. UNCHANGED arguments => AtOnce' = AtOnce
  BY DEF AtOnce
<1>4. CASE ReadRanks
  <2>1. /\ mode = "RANK" /\ UNCHANGED arguments /\ done' = TRUE
        /\ pages' = ZRangeByRank(stored, first, second, rev)
    BY <1>4 DEF ReadRanks
  <2>2. PagesInv' /\ RanksInv'
    BY <2>1 DEF PagesInv, RanksInv
  <2> QED
    BY <1>2, <2>1, <2>2 DEF ReadInv
<1>5. CASE Page
  <2> DEFINE page == ZRangeByBounds(stored, mode, first, second, rev, Limit(Len(pages), count))
  <2>1. /\ ~done /\ mode # "RANK" /\ UNCHANGED arguments
        /\ pages' = pages \o page /\ done' = (page = <<>> \/ count < 0)
    BY <1>5 DEF Page
  <2>2. stored \in ZSets /\ rev \in BOOLEAN /\ count \in Int \ {0}
    BY <2>1 DEF ReadInv, ReadTypes
  <2>3. AtOnce \in Seq(DOMAIN stored) /\ page = ApplyLimit(AtOnce, Len(pages), count)
    <3>1. AtOnce \in Seq(DOMAIN stored)
      BY <2>2, BoundsRange DEF AtOnce
    <3>2. page = ApplyLimit(AtOnce, Len(pages), count)
      BY LimitCutsRange, Zenon DEF AtOnce
    <3> QED
      BY <3>1, <3>2, Zenon
  <2> HIDE DEF page
  <2>4. PICK o \in 0 .. Len(AtOnce) : o = Len(pages) /\ pages = SubSeq(AtOnce, 1, o)
    <3>1. Len(pages) \in 0 .. Len(AtOnce) /\ pages = SubSeq(AtOnce, 1, Len(pages))
      BY <2>1 DEF ReadInv, PagesInv
    <3> QED
      BY <3>1, Zenon
  <2>5. /\ page \in Seq(DOMAIN stored) /\ o + Len(page) <= Len(AtOnce)
        /\ SubSeq(AtOnce, 1, o) \o page = SubSeq(AtOnce, 1, o + Len(page))
        /\ page = <<>> => o = Len(AtOnce)
        /\ count < 0 => o + Len(page) = Len(AtOnce)
    <3>1. page = ApplyLimit(AtOnce, o, count)
      BY <2>3, <2>4
    <3> QED
      BY <2>2, <2>3, <3>1, PageContinues
  <2>6. PICK k \in 0 .. Len(AtOnce) : k = o + Len(page)
    BY <2>3, <2>5
  <2>7. pages' = SubSeq(AtOnce, 1, k)
    BY <2>1, <2>4, <2>5, <2>6
  <2>8. Len(pages') = k
    <3>1. \A i \in 1 .. k : AtOnce[i] \in DOMAIN stored
      BY <2>3
    <3>2. k \in Nat
      BY <2>3
    <3>3. Len(SubSeq(AtOnce, 1, k)) = IF 1 <= k THEN (k - 1) + 1 ELSE 0
      BY <3>1, <3>2, SubSeqProperties
    <3> QED
      BY <2>7, <3>2, <3>3
  <2>9. done' => k = Len(AtOnce)
    <3>1. CASE page = <<>>
      <4>1. Len(page) = 0 /\ o = Len(AtOnce)
        BY <2>5, <3>1
      <4> QED
        BY <2>3, <2>6, <4>1
    <3>2. CASE count < 0
      BY <2>5, <2>6, <3>2
    <3> QED
      BY <2>1, <3>1, <3>2
  <2>10. done' => pages' = AtOnce
    BY <2>3, <2>7, <2>9, SubSeqFull
  <2>11. PagesInv' /\ RanksInv'
    BY <1>3, <2>1, <2>7, <2>8, <2>10 DEF PagesInv, RanksInv
  <2> QED
    BY <1>2, <2>1, <2>11 DEF ReadInv
<1> QED
  BY <1>1, <1>4, <1>5 DEF ReadNext

(* Once the client has stopped, its pages are the range, and with REV the  *)
(* range the other way round.                                              *)
LEMMA ReadInvRanges == ReadInv => RangesAgree
<1> SUFFICES ASSUME ReadInv
             PROVE  RangesAgree
  OBVIOUS
<1>1. PagesCoverRange
  BY DEF ReadInv, PagesInv, AtOnce, PagesCoverRange
<1>2. ASSUME done, rev
      PROVE  pages = Reverse(IF mode = "RANK"
                                   THEN ZRangeByRank(stored, -1 - second, -1 - first, FALSE)
                                   ELSE ZRangeByBounds(stored, mode, second, first, FALSE, NoLimit))
  <2>1. stored \in ZSets /\ rev = TRUE
    BY <1>2 DEF ReadInv, ReadTypes
  <2>2. CASE mode = "RANK"
    <3>1. first \in Int /\ second \in Int /\ pages = ZRangeByRank(stored, first, second, TRUE)
      BY <1>2, <2>1, <2>2 DEF ReadInv, ReadTypes, RanksInv
    <3>2. EntriesByScore(stored) \in Seq(DOMAIN stored)
      BY <2>1, EntriesFacts
    <3>3. pages = ApplyRankRange(Reverse(EntriesByScore(stored)), first, second)
      BY <3>1 DEF ZRangeByRank, EntriesByScoreReverse
    <3>4. ZRangeByRank(stored, -1 - second, -1 - first, FALSE)
            = ApplyRankRange(EntriesByScore(stored), -1 - second, -1 - first)
      BY DEF ZRangeByRank
    <3> QED
      BY <2>2, <3>1, <3>2, <3>3, <3>4, RankReverse, ZenonT(40)
  <2>3. CASE mode # "RANK"
    <3>1. pages = ZRangeByBounds(stored, mode, first, second, TRUE, NoLimit)
      BY <1>2, <2>1, <2>3 DEF ReadInv, PagesInv, AtOnce
    <3> QED
      BY <2>1, <2>3, <3>1, BoundsRange
  <2> QED
    BY <2>2, <2>3
<1>3. RevReadsBackwards
  BY <1>2 DEF RevReadsBackwards
<1> QED
  BY <1>1, <1>3 DEF RangesAgree

(* For every finite set of members, all scores, ranks, bounds and page     *)
(* sizes: ZRANGE in pages is ZRANGE at once, and with REV the same range   *)
(* backwards.                                                              *)
THEOREM RangesRead == ReadSpec => []RangesAgree
<1>1. ReadInit => ReadInv
  BY ReadInvInit
<1>2. ReadInv /\ [ReadNext]_readVars => ReadInv'
  BY ReadStep
<1>3. ReadInv => RangesAgree
  BY ReadInvRanges
<1> QED
  BY <1>1, <1>2, <1>3, PTL DEF ReadSpec

(* e has every member of S at one of its n places.                         *)
Enumerates(e, S, n) ==
    /\ e \in Seq(S) /\ Len(e) = n
    /\ \A i, j \in 1 .. n : e[i] = e[j] => i = j
    /\ \A m \in S : \E i \in 1 .. n : e[i] = m

(* Backwards, every member still has one place.                            *)
LEMMA ReverseEnumerates ==
    ASSUME NEW S, NEW n \in Nat, NEW e, Enumerates(e, S, n)
    PROVE  Enumerates(Reverse(e), S, n)
<1>1. e \in Seq(S) /\ Len(e) = n
  BY DEF Enumerates
<1>2. PICK r \in Seq(S) : /\ r = Reverse(e) /\ Len(r) = n
                          /\ \A i \in 1 .. n : r[i] = e[(n - i) + 1]
  BY <1>1, ReverseFacts
<1>3. \A i \in 1 .. n : (n - i) + 1 \in 1 .. n /\ (n - ((n - i) + 1)) + 1 = i
  OBVIOUS
<1>4. ASSUME NEW i \in 1 .. n, NEW j \in 1 .. n, r[i] = r[j]
      PROVE  i = j
  <2>1. e[(n - i) + 1] = e[(n - j) + 1]
    BY <1>2, <1>4
  <2>2. (n - i) + 1 = (n - j) + 1
    BY <1>3, <2>1 DEF Enumerates
  <2> QED
    BY <2>2
<1>5. ASSUME NEW m \in S
      PROVE  \E i \in 1 .. n : r[i] = m
  <2>1. PICK i \in 1 .. n : e[i] = m
    BY DEF Enumerates
  <2>2. r[(n - i) + 1] = m /\ (n - i) + 1 \in 1 .. n
    BY <1>2, <1>3, <2>1
  <2> QED
    BY <2>2
<1> QED
  BY <1>2, <1>4, <1>5 DEF Enumerates

(* The entries ZRANK or ZREVRANK counts in.                                *)
Ranked(z, back) == IF back THEN EntriesByScoreReverse(z) ELSE EntriesByScore(z)

(* ZRANK and ZREVRANK give every member a place.                           *)
LEMMA RankedEnumerates ==
    ASSUME NEW z \in ZSets, NEW back \in BOOLEAN
    PROVE  Enumerates(Ranked(z, back), DOMAIN z, Cardinality(DOMAIN z))
<1>1. PICK n \in Nat : n = Cardinality(DOMAIN z)
  BY OrdersAreStrict
<1>2. PICK e : e = EntriesByScore(z)
  OBVIOUS
<1>3. Lists(e, DOMAIN z, ScoreOrder(z), n) /\ e \in Seq(DOMAIN z) /\ Len(e) = n
  BY <1>1, <1>2, EntriesFacts
<1>4. \A i, j \in 1 .. n : e[i] = e[j] => i = j
  BY <1>3, OrdersAreStrict, ListPlaces
<1>5. Enumerates(e, DOMAIN z, n)
  BY <1>3, <1>4 DEF Enumerates, Lists
<1>6. Enumerates(Reverse(e), DOMAIN z, n)
  BY <1>5, ReverseEnumerates
<1> QED
  BY <1>1, <1>2, <1>5, <1>6 DEF Ranked, EntriesByScoreReverse

(* The member at place i has rank i - 1.                                   *)
LEMMA RankOfPlace ==
    ASSUME NEW z, NEW back, NEW n, Enumerates(Ranked(z, back), DOMAIN z, n), NEW i \in 1 .. n
    PROVE  RankResponse(z, Ranked(z, back)[i], back) = i - 1
<1>1. PICK e : e = Ranked(z, back)
  OBVIOUS
<1>2. DOMAIN e = 1 .. n /\ e[i] \in DOMAIN z
  BY <1>1 DEF Enumerates
<1>3. (CHOOSE j \in DOMAIN e : e[j] = e[i]) = i
  BY <1>1, <1>2 DEF Enumerates
<1>4. RankResponse(z, e[i], back) = (CHOOSE j \in DOMAIN e : e[j] = e[i]) - 1
  BY <1>1, <1>2 DEF Ranked, RankResponse
<1> QED
  BY <1>1, <1>3, <1>4

(* The rank of a member is the number of members before it.                *)
LEMMA RanksCount ==
    ASSUME NEW z \in ZSets, NEW m \in DOMAIN z, NEW B,
           B = {o \in DOMAIN z : z[o] < z[m] \/ (z[o] = z[m] /\ o < m)}
    PROVE  /\ RankResponse(z, m, FALSE) = Cardinality(B)
           /\ RankResponse(z, m, TRUE) = (Cardinality(DOMAIN z) - 1) - Cardinality(B)
<1>1. PICK n \in Nat : n = Cardinality(DOMAIN z)
  BY OrdersAreStrict
<1>2. PICK e : e = Ranked(z, FALSE)
  OBVIOUS
<1>3. /\ Lists(e, DOMAIN z, ScoreOrder(z), n)
      /\ e \in Seq(DOMAIN z) /\ Len(e) = n
  BY <1>1, <1>2, EntriesFacts DEF Ranked
<1>4. PICK i \in 1 .. n : e[i] = m
  BY <1>3 DEF Lists
<1>5. Enumerates(Ranked(z, FALSE), DOMAIN z, n) /\ Enumerates(Ranked(z, TRUE), DOMAIN z, n)
  BY <1>1, RankedEnumerates
<1>6. Cardinality(B) = i - 1
  <2>1. \A o \in DOMAIN z : z[o] \in Int /\ o \in Int
    BY OrdersAreStrict, ReadAssumption
  <2>2. B = {o \in DOMAIN z : <<o, m>> \in ScoreOrder(z)}
    BY <2>1 DEF ScoreOrder
  <2>3. Cardinality({o \in DOMAIN z : <<o, e[i]>> \in ScoreOrder(z)}) = i - 1
    BY <1>3, OrdersAreStrict, ListPlaces, SMTT(30)
  <2> QED
    BY <1>4, <2>2, <2>3
<1>7. RankResponse(z, m, FALSE) = i - 1
  BY <1>2, <1>4, <1>5, RankOfPlace
<1>8. RankResponse(z, m, TRUE) = ((n - i) + 1) - 1
  <2>1. (n - i) + 1 \in 1 .. n /\ (n - ((n - i) + 1)) + 1 = i
    OBVIOUS
  <2>2. Ranked(z, TRUE) = Reverse(e)
    BY <1>2 DEF Ranked, EntriesByScoreReverse
  <2>3. \A j \in 1 .. n : Reverse(e)[j] = e[(n - j) + 1]
    BY <1>3, ReverseFacts
  <2>4. Ranked(z, TRUE)[(n - i) + 1] = m
    BY <1>4, <2>1, <2>2, <2>3
  <2> QED
    BY <1>5, <2>1, <2>4, RankOfPlace
<1>9. ((n - i) + 1) - 1 = (n - 1) - (i - 1)
  OBVIOUS
<1> QED
  BY <1>1, <1>6, <1>7, <1>8, <1>9

(* ZCOUNT counts the entries the filter keeps.                             *)
LEMMA CountIsLength ==
    ASSUME NEW z \in ZSets, NEW f, NEW s, NEW back \in BOOLEAN
    PROVE  ZCount(z, IF back THEN s ELSE f, IF back THEN f ELSE s)
             = Len(ZRangeByBounds(z, "BYSCORE", f, s, back, NoLimit))
<1>1. PICK lower, upper : /\ lower = (IF back THEN s ELSE f)
                          /\ upper = (IF back THEN f ELSE s)
  OBVIOUS
<1> DEFINE W == {m \in DOMAIN z : ScoreInRange(z[m], lower, upper)}
           found == Filtered(EntriesByScore(z), W)
<1>2. ZCount(z, lower, upper) = Cardinality(W)
  BY DEF ZCount, Cardinality
<1>3. ZRangeByBounds(z, "BYSCORE", f, s, back, NoLimit)
        = IF back THEN Reverse(found) ELSE found
  BY <1>1 DEF ZRangeByBounds, NoLimit, FilterByScore
<1>4. W \subseteq DOMAIN z
  OBVIOUS
<1> HIDE DEF W
<1>5. found \in Seq(DOMAIN z)
  BY EntriesFacts, FilteredFacts
<1>6. Len(found) = Cardinality(W)
  BY <1>4, EntriesFacts, OrdersAreStrict, FilteredCount
<1> HIDE DEF found
<1>7. Len(Reverse(found)) = Len(found)
  BY <1>5, ReverseFacts
<1> QED
  BY <1>1, <1>2, <1>3, <1>6, <1>7

(* Three sets that cover a finite set and do not meet have all its members.*)
LEMMA ThreeParts ==
    ASSUME NEW S, IsFiniteSet(S), NEW A, NEW B, NEW C, S = (A \cup B) \cup C,
           A \cap B = {}, (A \cup B) \cap C = {}
    PROVE  Cardinality(S) = (Cardinality(A) + Cardinality(B)) + Cardinality(C)
<1>1. IsFiniteSet(A) /\ IsFiniteSet(B) /\ IsFiniteSet(C)
  BY FS_Subset
<1>2. Cardinality(A) \in Nat /\ Cardinality(B) \in Nat /\ Cardinality(C) \in Nat
  BY <1>1, FS_CardinalityType
<1>3. Cardinality({}) = 0
  BY FS_EmptySet
<1>4. IsFiniteSet(A \cup B) /\ Cardinality(A \cup B) = Cardinality(A) + Cardinality(B) - Cardinality({})
  BY <1>1, FS_Union
<1>5. Cardinality(A \cup B) = Cardinality(A) + Cardinality(B)
  BY <1>2, <1>3, <1>4
<1>6. Cardinality(S) = Cardinality(A \cup B) + Cardinality(C) - Cardinality({})
  BY <1>1, <1>4, FS_Union
<1> QED
  BY <1>2, <1>3, <1>5, <1>6

(* The scores below, within and above a range are all the scores.          *)
LEMMA CountsAddUp ==
    ASSUME NEW z \in ZSets,
           NEW f \in ScoreBounds, NEW s \in ScoreBounds, f.val < s.val
    PROVE  ZCount(z, [val |-> NegInf, inclusive |-> TRUE], [f EXCEPT !.inclusive = ~@])
             + ZCount(z, f, s)
             + ZCount(z, [s EXCEPT !.inclusive = ~@], [val |-> PosInf, inclusive |-> TRUE])
           = Cardinality(DOMAIN z)
<1> DEFINE lowest == [val |-> NegInf, inclusive |-> TRUE]
           highest == [val |-> PosInf, inclusive |-> TRUE]
           belowF == [f EXCEPT !.inclusive = ~@]
           aboveS == [s EXCEPT !.inclusive = ~@]
           In(lower, upper) == {m \in DOMAIN z : ScoreInRange(z[m], lower, upper)}
<1>1. /\ f.val \in Int /\ f.inclusive \in BOOLEAN /\ s.val \in Int /\ s.inclusive \in BOOLEAN
      /\ NegInf = -ScoreLimit - 1 /\ PosInf = ScoreLimit + 1
  BY ReadAssumption DEF ScoreBounds, Bound, ZScores, NegInf, PosInf
<1>2. /\ belowF.val = f.val /\ belowF.inclusive = ~f.inclusive
      /\ aboveS.val = s.val /\ aboveS.inclusive = ~s.inclusive
  BY DEF ScoreBounds, Bound
<1>3. \A m \in DOMAIN z : z[m] \in -ScoreLimit .. ScoreLimit
  BY OrdersAreStrict
<1>4. ASSUME NEW m \in DOMAIN z
      PROVE  /\ m \in In(lowest, belowF) <=> ~AboveLower(z[m], f)
             /\ m \in In(aboveS, highest) <=> ~BelowUpper(z[m], s)
             /\ m \in In(f, s) <=> AboveLower(z[m], f) /\ BelowUpper(z[m], s)
             /\ AboveLower(z[m], f) \/ BelowUpper(z[m], s)
  <2>1. z[m] \in Int /\ NegInf <= z[m] /\ z[m] <= PosInf
    BY <1>1, <1>3, ReadAssumption
  <2>2. AboveLower(z[m], lowest) /\ BelowUpper(z[m], highest)
    BY <2>1, <1>1, ReadAssumption DEF AboveLower, BelowUpper
  <2> HIDE DEF belowF, aboveS, lowest, highest
  <2>3. BelowUpper(z[m], belowF) <=> ~AboveLower(z[m], f)
    <3>1. CASE f.inclusive
      <4>1. belowF.inclusive = FALSE /\ f.inclusive = TRUE
        BY <1>1, <1>2, <3>1
      <4> QED
        BY <1>1, <1>2, <2>1, <4>1 DEF AboveLower, BelowUpper
    <3>2. CASE ~f.inclusive
      <4>1. belowF.inclusive = TRUE
        BY <1>2, <3>2
      <4> QED
        BY <1>1, <1>2, <2>1, <3>2, <4>1 DEF AboveLower, BelowUpper
    <3> QED
      BY <3>1, <3>2
  <2>4. AboveLower(z[m], aboveS) <=> ~BelowUpper(z[m], s)
    <3>1. CASE s.inclusive
      <4>1. aboveS.inclusive = FALSE /\ s.inclusive = TRUE
        BY <1>1, <1>2, <3>1
      <4> QED
        BY <1>1, <1>2, <2>1, <4>1 DEF AboveLower, BelowUpper
    <3>2. CASE ~s.inclusive
      <4>1. aboveS.inclusive = TRUE
        BY <1>2, <3>2
      <4> QED
        BY <1>1, <1>2, <2>1, <3>2, <4>1 DEF AboveLower, BelowUpper
    <3> QED
      BY <3>1, <3>2
  <2>5. AboveLower(z[m], f) \/ BelowUpper(z[m], s)
    BY <1>1, <2>1 DEF AboveLower, BelowUpper
  <2> QED
    BY <2>2, <2>3, <2>4, <2>5 DEF ScoreInRange
<1>5. \A a, b : ZCount(z, a, b) = Cardinality(In(a, b))
  BY DEF ZCount, Cardinality
<1> DEFINE A == In(lowest, belowF)
           B == In(f, s)
           C == In(aboveS, highest)
<1>6. A \subseteq DOMAIN z /\ B \subseteq DOMAIN z /\ C \subseteq DOMAIN z
  OBVIOUS
<1>7. DOMAIN z = (A \cup B) \cup C /\ A \cap B = {} /\ (A \cup B) \cap C = {}
  <2> HIDE DEF In, belowF, aboveS, lowest, highest
  <2> QED
    BY <1>4, <1>6
<1>8. Cardinality(DOMAIN z) = (Cardinality(A) + Cardinality(B)) + Cardinality(C)
  <2> HIDE DEF A, B, C
  <2> QED
    BY <1>7, OrdersAreStrict, ThreeParts
<1>9. Cardinality(DOMAIN z) = Cardinality(DOMAIN z)
  BY DEF Cardinality
<1> HIDE DEF In
<1> QED
  BY <1>5, <1>8, <1>9

(* p is the members with ranks from a to b, in the order of their ranks.   *)
RanksOf(z, back) == [m \in DOMAIN z |-> RankResponse(z, m, back)]

RankedBetween(z, a, b, back) ==
    {m \in DOMAIN z : RanksOf(z, back)[m] \in RankFrom(a, Cardinality(DOMAIN z))
                                                 .. RankFrom(b, Cardinality(DOMAIN z))}

ReadsRanks(p, z, a, b, back) ==
    /\ ToSet(p) = RankedBetween(z, a, b, back)
    /\ Len(p) = Cardinality(RankedBetween(z, a, b, back))
    /\ \A i \in 1 .. Len(p) - 1 : RanksOf(z, back)[p[i + 1]] = RanksOf(z, back)[p[i]] + 1

(* ZRANGE by rank returns the members whose ranks lie in the window.       *)
LEMMA WindowHasRanks ==
    ASSUME NEW z \in ZSets, NEW back \in BOOLEAN, NEW a \in Int, NEW b \in Int
    PROVE  ReadsRanks(ZRangeByRank(z, a, b, back), z, a, b, back)
<1>1. PICK n \in Nat : n = Cardinality(DOMAIN z)
  BY OrdersAreStrict
<1>2. PICK p : p = ZRangeByRank(z, a, b, back)
  OBVIOUS
<1>3. PICK Rank : Rank = RanksOf(z, back) /\ Rank = [m \in DOMAIN z |-> RankResponse(z, m, back)]
  BY DEF RanksOf
<1>4. PICK W : /\ W = RankedBetween(z, a, b, back)
                /\ W = {m \in DOMAIN z : Rank[m] \in RankFrom(a, n) .. RankFrom(b, n)}
  BY <1>1, <1>3 DEF RankedBetween
<1>5. PICK e : e = Ranked(z, back)
  OBVIOUS
<1>6. Enumerates(e, DOMAIN z, n) /\ Enumerates(Ranked(z, back), DOMAIN z, n)
  BY <1>5, <1>1, RankedEnumerates
<1>7. e \in Seq(DOMAIN z) /\ Len(e) = n /\ \A i \in 1 .. n : e[i] \in DOMAIN z
  BY <1>6 DEF Enumerates
<1>8. \A i \in 1 .. n : Rank[e[i]] = i - 1
  <2>1. \A i \in 1 .. n : RankResponse(z, e[i], back) = i - 1
    BY <1>5, <1>6, RankOfPlace
  <2> QED
    BY <1>7, <1>3, <2>1
<1>9. PICK lo \in Nat : lo = LowestRank(a, n)
  BY RankTypes
<1>10. PICK hi \in Int : hi = HighestRank(b, n) /\ hi <= n - 1
  BY RankTypes
<1>11. p \in Seq(DOMAIN z) /\ IsWindow(p, e, lo, hi)
  <2>1. p = ApplyRankRange(e, a, b)
    BY <1>5, <1>2 DEF ZRangeByRank, Ranked
  <2> QED
    BY <1>7, <1>9, <1>10, <2>1, RankRangeIsWindow
<1>12. \A k \in 0 .. n - 1 : k \in RankFrom(a, n) .. RankFrom(b, n) <=> lo <= k /\ k <= hi
  BY <1>9, <1>10 DEF RankFrom, LowestRank, HighestRank
<1>13. lo \in Nat /\ hi \in Int /\ hi <= n - 1 /\ n \in Nat
  BY <1>10
<1>14. PICK k \in Nat : k = IF lo <= hi THEN (hi - lo) + 1 ELSE 0
  <2>1. (IF lo <= hi THEN (hi - lo) + 1 ELSE 0) \in Nat
    BY ONLY <1>13
  <2> QED
    BY <2>1
<1>15. Len(p) = k /\ \A i \in 1 .. k : p[i] = e[lo + i]
  <2>1. CASE lo <= hi
    BY <1>11, <1>14, <2>1 DEF IsWindow
  <2>2. CASE lo > hi
    <3>1. ~(lo <= hi)
      BY ONLY <1>13, <2>2
    <3> QED
      BY <1>11, <1>14, <2>2, <3>1 DEF IsWindow
  <2>3. lo <= hi \/ lo > hi
    BY ONLY <1>13
  <2> QED
    BY <2>1, <2>2, <2>3
<1>16. ASSUME NEW i \in 1 .. k
       PROVE  /\ lo + i \in 1 .. n /\ (lo + i) - 1 \in 0 .. n - 1
              /\ lo <= (lo + i) - 1 /\ (lo + i) - 1 <= hi
  BY ONLY i \in 1 .. k, <1>13, <1>14
<1>17. ASSUME NEW i \in 1 .. k
       PROVE  p[i] \in W /\ Rank[p[i]] = (lo + i) - 1
  <2>1. p[i] = e[lo + i] /\ lo + i \in 1 .. n
    BY <1>15, <1>16
  <2>2. p[i] \in DOMAIN z /\ Rank[p[i]] = (lo + i) - 1
    BY <1>7, <1>8, <2>1
  <2> QED
    BY <1>12, <1>16, <1>4, <2>2
<1>18. ASSUME NEW m \in W
       PROVE  \E i \in 1 .. k : p[i] = m
  <2>1. PICK j \in 1 .. n : e[j] = m
    BY <1>6, <1>4 DEF Enumerates
  <2>2. j - 1 \in RankFrom(a, n) .. RankFrom(b, n)
    BY <1>8, <1>4, <2>1
  <2>3. j - 1 \in 0 .. n - 1
    OBVIOUS
  <2>4. lo <= j - 1 /\ j - 1 <= hi
    BY <1>12, <2>2, <2>3
  <2>5. j - lo \in 1 .. k /\ lo + (j - lo) = j
    BY ONLY j \in 1 .. n, <1>13, <1>14, <2>4
  <2>6. p[j - lo] = m
    BY <1>15, <2>1, <2>5
  <2> QED
    BY <2>5, <2>6
<1>19. Len(p) = Cardinality(W)
  <2> DEFINE f == [i \in 1 .. k |-> p[i]]
  <2>1. ASSUME NEW i \in 1 .. k, NEW j \in 1 .. k, p[i] = p[j]
        PROVE  i = j
    <3>1. (lo + i) - 1 = (lo + j) - 1
      BY <1>17, <2>1
    <3> QED
      BY ONLY i \in 1 .. k, j \in 1 .. k, <1>13, <3>1
  <2>2. /\ f \in [1 .. k -> W] /\ \A i, j \in 1 .. k : f[i] = f[j] => i = j
        /\ \A m \in W : \E i \in 1 .. k : f[i] = m
    BY <1>17, <1>18, <2>1
  <2>3. IsFiniteSet(1 .. k) /\ Cardinality(1 .. k) = IF 1 > k THEN 0 ELSE k - 1 + 1
    <3>1. 1 \in Int /\ k \in Int
      OBVIOUS
    <3> QED
      BY <3>1, FS_Interval
  <2>4. Cardinality(1 .. k) = k
    BY <2>3
  <2>5. Cardinality(W) = Cardinality(1 .. k)
    <3> HIDE DEF f
    <3> QED
      BY <2>2, <2>3, SameSize
  <2> QED
    BY <1>15, <2>4, <2>5
<1>20. ASSUME NEW i \in 1 .. k - 1
       PROVE  Rank[p[i + 1]] = Rank[p[i]] + 1
  <2>1. i \in 1 .. k /\ i + 1 \in 1 .. k /\ (lo + (i + 1)) - 1 = ((lo + i) - 1) + 1
    BY ONLY i \in 1 .. k - 1, <1>13, <1>14
  <2> QED
    BY <1>17, <2>1
<1>21. ToSet(p) = W
  <2>1. DOMAIN p = 1 .. k
    BY <1>11, <1>15
  <2> QED
    BY <1>17, <1>18, <2>1 DEF ToSet
<1>22. \A i \in 1 .. Len(p) - 1 : Rank[p[i + 1]] = Rank[p[i]] + 1
  BY <1>15, <1>20, Zenon
<1> QED
  BY <1>19, <1>21, <1>22, <1>2, <1>3, <1>4, Zenon DEF ReadsRanks

(* What the client reads agrees with the ranks and the counts.             *)
LEMMA ReadInvRanks == ReadInv => RanksAndCountsAgree
<1> SUFFICES ASSUME ReadInv
             PROVE  RanksAndCountsAgree
  OBVIOUS
<1>1. stored \in ZSets /\ rev \in BOOLEAN
  BY DEF ReadInv, ReadTypes
<1>2. \A S : Cardinality(S) = Cardinality(S)
  BY DEF Cardinality
<1>3. RankWindow
  <2>1. SUFFICES ASSUME done, mode = "RANK"
                 PROVE  RankWindow
    BY DEF RankWindow
  <2>2. first \in Int /\ second \in Int /\ pages = ZRangeByRank(stored, first, second, rev)
    BY <2>1 DEF ReadInv, ReadTypes, RanksInv
  <2>3. ReadsRanks(pages, stored, first, second, rev)
    BY <1>1, <2>2, WindowHasRanks
  <2> QED
    BY <1>2, <2>3 DEF ReadsRanks, RanksOf, RankedBetween, RankFrom, RankWindow
<1>4. RanksCountPredecessors
  BY <1>1, <1>2, RanksCount DEF RanksCountPredecessors
<1>5. CountMatchesRange
  <2>1. SUFFICES ASSUME mode = "BYSCORE"
                 PROVE  CountMatchesRange
    BY DEF CountMatchesRange
  <2>2. first \in ScoreBounds /\ second \in ScoreBounds
    BY <2>1 DEF ReadInv, ReadTypes
  <2>3. done => ZCount(stored, IF rev THEN second ELSE first, IF rev THEN first ELSE second)
                  = Len(pages)
    <3>1. done => pages = ZRangeByBounds(stored, "BYSCORE", first, second, rev, NoLimit)
      BY <2>1 DEF ReadInv, PagesInv, AtOnce
    <3>2. ZCount(stored, IF rev THEN second ELSE first, IF rev THEN first ELSE second)
            = Len(ZRangeByBounds(stored, "BYSCORE", first, second, rev, NoLimit))
      BY <1>1, CountIsLength
    <3> QED
      BY <3>1, <3>2, Zenon
  <2> QED
    BY <1>1, <2>1, <2>2, <2>3, CountsAddUp DEF CountMatchesRange
<1> QED
  BY <1>3, <1>4, <1>5 DEF RanksAndCountsAgree

(* For every finite set of members, all scores, ranks and bounds: ZRANGE   *)
(* by rank returns exactly the members with the ranks asked for, in order, *)
(* a rank is the number of members before it, and ZCOUNT counts what       *)
(* ZRANGE BYSCORE returns.                                                 *)
THEOREM RanksAndCountsRead == ReadSpec => []RanksAndCountsAgree
<1>1. ReadInit => ReadInv
  BY ReadInvInit
<1>2. ReadInv /\ [ReadNext]_readVars => ReadInv'
  BY ReadStep
<1>3. ReadInv => RanksAndCountsAgree
  BY ReadInvRanks
<1> QED
  BY <1>1, <1>2, <1>3, PTL DEF ReadSpec
=============================================================================
