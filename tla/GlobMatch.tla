-------------------------------- MODULE GlobMatch -------------------------------
(***************************************************************************)
(* The glob matcher of SCAN ... MATCH: MatchAt's loop as a state machine,  *)
(* one iteration per step, compared with what a pattern means.  The loop   *)
(* remembers only the last star it saw and restarts from there.            *)
(*                                                                         *)
(* Characters are their codes, because classes have ranges; indices are    *)
(* one larger than in the code.                                            *)
(***************************************************************************)
EXTENDS Integers, Sequences, FiniteSets

CONSTANTS
    Inputs      \* the pairs of a pattern and a text of the instance

ASSUME GlobAssumption == Inputs \subseteq Seq(Int) \X Seq(Int)

Star == 42      \* *
Hyphen == 45    \* -
Question == 63  \* ?
Open == 91      \* [
Escape == 92    \* \
Close == 93     \* ]
Caret == 94     \* ^

NoStar == 0

-----------------------------------------------------------------------------
(* ParseClassAtom: a character, or the one after an escape.                *)
IsEscape(p, i) == p[i] = Escape /\ i < Len(p)
AtomAt(p, i) == IF IsEscape(p, i) THEN p[i + 1] ELSE p[i]
AfterAtom(p, i) == IF IsEscape(p, i) THEN i + 2 ELSE i + 1

(* Mutant: a range whose ends are not put in order has no members.         *)
BetweenUnordered(x, y) == x .. y

(* The ends of a range are put in order: its members and its larger end.   *)
Between(x, y) == IF x > y THEN y .. x ELSE x .. y
LargerOf(x, y) == IF x > y THEN x ELSE y

Unclosed == [closed |-> FALSE, end |-> 0, atoms |-> {}]

WithAtoms(scan, atoms) == [scan EXCEPT !.atoms = @ \cup atoms]

(* Mutant: a class ends at its first ], even when nothing precedes it.     *)
EagerClass(p, first) ==
    LET scan[i \in 1 .. Len(p) + 2] ==
            IF i > Len(p) THEN Unclosed
            ELSE IF p[i] = Close THEN [closed |-> TRUE, end |-> i + 1, atoms |-> {}]
            ELSE WithAtoms(scan[AfterAtom(p, i)], {AtomAt(p, i)})
    IN  scan[first]

(* The members of a class that starts at first: a ] there is a member, a   *)
(* hyphen after an unescaped atom makes a range.  Whether a range also     *)
(* closes the class is decided after its ends are in order: it does when   *)
(* the larger one is ] and what stood behind the hyphen is not escaped.    *)
ScanClass(p, first) ==
    LET IsRange(i) == ~IsEscape(p, i) /\ AfterAtom(p, i) < Len(p) /\ p[AfterAtom(p, i)] = Hyphen
        scan[i \in 1 .. Len(p) + 2] ==
            IF i > Len(p) THEN Unclosed
            ELSE IF p[i] = Close /\ i # first
            THEN [closed |-> TRUE, end |-> i + 1, atoms |-> {}]
            ELSE IF ~IsRange(i)
            THEN WithAtoms(scan[AfterAtom(p, i)], {AtomAt(p, i)})
            ELSE LET last == AfterAtom(p, i) + 1
                     range == Between(AtomAt(p, i), AtomAt(p, last))
                     closes == ~IsEscape(p, last) /\ LargerOf(AtomAt(p, i), AtomAt(p, last)) = Close
                 IN  IF closes
                     THEN [closed |-> TRUE, end |-> AfterAtom(p, last), atoms |-> range]
                     ELSE WithAtoms(scan[AfterAtom(p, last)], range)
    IN  scan[first]

(* MatchClass and MatchOne: the index after the token at i if the token    *)
(* matches the character, 0 if it does not.                                *)
MatchClass(p, i, char) ==
    LET negate == i <= Len(p) /\ p[i] = Caret
        class == ScanClass(p, IF negate THEN i + 1 ELSE i)
    IN  IF class.closed /\ (char \in class.atoms) # negate THEN class.end ELSE 0

MatchOne(p, i, char) ==
    CASE p[i] = Star -> 0
      [] p[i] = Question -> i + 1
      [] p[i] = Open -> MatchClass(p, i + 1, char)
      [] OTHER -> IF AtomAt(p, i) = char THEN AfterAtom(p, i) ELSE 0

-----------------------------------------------------------------------------
VARIABLES
    pattern, text,                     \* the arguments
    patternIndex, textIndex,           \* the position
    starPatternIndex, starTextIndex,   \* where to restart: after the last star
    result                             \* "running", "match" or "mismatch"

vars == <<pattern, text, patternIndex, textIndex, starPatternIndex, starTextIndex, result>>

Init ==
    /\ \E input \in Inputs : pattern = input[1] /\ text = input[2]
    /\ patternIndex = 1
    /\ textIndex = 1
    /\ starPatternIndex = NoStar
    /\ starTextIndex = 1
    /\ result = "running"

InText == result = "running" /\ textIndex <= Len(text)
AtStar == patternIndex <= Len(pattern) /\ pattern[patternIndex] = Star

(* The first index from i on that is not a star.                           *)
AfterStars(i) ==
    CHOOSE j \in i .. Len(pattern) + 1 :
        /\ \A k \in i .. j - 1 : pattern[k] = Star
        /\ j <= Len(pattern) => pattern[j] # Star

(* A run of stars becomes the place to come back to.                       *)
PassStars ==
    /\ InText /\ AtStar
    /\ patternIndex' = AfterStars(patternIndex)
    /\ starPatternIndex' = AfterStars(patternIndex)
    /\ starTextIndex' = textIndex
    /\ UNCHANGED <<pattern, text, textIndex, result>>

NextIndex ==
    IF patternIndex > Len(pattern) THEN 0
    ELSE MatchOne(pattern, patternIndex, text[textIndex])

(* A token matches one character.                                          *)
PassToken ==
    /\ InText /\ ~AtStar /\ NextIndex # 0
    /\ patternIndex' = NextIndex
    /\ textIndex' = textIndex + 1
    /\ UNCHANGED <<pattern, text, starPatternIndex, starTextIndex, result>>

(* Mutants: the star does not take one character more; the star takes the  *)
(* character that failed to match, not the one after its last.             *)
RestartInPlace ==
    /\ InText /\ ~AtStar /\ NextIndex = 0
    /\ starPatternIndex # NoStar
    /\ textIndex' = starTextIndex
    /\ patternIndex' = starPatternIndex
    /\ UNCHANGED <<pattern, text, starPatternIndex, starTextIndex, result>>

RestartAfterFailure ==
    /\ InText /\ ~AtStar /\ NextIndex = 0
    /\ starPatternIndex # NoStar
    /\ starTextIndex' = textIndex + 1
    /\ textIndex' = textIndex + 1
    /\ patternIndex' = starPatternIndex
    /\ UNCHANGED <<pattern, text, starPatternIndex, result>>

(* No match: the last star takes one character more.                       *)
Restart ==
    /\ InText /\ ~AtStar /\ NextIndex = 0
    /\ starPatternIndex # NoStar
    /\ starTextIndex' = starTextIndex + 1
    /\ textIndex' = starTextIndex + 1
    /\ patternIndex' = starPatternIndex
    /\ UNCHANGED <<pattern, text, starPatternIndex, result>>

Fail ==
    /\ InText /\ ~AtStar /\ NextIndex = 0
    /\ starPatternIndex = NoStar
    /\ result' = "mismatch"
    /\ UNCHANGED <<pattern, text, patternIndex, textIndex, starPatternIndex, starTextIndex>>

(* The text is used up: only stars may be left of the pattern.             *)
EndOfText ==
    /\ result = "running" /\ textIndex > Len(text)
    /\ patternIndex' = AfterStars(patternIndex)
    /\ result' = IF patternIndex' > Len(pattern) THEN "match" ELSE "mismatch"
    /\ UNCHANGED <<pattern, text, textIndex, starPatternIndex, starTextIndex>>

Next == PassStars \/ PassToken \/ Restart \/ Fail \/ EndOfText

Spec == Init /\ [][Next]_vars /\ WF_vars(Next)

-----------------------------------------------------------------------------
(* What a pattern means: a star stands for any text, every other token for *)
(* one character.  From[i] has the places of the text from where on the    *)
(* pattern from i on matches the rest of the text.                         *)
Means(p, t) ==
    LET From[i \in 1 .. Len(p) + 1] ==
            IF i > Len(p) THEN {Len(t) + 1}
            ELSE IF p[i] = Star
            THEN LET rest == From[i + 1]
                 IN  {j \in 1 .. Len(t) + 1 : \E k \in rest : j <= k}
            ELSE {j \in 1 .. Len(t) : /\ MatchOne(p, i, t[j]) # 0
                                      /\ j + 1 \in From[MatchOne(p, i, t[j])]}
    IN  1 \in From[1]

(* Restarting from the last star alone, and never from an earlier one,     *)
(* loses no match and invents none, on tokens as MatchOne reads them; how  *)
(* a class is read is what the properties below are about.                 *)
ResultIsMeaning == result # "running" => (result = "match") = Means(pattern, text)

(* The restarts end: the matcher always returns.                           *)
Terminates == <>(result # "running")

(* Where a class ends depends on the pattern alone: whatever characters a  *)
(* class accepts, matching goes on at the same place, and [^...] accepts   *)
(* exactly the characters that [...] refuses, an unclosed class none; a ]  *)
(* right after the opening is a member and not the end.                    *)
Chars == {text[i] : i \in 1 .. Len(text)} \cup {pattern[i] : i \in 1 .. Len(pattern)}

NegationIsComplement ==
    \A i \in 1 .. Len(pattern) :
        (pattern[i] = Open /\ i < Len(pattern) /\ pattern[i + 1] # Caret) =>
            LET negated == SubSeq(pattern, 1, i) \o <<Caret>> \o SubSeq(pattern, i + 1, Len(pattern))
                accepts == {c \in Chars : MatchOne(pattern, i, c) # 0}
                refuses == {c \in Chars : MatchOne(negated, i, c) # 0}
            IN  /\ accepts \cap refuses = {}
                /\ accepts \cup refuses \in {{}, Chars}
                /\ \A c, d \in accepts : MatchOne(pattern, i, c) = MatchOne(pattern, i, d)
                /\ \A c \in accepts, d \in refuses :
                     MatchOne(negated, i, d) = MatchOne(pattern, i, c) + 1
                /\ pattern[i + 1] = Close => Close \notin refuses

(* A range at the start of a class reads the same written backwards, what  *)
(* follows it and where the class ends included, even when an end is ]:    *)
(* its ends are put in order before anything else is decided.  And a class *)
(* that accepts anything accepts both ends and all that lies between.      *)
IsPlain(c) == c \notin {Caret, Escape}

RangesReadBothWays ==
    \A i \in 1 .. Len(pattern) - 3 :
        LET x == pattern[i + 1]
            y == pattern[i + 3]
            turned == [pattern EXCEPT ![i + 1] = y, ![i + 3] = x]
        IN  (pattern[i] = Open /\ pattern[i + 2] = Hyphen /\ IsPlain(x) /\ IsPlain(y)) =>
                /\ \A c \in Chars : MatchOne(turned, i, c) = MatchOne(pattern, i, c)
                /\ (\E c \in Chars : MatchOne(pattern, i, c) # 0) =>
                     \A c \in Chars : (x <= c /\ c <= y) \/ (y <= c /\ c <= x)
                                        => MatchOne(pattern, i, c) # 0

(* A class is read the same whatever it is matched with, with ^ or without *)
(* it, and a range whichever way round it is written.                      *)
ClassesAreConsistent == NegationIsComplement /\ RangesReadBothWays

(* What the tests say of ranges, for a class of one range: it may end at   *)
(* the closing bracket and then matches the bytes between, and one written *)
(* backwards matches the same bytes in order.  The code refutes it: the    *)
(* ends change places first, so for [a-] no closing bracket is left.       *)
RangeMayEndAtBracket ==
    (/\ Len(pattern) = 4 /\ pattern[1] = Open /\ pattern[3] = Hyphen /\ pattern[4] = Close
     /\ IsPlain(pattern[2]) /\ Len(text) = 1 /\ text[1] \in Between(pattern[2], Close))
        => result # "mismatch"
=============================================================================
