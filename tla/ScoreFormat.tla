------------------------------- MODULE ScoreFormat -------------------------------
(***************************************************************************)
(* How a sorted-set score is written into a snapshot and read back.  A     *)
(* score is mant * 10^k with the decimal point after the first digit of    *)
(* mant and exponent exp: [mant |-> 15, exp |-> 20] is 1.5e20.  mant has   *)
(* no trailing zero, so two scores are equal iff their records are.        *)
(*                                                                         *)
(* The stream prints a score with exp in -4 .. Precision - 1 without an    *)
(* exponent, any other one as d.ddde+XX, and never prints a trailing zero  *)
(* of the fraction.                                                        *)
(***************************************************************************)
EXTENDS Integers

CONSTANTS
    Precision,   \* std::setprecision
    Mantissas,   \* the digits of the scores of the instance, no zero at the end
    Exponents    \* and their exponents

VARIABLES
    score,   \* the score stored by the primary
    text     \* what the snapshot payload holds

scoreVars == <<score, text>>

NoText == [scientific |-> FALSE, mant |-> 0, exp |-> 0]

Scientific(s) == s.exp < -4 \/ s.exp >= Precision

(* Whether the text has a '.': a second digit in d.ddde+XX, a digit after  *)
(* the units otherwise.                                                    *)
HasPoint(s) ==
    IF Scientific(s) THEN s.mant >= 10
    ELSE \/ s.exp < 0
         \/ s.mant \div 10 ^ s.exp >= 10

(* The digits of a number without the '0's at its end.                     *)
WithoutTrailingZeros(n) ==
    CHOOSE m \in 1 .. n : m % 10 # 0 /\ \E k \in 0 .. 3 : n = m * 10 ^ k

(* FormatScore drops every '0' at the end of a text with a '.': in         *)
(* d.ddde+XX those are digits of the exponent.                             *)
FormatScore(s) ==
    LET exp == IF s.exp >= 0 THEN s.exp ELSE -s.exp
        sign == IF s.exp >= 0 THEN 1 ELSE -1
    IN  [scientific |-> Scientific(s),
         mant |-> s.mant,
         exp |-> IF Scientific(s) /\ HasPoint(s)
                 THEN sign * WithoutTrailingZeros(exp)
                 ELSE s.exp]

(* The decoder reads the number that the text denotes.                     *)
ParseScore(t) == [mant |-> t.mant, exp |-> t.exp]

Init ==
    /\ score \in [mant : Mantissas, exp : Exponents]
    /\ text = NoText

EncodeScore ==
    /\ text = NoText
    /\ text' = FormatScore(score)
    /\ UNCHANGED score

Spec == Init /\ [][EncodeScore]_scoreVars

(* A snapshot gives the replica the scores of the primary.                 *)
ScoresRoundTrip == text # NoText => ParseScore(text) = score
=============================================================================
