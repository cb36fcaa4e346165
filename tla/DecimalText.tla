----------------------------- MODULE DecimalText -----------------------------
(***************************************************************************)
(* Numbers inside replication frames and snapshot payloads travel as texts *)
(* (src/src/repl/snapshot_codec.cpp, src/src/repl/repl_frame.cpp).  They   *)
(* are written by std::to_string and read by std::from_chars, which reads  *)
(* a number with zeros in front of it as well.                             *)
(***************************************************************************)
EXTENDS Naturals

CONSTANTS
  Text(_),       \* std::to_string of a number
  Spellings(_),  \* the texts that std::from_chars reads as a number
  MaxNumber      \* the largest number: every size, time and sequence number fits

Numbers == 0..MaxNumber

ASSUME SpellingAssumption ==
  /\ MaxNumber \in Nat
  /\ \A n \in Numbers : Text(n) \in Spellings(n)
  /\ \A m, n \in Numbers : Spellings(m) \cap Spellings(n) # {} => m = n

IsNumber(text) == \E n \in Numbers : text \in Spellings(n)
ValueOf(text) == CHOOSE n \in Numbers : text \in Spellings(n)

\* The text, or the same number as it would be written.
Spells(text, written) == text = written \/ (IsNumber(text) /\ written = Text(ValueOf(text)))
=============================================================================
