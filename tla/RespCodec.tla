----------------------------- MODULE RespCodec -----------------------------
(***************************************************************************)
(* The RESP decoder of src/src/protocol/resp_codec.cpp as operators on the *)
(* buffered stream.  A byte is a one-character string: "*", "$" and ":"    *)
(* introduce an array, a bulk string and an integer, "r" and "n" stand for *)
(* CR and LF, digits and signs make numbers, anything else is payload.     *)
(***************************************************************************)
EXTENDS Integers, Sequences
LOCAL INSTANCE TLC

CONSTANTS
  MaxStreamBytes,     \* max_stream_bytes_
  MaxBulkBytes,       \* limits_.max_bulk_bytes
  MaxArrayElements    \* limits_.max_array_elements

ASSUME LimitAssumption ==
  /\ MaxStreamBytes \in Nat /\ MaxBulkBytes \in Nat /\ MaxArrayElements \in Nat

CRLF == <<"r", "n">>

Digits == {"0", "1", "2", "3", "4", "5", "6", "7", "8", "9"}

DigitValue == [d \in Digits |-> CHOOSE v \in 0..9 : ToString(v) = d]

AllDigits(s) == s # <<>> /\ \A i \in DOMAIN s : s[i] \in Digits

DecimalValue(s) ==
  LET value[i \in 0..Len(s)] ==
        IF i = 0 THEN 0 ELSE 10 * value[i - 1] + DigitValue[s[i]]
  IN value[Len(s)]

IsSigned(s) == s # <<>> /\ Head(s) \in {"-", "+"}

Unsigned(s) == IF IsSigned(s) THEN Tail(s) ELSE s

\* common::ParseInt64: the whole text is a decimal integer.
IsInteger(s) == AllDigits(Unsigned(s))

IntegerOf(s) ==
  LET magnitude == DecimalValue(Unsigned(s))
  IN IF IsSigned(s) /\ Head(s) = "-" THEN - magnitude ELSE magnitude

IsLineEnd(s, i) == s[i] = "r" /\ s[i + 1] = "n"

\* The index of the first CRLF at or after `from`; 0 when there is none.
LineEnd(s, from) ==
  IF \E i \in from..Len(s) - 1 : IsLineEnd(s, i)
  THEN CHOOSE i \in from..Len(s) - 1 : IsLineEnd(s, i) /\ \A j \in from..i - 1 : ~IsLineEnd(s, j)
  ELSE 0

NeedMore == [status |-> "need_more"]
Malformed == [status |-> "error"]
Unpacked(kind, text, next) ==
  [status |-> "ok", kind |-> kind, text |-> text, next |-> next]

UnpackBulk(s, from, line, n) ==
  LET end == line + 1 + n
  IN IF n = -1 THEN Unpacked("null", <<>>, line + 2)
     ELSE IF n < 0 \/ n > MaxBulkBytes THEN Malformed
     ELSE IF Len(s) < end + 2 THEN NeedMore
     ELSE IF SubSeq(s, end + 1, end + 2) # CRLF THEN Malformed
     ELSE Unpacked("bulk", SubSeq(s, line + 2, end), end + 3)

\* A scalar at index `from` whose header line ends at `line`.
UnpackLine(s, from, line) ==
  LET number == SubSeq(s, from + 1, line - 1)
  IN IF from > Len(s) THEN NeedMore
     ELSE IF s[from] \notin {"$", ":"} THEN Malformed
     ELSE IF line = 0 THEN NeedMore
     ELSE IF ~IsInteger(number) THEN Malformed
     ELSE IF s[from] = ":" THEN Unpacked("integer", number, line + 2)
     ELSE UnpackBulk(s, from, line, IntegerOf(number))

\* The element of a singleton; TLC computes what is bound in it only once.
Only(singleton) == CHOOSE x \in singleton : TRUE

\* redis::UnpackOne on one scalar that starts at index `from`.
UnpackScalar(s, from) ==
  Only({UnpackLine(s, at, line) : at \in {from}, line \in {LineEnd(s, from)}})

\* redis::UnpackOne on an array of `count` scalars whose first starts at
\* `from`: the scalars in order, from the first that is not complete or not
\* well formed on that one's verdict.
UnpackElements(s, count, from) ==
  LET element[i \in 1..count] ==
        IF i = 1 THEN UnpackScalar(s, from)
        ELSE IF element[i - 1].status = "ok" THEN UnpackScalar(s, element[i - 1].next)
        ELSE element[i - 1]
  IN element

\* AppendBytes accepts `bytes` into a stream that holds `stream`.
FitsStream(stream, bytes) == Len(stream) + Len(bytes) <= MaxStreamBytes

NoCommand == [status |-> "none"]
Refused == [status |-> "error"]
Command(args, consumed) == [status |-> "command", args |-> args, consumed |-> consumed]

\* The array length announced by the header line is one NextCommand takes.
HeaderAccepted(s, line) ==
  LET number == SubSeq(s, 2, line - 1)
  IN s[1] = "*" /\ IsInteger(number) /\ IntegerOf(number) \in 0..MaxArrayElements

\* The number of elements and the name the buffered command announces, which
\* NextCommand hands to the request policy.
AnnouncedCount(s) == IntegerOf(SubSeq(s, 2, LineEnd(s, 1) - 1))
AnnouncedName(s) == UnpackScalar(s, LineEnd(s, 1) + 2).text

\* The request policy runs on the command name as soon as it has arrived;
\* accepted is its answer.
PolicyVerdict(s, count, line, accepted) ==
  LET name == UnpackScalar(s, line + 2)
  IN IF count = 0 THEN "go_on"
     ELSE IF name.status = "need_more" THEN "wait"
     ELSE IF name.status = "ok" /\ name.kind = "bulk" /\ accepted
     THEN "go_on"
     ELSE "refuse"

\* Every element takes at least the six bytes of an empty bulk string.
BodyMayBeComplete(s, count, line) == count <= (Len(s) - line - 1) \div 6

\* ConvertCommand takes arrays of bulk strings only.
IsCommand(elements) == \A i \in DOMAIN elements : elements[i].kind = "bulk"
ConvertCommand(elements) == [i \in DOMAIN elements |-> elements[i].text]

CommandBody(elements, start) ==
  LET count == Len(elements)
      last == elements[count]
  IN IF count = 0 THEN Command(<<>>, start - 1)
     ELSE IF last.status = "need_more" THEN NoCommand
     ELSE IF last.status = "error" \/ ~IsCommand(elements) THEN Refused
     ELSE Command(ConvertCommand(elements), last.next - 1)

\* NextCommand on the buffered stream s: no complete command yet, a protocol
\* error, or the arguments of the first command and the bytes it took.  The
\* answer of the request policy counts only once the name has arrived.
NextCommand(s, accepted) ==
  LET line  == LineEnd(s, 1)
      count == AnnouncedCount(s)
      policy == PolicyVerdict(s, count, line, accepted)
  IN IF line = 0 THEN NoCommand
     ELSE IF ~HeaderAccepted(s, line) \/ policy = "refuse" THEN Refused
     ELSE IF policy = "wait" \/ ~BodyMayBeComplete(s, count, line) THEN NoCommand
     ELSE CommandBody(UnpackElements(s, count, line + 2), line + 2)
=============================================================================
