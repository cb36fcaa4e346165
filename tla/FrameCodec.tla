----------------------------- MODULE FrameCodec -----------------------------
(***************************************************************************)
(* Replication frames as CACHE.REPL commands (src/src/repl/repl_frame.cpp).*)
(* EncodeFrame and DecodeFrame are operators on sequences of texts; a      *)
(* behaviour encodes one frame, the connection delivers it as it is, cut,  *)
(* extended or damaged in one argument, and the receiver decodes it.       *)
(***************************************************************************)
EXTENDS DecimalText, Integers, Sequences

CONSTANTS
  Ids,              \* replica and session ids
  Values,           \* slot ids, sequence numbers, times
  PositionLists,    \* the slot_positions of HELLO and DONE
  Payloads,         \* snapshot payloads
  Records,          \* the arguments of log records
  FrameNoise,            \* the texts a damaged argument may become
  ProtocolVersion   \* kProtocolVersion

\* Numbers have a text, and so has the length of every list.
ASSUME FrameAssumption ==
  /\ Values \subseteq Numbers /\ ProtocolVersion \in Numbers
  /\ \A p \in PositionLists : p \in Seq(Numbers \X Numbers) /\ Len(p) \in Numbers
  /\ \A r \in Records : r \in Seq({r[i] : i \in DOMAIN r}) /\ Len(r) \in Numbers

VARIABLES frame, args, decoded

frameVars == <<frame, args, decoded>>

Hello(replica, session, positions) ==
  [subcmd |-> "HELLO", replica |-> replica, session |-> session, positions |-> positions]
Begin(session, reset) == [subcmd |-> "BEGIN", session |-> session, reset |-> reset]
Snapshot(session, slot, base, payload) ==
  [subcmd |-> "SNAPSHOT", session |-> session, slot |-> slot, base |-> base, payload |-> payload]
Log(session, slot, seq, written, deadline, record) ==
  [subcmd |-> "LOG", session |-> session, slot |-> slot, seq |-> seq,
   written |-> written, deadline |-> deadline, record |-> record]
Done(session, positions) == [subcmd |-> "DONE", session |-> session, positions |-> positions]

NoFrame == [subcmd |-> "none"]
Pending == [subcmd |-> "pending"]

FrameSet ==
  {Hello(r, s, p) : r \in Ids, s \in Ids, p \in PositionLists}
    \cup {Begin(s, b) : s \in Ids, b \in BOOLEAN}
    \cup {Snapshot(s, n, m, p) : s \in Ids, n \in Values, m \in Values, p \in Payloads}
    \cup {Log(s, n, m, w, d, r) : s \in Ids, n \in Values, m \in Values,
                                  w \in Values, d \in Values, r \in Records}
    \cup {Done(s, p) : s \in Ids, p \in PositionLists}

EncodePositions(positions) ==
  <<Text(Len(positions))>>
    \o [i \in 1..2 * Len(positions) |->
          Text(IF i % 2 = 1 THEN positions[(i + 1) \div 2][1] ELSE positions[i \div 2][2])]

EncodeFrame(f) ==
  <<"CACHE.REPL", f.subcmd>> \o
  CASE f.subcmd = "HELLO" ->
         <<f.replica, Text(ProtocolVersion), f.session>> \o EncodePositions(f.positions)
    [] f.subcmd = "SNAPSHOT" -> <<f.session, Text(f.slot), Text(f.base), f.payload>>
    [] f.subcmd = "LOG" ->
         <<f.session, Text(f.slot), Text(f.seq), Text(f.written), Text(f.deadline),
           Text(Len(f.record))>> \o f.record
    [] f.subcmd = "BEGIN" -> <<f.session, IF f.reset THEN "1" ELSE "0">>
    [] f.subcmd = "DONE" -> <<f.session>> \o EncodePositions(f.positions)

\* A reader that takes the pairs it finds for the pairs that were announced.
PositionsUncounted(a, start) ==
  LET rest == Len(a) - start
  IN /\ start <= Len(a)
     /\ rest % 2 = 0
     /\ \A i \in start..Len(a) : IsNumber(a[i])

\* Positions(): a count and that many pairs of numbers, up to the end.
PositionsValid(a, start) ==
  LET rest == Len(a) - start
  IN /\ start <= Len(a)
     /\ IsNumber(a[start])
     /\ rest % 2 = 0 /\ ValueOf(a[start]) = rest \div 2
     /\ \A i \in (start + 1)..Len(a) : IsNumber(a[i])

PositionsOf(a, start) ==
  [i \in 1..((Len(a) - start) \div 2) |->
     <<ValueOf(a[start + 2 * i - 1]), ValueOf(a[start + 2 * i])>>]

HelloValid(a) ==
  /\ Len(a) >= 6
  /\ IsNumber(a[4]) /\ ValueOf(a[4]) = ProtocolVersion
  /\ PositionsValid(a, 6)

SnapshotValid(a) == Len(a) = 6 /\ IsNumber(a[4]) /\ IsNumber(a[5])

LogValid(a) ==
  /\ Len(a) >= 8
  /\ \A i \in 4..8 : IsNumber(a[i])
  /\ ValueOf(a[8]) = Len(a) - 8

BeginValid(a) == Len(a) = 4 /\ a[4] \in {"0", "1"} /\ a[3] # ""

DecodeFrame(a) ==
  IF Len(a) < 3 \/ a[1] # "CACHE.REPL" THEN NoFrame
  ELSE CASE a[2] = "HELLO" /\ HelloValid(a) -> Hello(a[3], a[5], PositionsOf(a, 6))
         [] a[2] = "SNAPSHOT" /\ SnapshotValid(a) ->
              Snapshot(a[3], ValueOf(a[4]), ValueOf(a[5]), a[6])
         [] a[2] = "LOG" /\ LogValid(a) ->
              Log(a[3], ValueOf(a[4]), ValueOf(a[5]), ValueOf(a[6]), ValueOf(a[7]),
                  SubSeq(a, 9, Len(a)))
         [] a[2] = "BEGIN" /\ BeginValid(a) -> Begin(a[3], a[4] = "1")
         [] a[2] = "DONE" /\ PositionsValid(a, 4) -> Done(a[3], PositionsOf(a, 4))
         [] OTHER -> NoFrame

FrameArrivals(sent) ==
  {SubSeq(sent, 1, n) : n \in 0..Len(sent)}
    \cup {Append(sent, text) : text \in FrameNoise}
    \cup {[sent EXCEPT ![i] = text] : i \in DOMAIN sent, text \in FrameNoise}

FrameInit ==
  /\ frame \in FrameSet
  /\ args \in FrameArrivals(EncodeFrame(frame))
  /\ decoded = Pending

Receive ==
  /\ decoded = Pending
  /\ decoded' = DecodeFrame(args)
  /\ UNCHANGED <<frame, args>>

FrameNext == Receive

FrameSpec == FrameInit /\ [][FrameNext]_frameVars

-----------------------------------------------------------------------------
Received == decoded # Pending

\* A frame that arrives as it was sent is the frame that was sent, with every
\* field in its place.
FrameRoundTrip ==
  Received /\ args = EncodeFrame(frame) =>
    decoded = IF frame.subcmd = "BEGIN" /\ frame.session = "" THEN NoFrame ELSE frame

\* What is taken for a frame is the encoding of that frame, argument by
\* argument, up to zeros in front of a number: a cut or extended list of
\* positions or arguments is never read as a shorter frame, and no argument is
\* ignored.
FrameIsCanonical ==
  Received /\ decoded # NoFrame =>
    LET written == EncodeFrame(decoded)
    IN Len(args) = Len(written) /\ \A i \in 1..Len(args) : Spells(args[i], written[i])

\* Both: nothing is lost and nothing is made up between the two ends.
FramesAreExact == FrameRoundTrip /\ FrameIsCanonical
=============================================================================
