-------------------------- MODULE ConnectionProofs --------------------------
(***************************************************************************)
(* Proofs about Connection, for every client, however its bytes are cut    *)
(* and whatever the decoder makes of them.                                 *)
(*                                                                         *)
(* What the socket has taken, followed by what waits to be written, is the *)
(* list of replies to what has been run.  For that to be kept when an      *)
(* oversized read replaces the output by an error, nothing may wait while  *)
(* the coroutine reads; and the error may be queued only when the          *)
(* connection is closing.                                                  *)
(***************************************************************************)
EXTENDS Connection, InductionProofs, SequenceTheorems

(* What can be written for commands of C.                                  *)
Units(C) ==
  {Frames[i] : i \in DOMAIN Frames} \cup {ErrorReply, FrameError} \cup {ReplyTo(c) : c \in C}

(* What RepliesTo computes, as a function of how many commands are done.   *)
IsReplies(f, commands) ==
  \A n \in 0 .. Len(commands) :
    f[n] = IF n = 0 THEN <<>> ELSE f[n - 1] \o ReplyUnits(commands[n])

(* A reply is a sequence of output units.                                  *)
LEMMA UnitsOfReply ==
  ASSUME NEW C, NEW c \in C
  PROVE  ReplyUnits(c) \in Seq(Units(C))
<1>1. Frames \in Seq(Units(C))
  <2>1. \A i \in DOMAIN Frames : Frames[i] \in Units(C)
    BY DEF Units
  <2> QED
    BY <2>1, ConnectionAssumption
<1>2. FrameError \in Units(C) /\ ReplyTo(c) \in Units(C)
  BY DEF Units
<1>3. <<FrameError>> \in Seq(Units(C)) /\ <<ReplyTo(c)>> \in Seq(Units(C))
  BY <1>2
<1> QED
  BY <1>1, <1>3 DEF ReplyUnits

(* The recursion defines something.                                        *)
LEMMA RepliesExist ==
  ASSUME NEW C, NEW commands \in Seq(C)
  PROVE  \E f \in [0 .. Len(commands) -> Seq(Units(C))] :
           IsReplies(f, commands) /\ RepliesTo(commands) = f[Len(commands)]
<1>1. PICK N \in Nat : N = Len(commands)
  OBVIOUS
<1>2. PICK V : V = Seq(Units(C))
  OBVIOUS
<1>3. \A n \in 1 .. N : ReplyUnits(commands[n]) \in V
  <2>1. \A n \in 1 .. N : commands[n] \in C
    BY <1>1
  <2> QED
    BY <1>2, <2>1, UnitsOfReply
<1> DEFINE step == [p \in Nat \X V |->
                      IF p[1] \in 1 .. N THEN p[2] \o ReplyUnits(commands[p[1]]) ELSE p[2]]
<1>4. step \in [Nat \X V -> V]
  <2>1. ASSUME NEW n \in Nat, NEW v \in V
        PROVE  (IF n \in 1 .. N THEN v \o ReplyUnits(commands[n]) ELSE v) \in V
    BY <1>2, <1>3
  <2> QED
    BY <2>1
<1>5. <<>> \in V
  BY <1>2
<1>6. ASSUME NEW n \in 1 .. N, NEW v \in V
      PROVE  step[<<n, v>>] = v \o ReplyUnits(commands[n])
  <2>1. <<n, v>> \in Nat \X V /\ <<n, v>>[1] = n /\ <<n, v>>[2] = v
    BY <1>1
  <2> QED
    BY <2>1
<1> HIDE DEF step
<1>7. PICK f \in [0 .. N -> V] : IsRecursion(f, N, <<>>, step)
  BY <1>4, <1>5, PartialRecursion
<1>8. ASSUME NEW n \in 0 .. N
      PROVE  f[n] = IF n = 0 THEN <<>> ELSE f[n - 1] \o ReplyUnits(commands[n])
  <2>1. CASE n = 0
    BY <1>7, <2>1 DEF IsRecursion
  <2>2. CASE n # 0
    <3>1. f[n] = step[<<n, f[n - 1]>>] /\ n \in 1 .. N /\ f[n - 1] \in V
      BY <1>7, <2>2 DEF IsRecursion
    <3> QED
      BY <1>6, <2>2, <3>1
  <2> QED
    BY <2>1, <2>2
<1> DEFINE Def(h) == h = [n \in 0 .. Len(commands) |->
                            IF n = 0 THEN <<>> ELSE h[n - 1] \o ReplyUnits(commands[n])]
           replies == CHOOSE h : Def(h)
<1>9. Def(f)
  BY <1>1, <1>7, <1>8
<1>10. Def(replies)
  <2> HIDE DEF Def
  <2> QED
    BY <1>9
<1>11. replies = [n \in 0 .. N |-> IF n = 0 THEN <<>> ELSE replies[n - 1] \o ReplyUnits(commands[n])]
  BY <1>1, <1>10
<1>12. RepliesTo(commands) = replies[N]
  BY <1>1 DEF RepliesTo
<1> HIDE DEF replies, Def
<1>13. \A n \in 0 .. N :
         replies[n] = IF n = 0 THEN <<>> ELSE replies[n - 1] \o ReplyUnits(commands[n])
  BY <1>11
<1>14. \A n \in 0 .. N : replies[n] \in V
  <2> DEFINE S == {n \in Nat : n \in 0 .. N => replies[n] \in V}
  <2>1. 0 \in S
    BY <1>5, <1>13
  <2>2. ASSUME NEW n \in Nat, n \in S
        PROVE  n + 1 \in S
    <3> SUFFICES ASSUME n + 1 \in 0 .. N
                 PROVE  replies[n + 1] \in V
      OBVIOUS
    <3>1. replies[n + 1] = replies[n] \o ReplyUnits(commands[n + 1])
      BY <1>13
    <3>2. replies[n] \in V /\ ReplyUnits(commands[n + 1]) \in V
      BY <1>3, <2>2
    <3> QED
      BY <1>2, <3>1, <3>2
  <2> HIDE DEF S
  <2>3. Nat \subseteq S
    BY <2>1, <2>2, SetInduction
  <2> QED
    BY <2>3 DEF S
<1>15. replies \in [0 .. N -> V]
  BY <1>11, <1>14
<1> QED
  BY <1>1, <1>2, <1>12, <1>13, <1>15 DEF IsReplies

(* So are the replies to any number of frames.                             *)
LEMMA RepliesAreUnits ==
  ASSUME NEW C, NEW commands \in Seq(C)
  PROVE  RepliesTo(commands) \in Seq(Units(C))
<1>1. PICK f \in [0 .. Len(commands) -> Seq(Units(C))] :
         IsReplies(f, commands) /\ RepliesTo(commands) = f[Len(commands)]
  BY RepliesExist
<1> QED
  BY <1>1

(* One more command adds its replies at the end.                           *)
LEMMA RepliesAppend ==
  ASSUME NEW C, NEW commands \in Seq(C), NEW c \in C
  PROVE  RepliesTo(Append(commands, c)) = RepliesTo(commands) \o ReplyUnits(c)
<1>1. PICK N \in Nat : N = Len(commands)
  OBVIOUS
<1>2. PICK more \in Seq(C) : more = Append(commands, c)
  <2>1. Append(commands, c) \in Seq(C)
    BY AppendProperties
  <2> QED
    BY <2>1
<1>3. Len(more) = N + 1 /\ more[N + 1] = c /\ \A n \in 1 .. N : more[n] = commands[n]
  BY <1>1, <1>2
<1>4. PICK f \in [0 .. N -> Seq(Units(C))] : IsReplies(f, commands) /\ RepliesTo(commands) = f[N]
  BY <1>1, RepliesExist
<1>5. PICK g \in [0 .. N + 1 -> Seq(Units(C))] : IsReplies(g, more) /\ RepliesTo(more) = g[N + 1]
  BY <1>3, RepliesExist
<1> DEFINE S == {n \in Nat : n \in 0 .. N => f[n] = g[n]}
<1>6. 0 \in S
  <2>1. 0 \in 0 .. N /\ 0 \in 0 .. N + 1
    OBVIOUS
  <2>2. f[0] = <<>>
    BY <1>1, <1>4, <2>1 DEF IsReplies
  <2>3. g[0] = <<>>
    BY <1>3, <1>5, <2>1 DEF IsReplies
  <2> QED
    BY <2>2, <2>3
<1>7. ASSUME NEW n \in Nat, n \in S
      PROVE  n + 1 \in S
  <2> SUFFICES ASSUME n + 1 \in 0 .. N
               PROVE  f[n + 1] = g[n + 1]
    OBVIOUS
  <2>1. n + 1 # 0 /\ (n + 1) - 1 = n /\ n + 1 \in 1 .. N /\ n + 1 \in 0 .. N + 1 /\ n \in 0 .. N
    BY <1>1
  <2>2. f[n + 1] = f[n] \o ReplyUnits(commands[n + 1])
    BY <1>1, <1>4, <2>1 DEF IsReplies
  <2>3. g[n + 1] = g[n] \o ReplyUnits(more[n + 1])
    BY <1>3, <1>5, <2>1 DEF IsReplies
  <2>4. f[n] = g[n] /\ more[n + 1] = commands[n + 1]
    BY <1>3, <1>7, <2>1
  <2> QED
    BY <2>2, <2>3, <2>4
<1>8. f[N] = g[N]
  <2> HIDE DEF S
  <2>1. N \in S
    BY <1>6, <1>7, SetInduction
  <2> QED
    BY <2>1 DEF S
<1>9. g[N + 1] = g[N] \o ReplyUnits(c)
  <2>1. N + 1 \in 0 .. N + 1 /\ N + 1 # 0 /\ (N + 1) - 1 = N
    OBVIOUS
  <2> QED
    BY <1>3, <1>5, <2>1 DEF IsReplies
<1> QED
  BY <1>2, <1>4, <1>5, <1>8, <1>9

-----------------------------------------------------------------------------
(* The replies so far, with or without the error that ends the connection. *)
Answered(taken, waiting, done, last) ==
  IF last THEN taken \o waiting \in {RepliesTo(done), Append(RepliesTo(done), ErrorReply)}
  ELSE taken \o waiting = RepliesTo(done)

ReplyInv ==
  /\ closing \in BOOLEAN
  /\ pc = "read" => out = <<>>
  /\ pc \in {"read", "process"} => closing = FALSE
  /\ pc \in {"read", "process", "write", "closed"}
  /\ \E C : /\ executed \in Seq(C) /\ sock \in Seq(Units(C)) /\ out \in Seq(Units(C))
            /\ Answered(sock, out, executed, closing)

(* Sequences over a set are sequences over a larger one.                   *)
LEMMA SeqGrows ==
  ASSUME NEW S, NEW T, S \subseteq T, NEW s \in Seq(S)
  PROVE  s \in Seq(T)
<1>1. \A i \in 1 .. Len(s) : s[i] \in T
  OBVIOUS
<1> QED
  BY <1>1

(* A new connection has answered the no frames it has read.                *)
LEMMA InitAnswered == Init => ReplyInv
<1> SUFFICES ASSUME Init PROVE ReplyInv
  OBVIOUS
<1>1. executed \in Seq({}) /\ sock \in Seq(Units({})) /\ out \in Seq(Units({}))
  BY DEF Init
<1>2. RepliesTo(<<>>) = <<>>
  <2>1. PICK f \in [0 .. 0 -> Seq(Units({}))] : IsReplies(f, <<>>) /\ RepliesTo(<<>>) = f[0]
    <3>1. <<>> \in Seq({}) /\ Len(<<>>) = 0
      OBVIOUS
    <3> QED
      BY <3>1, RepliesExist
  <2> QED
    BY <2>1 DEF IsReplies
<1>3. Answered(sock, out, executed, closing)
  BY <1>2 DEF Init, Answered
<1> QED
  BY <1>1, <1>3 DEF Init, ReplyInv

(* Running a command appends the command and its replies.                  *)
LEMMA RunAnswered ==
  ASSUME NEW C, NEW c, NEW more, executed \in Seq(C), sock \in Seq(Units(C)),
         out \in Seq(Units(C)), sock \o out = RepliesTo(executed),
         more = ReplyUnits(c), sock' = sock, executed' = Append(executed, c), out' = out \o more
  PROVE  \E D : /\ executed' \in Seq(D) /\ sock' \in Seq(Units(D)) /\ out' \in Seq(Units(D))
                /\ sock' \o out' = RepliesTo(executed')
<1> DEFINE D == C \cup {c}
<1>1. C \subseteq D /\ Units(C) \subseteq Units(D) /\ c \in D
  BY DEF Units
<1> HIDE DEF D
<1>2. executed \in Seq(D) /\ sock \in Seq(Units(D)) /\ out \in Seq(Units(D))
  BY <1>1, SeqGrows
<1>3. more \in Seq(Units(D))
  BY <1>1, UnitsOfReply
<1>4. executed' \in Seq(D) /\ out' \in Seq(Units(D))
  BY <1>1, <1>2, <1>3
<1>5. sock \o (out \o more) = (sock \o out) \o more
  BY ONLY <1>2, <1>3, ConcatAssociative, SMTT(30)
<1>6. RepliesTo(executed') = RepliesTo(executed) \o ReplyUnits(c)
  BY <1>1, <1>2, RepliesAppend
<1> QED
  BY <1>2, <1>4, <1>5, <1>6

(* An error goes behind everything.                                        *)
LEMMA ErrorAnswered ==
  ASSUME NEW C, executed \in Seq(C), sock \in Seq(Units(C)), out \in Seq(Units(C)),
         sock \o out = RepliesTo(executed)
  PROVE  /\ Append(out, ErrorReply) \in Seq(Units(C))
         /\ sock \o Append(out, ErrorReply) = Append(RepliesTo(executed), ErrorReply)
<1>1. ErrorReply \in Units(C)
  BY DEF Units
<1>2. \A U : \A s \in Seq(U), o \in Seq(U), e \in U :
        Append(o, e) \in Seq(U) /\ s \o Append(o, e) = Append(s \o o, e)
  OBVIOUS
<1> QED
  BY <1>1, <1>2

(* Bytes that arrive change neither what was executed nor what was         *)
(* answered.                                                               *)
LEMMA ReceiveAnswered ==
  ASSUME ReplyInv, Receive
  PROVE  ReplyInv'
<1>1. PICK C : /\ executed \in Seq(C) /\ sock \in Seq(Units(C)) /\ out \in Seq(Units(C))
               /\ Answered(sock, out, executed, closing)
  BY DEF ReplyInv
<1>2. pc = "read" /\ out = <<>> /\ closing = FALSE /\ UNCHANGED <<sock, executed>>
  BY DEF Receive, ReplyInv
<1>3. CASE pc' = "process" /\ UNCHANGED <<out, closing>>
  BY <1>1, <1>2, <1>3 DEF ReplyInv
<1>4. CASE out' = <<ErrorReply>> /\ closing' = TRUE /\ pc' = "write"
  <2>1. sock \o out = RepliesTo(executed)
    BY <1>1, <1>2 DEF Answered
  <2>2. out' = Append(out, ErrorReply)
    BY <1>2, <1>4
  <2>3. out' \in Seq(Units(C)) /\ sock \o out' = Append(RepliesTo(executed), ErrorReply)
    BY <1>1, <2>1, <2>2, ErrorAnswered
  <2>4. Answered(sock', out', executed', closing')
    BY <1>2, <1>4, <2>3 DEF Answered
  <2> QED
    BY <1>1, <1>2, <1>4, <2>3, <2>4 DEF ReplyInv
<1> QED
  BY <1>3, <1>4 DEF Receive

(* A round of the parser adds the replies of the frames it executes, in    *)
(* their order.                                                            *)
LEMMA ProcessAnswered ==
  ASSUME ReplyInv, Process
  PROVE  ReplyInv'
<1>1. PICK C : /\ executed \in Seq(C) /\ sock \in Seq(Units(C)) /\ out \in Seq(Units(C))
               /\ Answered(sock, out, executed, closing)
  BY DEF ReplyInv
<1>2. pc = "process" /\ closing = FALSE /\ UNCHANGED sock
  BY DEF Process, ReplyInv
<1>3. sock \o out = RepliesTo(executed)
  BY <1>1, <1>2 DEF Answered
<1>4. PICK c : SkipEmpty(c) \/ Execute(c) \/ RejectFrame(c) \/ Poll(c) \/ Drained(c)
                 \/ ProtocolError(c)
  BY DEF Process
<1>5. CASE SkipEmpty(c) \/ Drained(c)
  BY <1>1, <1>2, <1>5 DEF ReplyInv, SkipEmpty, Drained
<1>6. CASE Execute(c) \/ RejectFrame(c) \/ Poll(c)
  <2>1. PICK more : more = ReplyUnits(c.args)
    OBVIOUS
  <2>2. executed' = Append(executed, c.args) /\ out' = out \o more
    <3>1. CASE Execute(c)
      <4>1. more = <<ReplyTo(c.args)>>
        BY <2>1, <3>1 DEF Execute, ReplyUnits, EndsSession
      <4> QED
        BY <1>1, <3>1, <4>1 DEF Execute
    <3>2. CASE RejectFrame(c)
      <4>1. more = <<FrameError>>
        BY <2>1, <3>2 DEF RejectFrame, ReplyUnits, EndsSession
      <4> QED
        BY <1>1, <3>2, <4>1 DEF RejectFrame
    <3>3. CASE Poll(c)
      BY <2>1, <3>3 DEF Poll, ReplyUnits, EndsSession
    <3> QED
      BY <1>6, <3>1, <3>2, <3>3
  <2>3. PICK D : /\ executed' \in Seq(D) /\ sock' \in Seq(Units(D)) /\ out' \in Seq(Units(D))
                 /\ sock' \o out' = RepliesTo(executed')
    BY <1>1, <1>2, <1>3, <2>1, <2>2, RunAnswered
  <2>4. /\ closing' \in BOOLEAN /\ pc' \in {"process", "write"}
        /\ pc' = "process" => closing' = FALSE
    BY <1>2, <1>6 DEF Execute, RejectFrame, Poll
  <2>5. Answered(sock', out', executed', closing')
    BY <2>3 DEF Answered
  <2> QED
    BY <2>3, <2>4, <2>5 DEF ReplyInv
<1>7. CASE ProtocolError(c)
  <2>1. out' = Append(out, ErrorReply) /\ closing' = TRUE /\ pc' = "write" /\ executed' = executed
    BY <1>7 DEF ProtocolError
  <2>2. out' \in Seq(Units(C)) /\ sock \o out' = Append(RepliesTo(executed), ErrorReply)
    BY <1>1, <1>3, <2>1, ErrorAnswered
  <2>3. Answered(sock', out', executed', closing')
    BY <1>2, <2>1, <2>2 DEF Answered
  <2> QED
    BY <1>1, <1>2, <2>1, <2>2, <2>3 DEF ReplyInv
<1> QED
  BY <1>4, <1>5, <1>6, <1>7

(* However a write is cut, taken and waiting together stay the same.       *)
LEMMA WriteAnswered ==
  ASSUME ReplyInv, WriteSome
  PROVE  ReplyInv'
<1>1. PICK C : /\ executed \in Seq(C) /\ sock \in Seq(Units(C)) /\ out \in Seq(Units(C))
               /\ Answered(sock, out, executed, closing)
  BY DEF ReplyInv
<1>2. PICK n \in 0 .. Len(out) :
        /\ sock' = sock \o SubSeq(out, 1, n)
        /\ out' = SubSeq(out, n + 1, Len(out))
        /\ pc' = IF n = Len(out) THEN AfterWrite ELSE "write"
  BY DEF WriteSome
<1>3. UNCHANGED <<closing, executed>> /\ closing \in BOOLEAN
  BY DEF WriteSome, ReplyInv
<1>4. PICK now, later : now = SubSeq(out, 1, n) /\ later = SubSeq(out, n + 1, Len(out))
  OBVIOUS
<1>5. /\ sock' \in Seq(Units(C)) /\ out' \in Seq(Units(C)) /\ sock' \o out' = sock \o out
  <2>1. n \in Int /\ Len(out) \in Nat /\ \A i \in 1 .. Len(out) : out[i] \in Units(C)
    BY <1>1
  <2>2. now \in Seq(Units(C))
    BY <1>4, <2>1, SubSeqProperties
  <2>3. later \in Seq(Units(C))
    <3>1. \A i \in n + 1 .. Len(out) : out[i] \in Units(C)
      BY <2>1
    <3> QED
      BY <1>4, <2>1, <3>1, SubSeqProperties
  <2>4. now \o later = out
    <3>1. SubSeq(out, 1, n) \o SubSeq(out, n + 1, Len(out)) = SubSeq(out, 1, Len(out))
      <4>1. 1 \in 1 .. Len(out) + 1 /\ n \in 1 - 1 .. Len(out) /\ Len(out) \in n .. Len(out)
        BY <2>1
      <4> QED
        BY <1>1, <4>1, ConcatAdjacentSubSeq
    <3> QED
      BY <1>1, <1>4, <3>1, SubSeqFull
  <2>5. (sock \o now) \o later = sock \o (now \o later)
    BY ONLY <1>1, <2>2, <2>3, ConcatAssociative, SMTT(30)
  <2>6. sock \o now \in Seq(Units(C))
    BY <1>1, <2>2, ConcatProperties
  <2> QED
    BY <1>2, <1>4, <2>3, <2>4, <2>5, <2>6
<1>6. n = Len(out) => out' = <<>>
  BY <1>1, <1>2, SubSeqEmpty
<1>7. Answered(sock', out', executed', closing')
  BY <1>1, <1>3, <1>5 DEF Answered
<1> QED
  BY <1>1, <1>2, <1>3, <1>5, <1>6, <1>7 DEF ReplyInv, AfterWrite

(* Every step keeps the correspondence of frames and replies.              *)
LEMMA ReplyStep ==
  ASSUME ReplyInv, [Next]_vars
  PROVE  ReplyInv'
<1>1. CASE UNCHANGED <<out, closing, sock, executed>> /\ (pc' = pc \/ pc' = "closed")
  BY <1>1 DEF ReplyInv
<1>2. CASE Receive \/ Process \/ WriteSome
  BY <1>2, ReceiveAnswered, ProcessAnswered, WriteAnswered
<1> QED
  BY <1>1, <1>2 DEF Next, Serve, ReadEnds, WriteFails, PeerLeaves, vars

(* What the client has received and what is queued for it are the replies  *)
(* to the commands run, in order, each once, but for one error at the end, *)
(* for every client, cut of its bytes, short write and pipeline.           *)
THEOREM RepliesAreInOrder == Spec => []RepliesInOrder
<1>1. Init => ReplyInv
  BY InitAnswered
<1>2. ReplyInv /\ [Next]_vars => ReplyInv'
  BY ReplyStep
<1>3. ReplyInv => RepliesInOrder
  BY DEF ReplyInv, Answered, RepliesInOrder
<1> QED
  BY <1>1, <1>2, <1>3, PTL DEF Spec

-----------------------------------------------------------------------------
(* Joining sequences.                                                      *)

IsFlat(f, pieces) ==
  \A n \in 1 .. Len(pieces) : f[n] = IF n = 1 THEN pieces[n] ELSE f[n - 1] \o pieces[n]

(* The recursion of FlattenSeq defines something.                          *)
LEMMA FlattenExists ==
  ASSUME NEW B, NEW pieces \in Seq(Seq(B)), Len(pieces) # 0
  PROVE  \E f \in [1 .. Len(pieces) -> Seq(B)] :
           IsFlat(f, pieces) /\ FlattenSeq(pieces) = f[Len(pieces)]
<1>1. PICK N \in Nat : N = Len(pieces) /\ N # 0
  OBVIOUS
<1>2. PICK V : V = Seq(B)
  OBVIOUS
<1>3. \A n \in 1 .. N : pieces[n] \in V
  BY <1>1, <1>2
<1> DEFINE step == [p \in Nat \X V |-> IF p[1] \in 1 .. N THEN p[2] \o pieces[p[1]] ELSE p[2]]
<1>4. step \in [Nat \X V -> V]
  <2>1. ASSUME NEW n \in Nat, NEW v \in V
        PROVE  (IF n \in 1 .. N THEN v \o pieces[n] ELSE v) \in V
    BY <1>2, <1>3
  <2> QED
    BY <2>1
<1>5. <<>> \in V
  BY <1>2
<1>6. ASSUME NEW n \in 1 .. N, NEW v \in V
      PROVE  step[<<n, v>>] = v \o pieces[n]
  <2>1. <<n, v>> \in Nat \X V /\ <<n, v>>[1] = n /\ <<n, v>>[2] = v
    BY <1>1
  <2> QED
    BY <2>1
<1> HIDE DEF step
<1>7. PICK g \in [0 .. N -> V] : IsRecursion(g, N, <<>>, step)
  BY <1>4, <1>5, PartialRecursion
<1>8. ASSUME NEW n \in 1 .. N
      PROVE  g[n] = IF n = 1 THEN pieces[n] ELSE g[n - 1] \o pieces[n]
  <2>1. g[n] = step[<<n, g[n - 1]>>] /\ g[n - 1] \in V
    BY <1>7 DEF IsRecursion
  <2>2. g[n] = g[n - 1] \o pieces[n]
    BY <1>6, <2>1
  <2>3. CASE n = 1
    <3>1. 0 \in 0 .. N /\ n - 1 = 0
      BY <2>3
    <3>2. g[0] = <<>>
      BY <1>7, <3>1 DEF IsRecursion
    <3>3. <<>> \o pieces[n] = pieces[n]
      BY <1>2, <1>3
    <3> QED
      BY <2>2, <2>3, <3>1, <3>2, <3>3
  <2> QED
    BY <2>2, <2>3
<1> DEFINE Def(h) == h = [i \in 1 .. Len(pieces) |->
                            IF i = 1 THEN pieces[i] ELSE h[i - 1] \o pieces[i]]
           flat == CHOOSE h : Def(h)
<1>9. \E h : Def(h)
  <2> DEFINE h == [i \in 1 .. N |-> g[i]]
  <2>1. \A i \in 1 .. N : h[i] = g[i]
    OBVIOUS
  <2>2. \A i \in 1 .. N : i # 1 => i - 1 \in 1 .. N
    OBVIOUS
  <2>3. h = [i \in 1 .. N |-> h[i]]
    OBVIOUS
  <2> HIDE DEF h
  <2>4. \A i \in 1 .. N : h[i] = IF i = 1 THEN pieces[i] ELSE h[i - 1] \o pieces[i]
    BY <1>8, <2>1, <2>2
  <2>5. Def(h)
    BY <1>1, <2>3, <2>4
  <2> QED
    BY <2>5
<1>10. Def(flat)
  <2> HIDE DEF Def
  <2> QED
    BY <1>9
<1>12. FlattenSeq(pieces) = flat[N]
  BY <1>1 DEF FlattenSeq
<1> HIDE DEF flat
<1>11. flat = [i \in 1 .. N |-> IF i = 1 THEN pieces[i] ELSE flat[i - 1] \o pieces[i]]
  BY <1>1, <1>10
<1> HIDE DEF Def
<1>13. \A i \in 1 .. N : flat[i] = IF i = 1 THEN pieces[i] ELSE flat[i - 1] \o pieces[i]
  BY <1>11
<1>14. \A i \in 1 .. N : flat[i] \in V
  <2> DEFINE S == {i \in Nat : i \in 1 .. N => flat[i] \in V}
  <2>1. 0 \in S
    OBVIOUS
  <2>2. ASSUME NEW i \in Nat, i \in S
        PROVE  i + 1 \in S
    <3> SUFFICES ASSUME i + 1 \in 1 .. N
                 PROVE  flat[i + 1] \in V
      OBVIOUS
    <3>1. CASE i = 0
      BY <1>3, <1>13, <3>1
    <3>2. CASE i # 0
      <4>1. flat[i + 1] = flat[i] \o pieces[i + 1] /\ flat[i] \in V /\ pieces[i + 1] \in V
        <5>1. (i + 1) - 1 = i /\ i + 1 # 1 /\ i \in 1 .. N
          BY <3>2
        <5> QED
          BY <1>3, <1>13, <2>2, <5>1
      <4> QED
        BY <1>2, <4>1
    <3> QED
      BY <3>1, <3>2
  <2> HIDE DEF S
  <2>3. Nat \subseteq S
    BY <2>1, <2>2, SetInduction
  <2> QED
    BY <2>3 DEF S
<1>15. flat \in [1 .. N -> V]
  BY <1>11, <1>14
<1> QED
  BY <1>1, <1>2, <1>12, <1>13, <1>15 DEF IsFlat

(* Joining nothing gives nothing.                                          *)
LEMMA FlattenEmpty ==
  FlattenSeq(<<>>) = <<>>
BY DEF FlattenSeq

(* Joined sequences are a sequence.                                        *)
LEMMA FlattenType ==
  ASSUME NEW B, NEW pieces \in Seq(Seq(B))
  PROVE  FlattenSeq(pieces) \in Seq(B)
<1>1. CASE Len(pieces) = 0
  <2>1. pieces = <<>>
    BY <1>1
  <2>2. <<>> \in Seq(B)
    OBVIOUS
  <2> QED
    BY <2>1, <2>2, FlattenEmpty
<1>2. CASE Len(pieces) # 0
  <2>1. PICK f \in [1 .. Len(pieces) -> Seq(B)] : FlattenSeq(pieces) = f[Len(pieces)]
    BY <1>2, FlattenExists
  <2>2. Len(pieces) \in 1 .. Len(pieces)
    BY <1>2
  <2> QED
    BY <2>1, <2>2
<1> QED
  BY <1>1, <1>2

(* One more sequence goes to the end.                                      *)
LEMMA FlattenAppend ==
  ASSUME NEW B, NEW pieces \in Seq(Seq(B)), NEW x \in Seq(B)
  PROVE  FlattenSeq(Append(pieces, x)) = FlattenSeq(pieces) \o x
<1>1. PICK N \in Nat : N = Len(pieces)
  OBVIOUS
<1>2. PICK more \in Seq(Seq(B)) : more = Append(pieces, x)
  <2>1. Append(pieces, x) \in Seq(Seq(B))
    BY AppendProperties
  <2> QED
    BY <2>1
<1>3. Len(more) = N + 1 /\ more[N + 1] = x /\ \A n \in 1 .. N : more[n] = pieces[n]
  BY <1>1, <1>2
<1>4. PICK g \in [1 .. N + 1 -> Seq(B)] : IsFlat(g, more) /\ FlattenSeq(more) = g[N + 1]
  <2>1. Len(more) # 0
    BY <1>3
  <2> QED
    BY <1>3, <2>1, FlattenExists
<1>5. \A n \in 1 .. N + 1 : g[n] = IF n = 1 THEN more[n] ELSE g[n - 1] \o more[n]
  BY <1>3, <1>4 DEF IsFlat
<1>6. CASE N = 0
  <2>1. FlattenSeq(pieces) = <<>>
    <3>1. Len(pieces) = 0
      BY <1>1, <1>6
    <3>2. pieces = <<>>
      BY <3>1
    <3> QED
      BY <3>2, FlattenEmpty
  <2>2. g[N + 1] = x
    BY <1>3, <1>5, <1>6
  <2>3. <<>> \o x = x
    OBVIOUS
  <2> QED
    BY <1>2, <1>4, <2>1, <2>2, <2>3
<1>7. CASE N # 0
  <2>1. PICK f \in [1 .. N -> Seq(B)] : IsFlat(f, pieces) /\ FlattenSeq(pieces) = f[N]
    BY <1>1, <1>7, FlattenExists
  <2>2. \A n \in 1 .. N : f[n] = IF n = 1 THEN pieces[n] ELSE f[n - 1] \o pieces[n]
    BY <1>1, <2>1 DEF IsFlat
  <2> DEFINE S == {n \in Nat : n \in 1 .. N => f[n] = g[n]}
  <2>3. 0 \in S
    OBVIOUS
  <2>4. ASSUME NEW n \in Nat, n \in S
        PROVE  n + 1 \in S
    <3> SUFFICES ASSUME n + 1 \in 1 .. N
                 PROVE  f[n + 1] = g[n + 1]
      OBVIOUS
    <3>1. n + 1 \in 1 .. N + 1 /\ (n + 1) - 1 = n /\ more[n + 1] = pieces[n + 1]
      <4>1. n + 1 \in 1 .. N + 1 /\ (n + 1) - 1 = n
        BY <1>1
      <4>2. more[n + 1] = pieces[n + 1]
        BY <1>3, Zenon
      <4> QED
        BY <4>1, <4>2
    <3>2. CASE n = 0
      <4>1. n + 1 = 1
        BY <3>2
      <4> QED
        BY <1>5, <2>2, <3>1, <4>1
    <3>3. CASE n # 0
      <4>1. f[n] = g[n]
        BY <2>4, <3>3
      <4>2. n + 1 # 1
        BY <3>3
      <4>3. f[n + 1] = f[n] \o pieces[n + 1] /\ g[n + 1] = g[n] \o more[n + 1]
        BY <1>5, <2>2, <3>1, <4>2
      <4> QED
        BY <3>1, <4>1, <4>3
    <3> QED
      BY <3>2, <3>3
  <2>5. f[N] = g[N]
    <3> HIDE DEF S
    <3>1. N \in S
      BY <2>3, <2>4, SetInduction
    <3> QED
      BY <1>7, <3>1 DEF S
  <2>6. g[N + 1] = g[N] \o x
    <3>1. N + 1 \in 1 .. N + 1 /\ N + 1 # 1 /\ (N + 1) - 1 = N
      BY <1>7
    <3> QED
      BY <1>3, <1>5, <3>1
  <2> QED
    BY <1>2, <1>4, <2>1, <2>5, <2>6
<1> QED
  BY <1>6, <1>7

-----------------------------------------------------------------------------
(* The decoder on what has arrived of a command.                           *)

(* What s has at and after the place off is text, as far as s reaches.     *)
Holds(s, off, text) ==
  \A i \in 1 .. Len(text) : off + i <= Len(s) => s[off + i] = text[i]

Header(mark, number) == <<mark>> \o number \o CRLF

(* The text of a length is read as that length.                            *)
LEMMA NumberFacts ==
  ASSUME NEW n \in 0 .. MaxLength
  PROVE  /\ Number(n) \in Seq(Bytes)
         /\ \A i \in 1 .. Len(Number(n)) : Number(n)[i] # "r"
         /\ IsInteger(Number(n))
         /\ IntegerOf(Number(n)) = n
<1> DEFINE d == Number(n)
<1>1. d \in Seq(Digits) /\ AllDigits(d) /\ DecimalValue(d) = n
  BY NumberAssumption
<1> HIDE DEF d
<1>2. \A i \in 1 .. Len(d) : d[i] \in Digits
  BY <1>1
<1>3. \A x \in Digits : x \in Bytes /\ x # "r" /\ x # "-" /\ x # "+"
  BY NumberAssumption DEF Digits
<1>4. d \in Seq(Bytes)
  BY <1>1, <1>2, <1>3
<1>5. d # <<>> /\ Len(d) # 0
  BY <1>1 DEF AllDigits
<1>6. Head(d) = d[1] /\ 1 \in 1 .. Len(d)
  BY <1>1, <1>5
<1>7. ~IsSigned(d)
  BY <1>2, <1>3, <1>6 DEF IsSigned
<1>8. Unsigned(d) = d
  BY <1>7 DEF Unsigned
<1>9. IsInteger(d) /\ IntegerOf(d) = n
  BY <1>1, <1>7, <1>8 DEF IsInteger, IntegerOf
<1> QED
  BY <1>2, <1>3, <1>4, <1>9 DEF d

(* The elements of a concatenation.                                        *)
LEMMA Concatenated ==
  ASSUME NEW B, NEW a \in Seq(B), NEW b \in Seq(B)
  PROVE  /\ a \o b \in Seq(B)
         /\ Len(a \o b) = Len(a) + Len(b)
         /\ \A i \in 1 .. Len(a) : (a \o b)[i] = a[i]
         /\ \A i \in 1 .. Len(b) : (a \o b)[Len(a) + i] = b[i]
OBVIOUS

(* The bytes of a header line.                                             *)
LEMMA HeaderFacts ==
  ASSUME NEW mark \in Bytes, NEW d \in Seq(Bytes)
  PROVE  /\ Header(mark, d) \in Seq(Bytes)
         /\ Len(Header(mark, d)) = Len(d) + 3
         /\ Header(mark, d)[1] = mark
         /\ \A i \in 1 .. Len(d) : Header(mark, d)[i + 1] = d[i]
         /\ Header(mark, d)[Len(d) + 2] = "r"
         /\ Header(mark, d)[Len(d) + 3] = "n"
<1> DEFINE a == <<mark>> \o d
<1>1. /\ a \in Seq(Bytes) /\ Len(a) = Len(d) + 1 /\ a[1] = mark
      /\ \A i \in 1 .. Len(d) : a[i + 1] = d[i]
  <2>1. <<mark>> \in Seq(Bytes) /\ Len(<<mark>>) = 1 /\ <<mark>>[1] = mark
    OBVIOUS
  <2> QED
    BY <2>1
<1>2. CRLF \in Seq(Bytes) /\ Len(CRLF) = 2 /\ CRLF[1] = "r" /\ CRLF[2] = "n"
  BY NumberAssumption DEF CRLF
<1>3. Header(mark, d) = a \o CRLF
  BY DEF Header
<1> HIDE DEF a
<1>4. a \o CRLF \in Seq(Bytes) /\ Len(a \o CRLF) = Len(d) + 3
  <2>1. a \o CRLF \in Seq(Bytes) /\ Len(a \o CRLF) = Len(a) + Len(CRLF)
    BY <1>1, <1>2, ConcatProperties
  <2>2. Len(d) \in Nat
    OBVIOUS
  <2> QED
    BY <1>1, <1>2, <2>1, <2>2
<1>5. \A i \in 1 .. Len(d) + 1 : (a \o CRLF)[i] = a[i]
  BY <1>1, <1>2
<1>6. (a \o CRLF)[Len(d) + 2] = "r" /\ (a \o CRLF)[Len(d) + 3] = "n"
  <2>1. \A i \in 1 .. Len(CRLF) : (a \o CRLF)[Len(a) + i] = CRLF[i]
    <3>1. \A c \in Seq(Bytes) : \A i \in 1 .. Len(c) : (a \o c)[Len(a) + i] = c[i]
      BY <1>1
    <3> QED
      BY <1>2, <3>1, Zenon
  <2>2. Len(d) \in Nat /\ Len(a) + 1 = Len(d) + 2 /\ Len(a) + 2 = Len(d) + 3
    BY <1>1
  <2>3. 1 \in 1 .. Len(CRLF) /\ 2 \in 1 .. Len(CRLF)
    BY <1>2
  <2> QED
    BY <1>2, <2>1, <2>2, <2>3
<1>7. \A i \in 1 .. Len(d) : i + 1 \in 1 .. Len(d) + 1
  OBVIOUS
<1> QED
  BY <1>1, <1>3, <1>4, <1>5, <1>6, <1>7

(* What holds a text holds its parts.                                      *)
LEMMA HoldsParts ==
  ASSUME NEW s \in Seq(Bytes), NEW off \in Nat, NEW a \in Seq(Bytes), NEW b \in Seq(Bytes),
         Holds(s, off, a \o b)
  PROVE  Holds(s, off, a) /\ Holds(s, off + Len(a), b)
<1>1. /\ Len(a \o b) = Len(a) + Len(b)
      /\ \A i \in 1 .. Len(a) : (a \o b)[i] = a[i]
      /\ \A i \in 1 .. Len(b) : (a \o b)[Len(a) + i] = b[i]
  OBVIOUS
<1>2. Holds(s, off, a)
  BY <1>1 DEF Holds
<1>3. ASSUME NEW i \in 1 .. Len(b), off + Len(a) + i <= Len(s)
      PROVE  s[off + Len(a) + i] = b[i]
  <2>1. Len(a) + i \in 1 .. Len(a \o b) /\ off + (Len(a) + i) = off + Len(a) + i
    BY <1>1
  <2> QED
    BY <1>1, <1>3, <2>1 DEF Holds
<1> QED
  BY <1>2, <1>3 DEF Holds

(* A header line that has arrived ends where it should and holds its       *)
(* number.                                                                 *)
LEMMA LineFound ==
  ASSUME NEW s \in Seq(Bytes), NEW off \in Nat, NEW mark \in {"*", "$"}, NEW d \in Seq(Bytes),
         \A i \in 1 .. Len(d) : d[i] # "r",
         Holds(s, off, Header(mark, d)), LineEnd(s, off + 1) # 0
  PROVE  /\ LineEnd(s, off + 1) = off + Len(d) + 2
         /\ off + Len(d) + 3 <= Len(s)
         /\ s[off + 1] = mark
         /\ SubSeq(s, off + 2, off + Len(d) + 1) = d
<1> DEFINE line == LineEnd(s, off + 1)
           q == off + Len(d) + 2
<1>1. mark \in Bytes /\ mark # "r"
  BY NumberAssumption
<1>2. /\ Len(Header(mark, d)) = Len(d) + 3
      /\ Header(mark, d)[1] = mark
      /\ \A i \in 1 .. Len(d) : Header(mark, d)[i + 1] = d[i]
      /\ Header(mark, d)[Len(d) + 2] = "r"
      /\ Header(mark, d)[Len(d) + 3] = "n"
  BY <1>1, HeaderFacts
<1>3. \A i \in 1 .. Len(d) + 3 : off + i <= Len(s) => s[off + i] = Header(mark, d)[i]
  BY <1>2 DEF Holds
<1>4. /\ line \in off + 1 .. Len(s) - 1
      /\ IsLineEnd(s, line)
      /\ \A j \in off + 1 .. line - 1 : ~IsLineEnd(s, j)
  <2> DEFINE Ends(i) == i \in off + 1 .. Len(s) - 1 /\ IsLineEnd(s, i)
  <2>1. \E i \in off + 1 .. Len(s) - 1 : IsLineEnd(s, i)
    BY DEF LineEnd
  <2> DEFINE T == {i \in Nat : Ends(i)}
  <2>2. T # {} /\ T \in SUBSET Nat
    <3>1. PICK k \in off + 1 .. Len(s) - 1 : IsLineEnd(s, k)
      BY <2>1
    <3>2. k \in Nat
      OBVIOUS
    <3> QED
      BY <3>1, <3>2
  <2>3. PICK i \in T : \A j \in T : i <= j
    <3> HIDE DEF T
    <3> QED
      BY <2>2, LeastNumber
  <2>4. /\ i \in off + 1 .. Len(s) - 1
        /\ IsLineEnd(s, i)
        /\ \A j \in off + 1 .. i - 1 : ~IsLineEnd(s, j)
    BY <2>3
  <2>5. line = CHOOSE k \in off + 1 .. Len(s) - 1 :
                 IsLineEnd(s, k) /\ \A j \in off + 1 .. k - 1 : ~IsLineEnd(s, j)
    BY <2>1 DEF LineEnd
  <2> HIDE DEF line
  <2> QED
    BY <2>4, <2>5
<1> HIDE DEF line
<1>5. s[line] = "r" /\ s[line + 1] = "n" /\ line \in Int
  BY <1>4 DEF IsLineEnd
<1>6. s[off + 1] = mark
  BY <1>2, <1>3, <1>4
<1>7. \A i \in 1 .. Len(d) : off + i + 1 <= Len(s) => s[off + i + 1] = d[i]
  <2>1. \A i \in 1 .. Len(d) : i + 1 \in 1 .. Len(d) + 3 /\ off + (i + 1) = off + i + 1
    OBVIOUS
  <2> QED
    BY <1>2, <1>3, <2>1
<1>8. line >= q
  <2> SUFFICES ASSUME line < q PROVE FALSE
    BY <1>5
  <2>1. line # off + 1
    BY <1>1, <1>5, <1>6
  <2>2. PICK i \in 1 .. Len(d) : line = off + i + 1
    <3>1. line - off - 1 \in 1 .. Len(d) /\ line = off + (line - off - 1) + 1
      BY <1>4, <2>1
    <3> QED
      BY <3>1
  <2>3. s[line] = d[i]
    BY <1>4, <1>7, <2>2
  <2> QED
    BY <1>5, <2>3
<1>9. q + 1 <= Len(s)
  BY <1>4, <1>8
<1>10. IsLineEnd(s, q)
  <2>1. Len(d) + 2 \in 1 .. Len(d) + 3 /\ off + (Len(d) + 2) = q
    OBVIOUS
  <2>2. Len(d) + 3 \in 1 .. Len(d) + 3 /\ off + (Len(d) + 3) = q + 1
    OBVIOUS
  <2>3. q <= Len(s)
    BY <1>9
  <2> HIDE DEF q
  <2>4. s[q] = "r"
    BY <1>2, <1>3, <2>1, <2>3
  <2>5. s[q + 1] = "n"
    BY <1>2, <1>3, <1>9, <2>2
  <2> QED
    BY <2>4, <2>5 DEF IsLineEnd
<1>11. line = q
  <2>1. q \in off + 1 .. Len(s) - 1
    BY <1>9
  <2>2. ~(q \in off + 1 .. line - 1)
    BY <1>4, <1>10
  <2>3. q \in Int /\ q >= off + 1
    BY <2>1
  <2> HIDE DEF q
  <2> QED
    BY <1>5, <1>8, <2>2, <2>3
<1>12. SubSeq(s, off + 2, off + Len(d) + 1) = d
  <2> DEFINE u == SubSeq(s, off + 2, off + Len(d) + 1)
  <2>1. \A i \in off + 2 .. off + Len(d) + 1 : s[i] \in Bytes
    BY <1>9
  <2>2. u \in Seq(Bytes) /\ Len(u) = Len(d) /\ \A i \in 1 .. Len(d) : u[i] = s[off + i + 1]
    BY <1>9, <2>1
  <2>3. \A i \in 1 .. Len(d) : off + i + 1 <= Len(s)
    BY <1>9
  <2> HIDE DEF u
  <2>4. \A i \in 1 .. Len(d) : u[i] = d[i]
    BY <1>7, <2>2, <2>3
  <2>5. u = d
    BY <2>2, <2>4
  <2> QED
    BY <2>5 DEF u
<1> QED
  BY <1>6, <1>9, <1>11, <1>12 DEF line

(* A bulk string as written: its size and its parts.                       *)
LEMMA BulkFacts ==
  ASSUME NEW text \in Seq(Bytes), Len(text) <= MaxLength
  PROVE  /\ Number(Len(text)) \in Seq(Bytes)
         /\ EncodeBulk(text) \in Seq(Bytes)
         /\ Len(EncodeBulk(text)) = Len(Number(Len(text))) + 3 + Len(text) + 2
         /\ \A s \in Seq(Bytes), off \in Nat :
              Holds(s, off, EncodeBulk(text)) =>
                /\ Holds(s, off, Header("$", Number(Len(text))))
                /\ Holds(s, off + (Len(Number(Len(text))) + 3), text)
                /\ Holds(s, off + (Len(Number(Len(text))) + 3 + Len(text)), CRLF)
<1> DEFINE d == Number(Len(text))
           h == Header("$", d)
           b == h \o text
<1>1. d \in Seq(Bytes)
  <2>1. Len(text) \in 0 .. MaxLength
    BY NumberAssumption
  <2> QED
    BY <2>1, NumberFacts
<1>2. "$" \in Bytes
  BY NumberAssumption
<1> HIDE DEF d
<1>3. h \in Seq(Bytes) /\ Len(h) = Len(d) + 3
  BY <1>1, <1>2, HeaderFacts
<1> HIDE DEF h
<1>4. b \in Seq(Bytes) /\ Len(b) = Len(h) + Len(text)
  BY <1>3, Concatenated
<1>5. CRLF \in Seq(Bytes) /\ Len(CRLF) = 2
  BY NumberAssumption DEF CRLF
<1>6. EncodeBulk(text) = b \o CRLF
  BY DEF EncodeBulk, d, h, Header
<1> HIDE DEF b
<1>7. b \o CRLF \in Seq(Bytes) /\ Len(b \o CRLF) = Len(b) + Len(CRLF)
  BY <1>4, <1>5, Concatenated
<1>8. ASSUME NEW s \in Seq(Bytes), NEW off \in Nat, Holds(s, off, b \o CRLF)
      PROVE  Holds(s, off, h) /\ Holds(s, off + Len(h), text) /\ Holds(s, off + Len(b), CRLF)
  <2>1. Holds(s, off, b) /\ Holds(s, off + Len(b), CRLF)
    BY <1>4, <1>5, <1>8, HoldsParts
  <2>2. Holds(s, off, h \o text)
    BY <2>1 DEF b
  <2>3. Holds(s, off, h) /\ Holds(s, off + Len(h), text)
    BY <1>3, <2>2, HoldsParts
  <2> QED
    BY <2>1, <2>3
<1>9. Len(b) = Len(d) + 3 + Len(text) /\ Len(b \o CRLF) = Len(d) + 3 + Len(text) + 2
  <2>1. Len(d) \in Nat /\ Len(text) \in Nat
    BY <1>1
  <2> QED
    BY <1>3, <1>4, <1>5, <1>7, <2>1
<1>10. ASSUME NEW s \in Seq(Bytes), NEW off \in Nat, Holds(s, off, EncodeBulk(text))
       PROVE  /\ Holds(s, off, Header("$", d))
              /\ Holds(s, off + (Len(d) + 3), text)
              /\ Holds(s, off + (Len(d) + 3 + Len(text)), CRLF)
  <2>1. Holds(s, off, h) /\ Holds(s, off + Len(h), text) /\ Holds(s, off + Len(b), CRLF)
    BY <1>6, <1>8, <1>10
  <2> QED
    BY <1>3, <1>9, <2>1 DEF h
<1> QED
  BY <1>1, <1>6, <1>7, <1>9, <1>10 DEF d

(* A part of s that a text holds is that text.                             *)
LEMMA HeldPart ==
  ASSUME NEW s \in Seq(Bytes), NEW off \in Nat, NEW text \in Seq(Bytes),
         Holds(s, off, text), off + Len(text) <= Len(s)
  PROVE  SubSeq(s, off + 1, off + Len(text)) = text
<1> DEFINE u == SubSeq(s, off + 1, off + Len(text))
<1>1. \A i \in off + 1 .. off + Len(text) : s[i] \in Bytes
  OBVIOUS
<1>2. u \in Seq(Bytes) /\ Len(u) = Len(text) /\ \A i \in 1 .. Len(text) : u[i] = s[off + i]
  BY <1>1
<1>3. \A i \in 1 .. Len(text) : off + i <= Len(s)
  OBVIOUS
<1> HIDE DEF u
<1>4. \A i \in 1 .. Len(text) : u[i] = text[i]
  BY <1>2, <1>3 DEF Holds
<1>5. u = text
  BY <1>2, <1>4
<1> QED
  BY <1>5 DEF u

(* What the decoder may make of a bulk string that arrives.                *)
ReadsBulk(s, off, text, u) ==
  /\ u.status \in {"ok", "need_more", "error"}
  /\ u.status = "ok" =>
       /\ u.kind = "bulk"
       /\ u.text = text
       /\ u.next = off + Len(EncodeBulk(text)) + 1
       /\ off + Len(EncodeBulk(text)) <= Len(s)
       /\ Len(text) <= MaxBulkBytes

(* A bulk string that has arrived whole is read, or refused when it is too *)
(* long; otherwise the decoder waits.                                      *)
LEMMA ScalarRead ==
  ASSUME NEW s \in Seq(Bytes), NEW off \in Nat, NEW text \in Seq(Bytes),
         Len(text) <= MaxLength, Holds(s, off, EncodeBulk(text))
  PROVE  ReadsBulk(s, off, text, UnpackScalar(s, off + 1))
<1> DEFINE d == Number(Len(text))
           from == off + 1
           line == LineEnd(s, from)
           u == UnpackLine(s, from, line)
<1>1. UnpackScalar(s, from) = u
  <2>1. {UnpackLine(s, at, l) : at \in {from}, l \in {LineEnd(s, from)}} = {u}
    OBVIOUS
  <2> HIDE DEF u
  <2> QED
    BY <2>1 DEF UnpackScalar, Only
<1>2. Len(text) \in 0 .. MaxLength
  BY NumberAssumption
<1>3. d \in Seq(Bytes) /\ (\A i \in 1 .. Len(d) : d[i] # "r") /\ IsInteger(d) /\ IntegerOf(d) = Len(text)
  BY <1>2, NumberFacts
<1>4. /\ Len(EncodeBulk(text)) = Len(d) + 3 + Len(text) + 2
      /\ Holds(s, off, Header("$", d))
      /\ Holds(s, off + (Len(d) + 3), text)
      /\ Holds(s, off + (Len(d) + 3 + Len(text)), CRLF)
  BY BulkFacts
<1> HIDE DEF d
<1>5. CASE from > Len(s)
  <2>1. u = NeedMore
    BY <1>5 DEF UnpackLine
  <2> QED
    BY <1>1, <2>1 DEF ReadsBulk, NeedMore
<1>6. CASE from <= Len(s)
  <2>1. s[from] = "$"
    <3>1. Header("$", d)[1] = "$" /\ Len(Header("$", d)) = Len(d) + 3
      BY <1>3, NumberAssumption, HeaderFacts, ZenonT(40)
    <3>2. 1 \in 1 .. Len(Header("$", d))
      BY <1>3, <3>1
    <3> QED
      BY <1>4, <1>6, <3>1, <3>2 DEF Holds
  <2>2. CASE line = 0
    <3>1. u = NeedMore
      BY <1>6, <2>1, <2>2 DEF UnpackLine
    <3> QED
      BY <1>1, <3>1 DEF ReadsBulk, NeedMore
  <2>3. CASE line # 0
    <3>1. /\ line = off + Len(d) + 2
          /\ SubSeq(s, off + 2, off + Len(d) + 1) = d
          /\ off + Len(d) + 3 <= Len(s)
      BY <1>3, <1>4, <2>3, LineFound
    <3>2. SubSeq(s, from + 1, line - 1) = d
      <4>1. from + 1 = off + 2 /\ line - 1 = off + Len(d) + 1
        BY <1>3, <3>1
      <4> QED
        BY <3>1, <4>1
    <3>3. u = UnpackBulk(s, from, line, Len(text))
      <4> HIDE DEF from, line
      <4>1. from \in Int /\ Len(s) \in Int /\ ~(from > Len(s))
        BY <1>6 DEF from
      <4>2. s[from] \in {"$", ":"} /\ s[from] # ":"
        BY <2>1
      <4> QED
        BY <1>3, <2>3, <3>2, <4>1, <4>2 DEF UnpackLine
    <3> HIDE DEF u, line
    <3> DEFINE end == line + 1 + Len(text)
    <3>0. Len(d) \in Nat /\ Len(text) \in Nat /\ Len(s) \in Nat
      BY <1>3
    <3>4. end = off + (Len(d) + 3 + Len(text)) /\ line + 2 = off + (Len(d) + 3) + 1
      BY <3>0, <3>1
    <3>5. CASE Len(text) > MaxBulkBytes
      <4>1. u = Malformed
        BY <3>3, <3>5, LimitAssumption DEF UnpackBulk
      <4> QED
        BY <1>1, <4>1 DEF ReadsBulk, Malformed
    <3>6. CASE ~(Len(text) > MaxBulkBytes) /\ Len(s) < end + 2
      <4>1. u = NeedMore
        BY <3>3, <3>6, LimitAssumption DEF UnpackBulk
      <4> QED
        BY <1>1, <4>1 DEF ReadsBulk, NeedMore
    <3>7. CASE ~(Len(text) > MaxBulkBytes) /\ ~(Len(s) < end + 2)
      <4>1. Len(d) \in Nat /\ Len(text) \in Nat /\ Len(s) \in Nat
        BY <1>3
      <4>2. SubSeq(s, end + 1, end + 2) = CRLF
        <5>1. CRLF \in Seq(Bytes) /\ Len(CRLF) = 2
          BY NumberAssumption DEF CRLF
        <5> HIDE DEF end
        <5>4. end \in Nat
          BY <3>4, <4>1
        <5>5. Holds(s, end, CRLF)
          BY <1>4, <3>4
        <5>2. end \in Nat /\ end + Len(CRLF) <= Len(s) /\ Holds(s, end, CRLF)
          BY <3>7, <4>1, <5>1, <5>4, <5>5
        <5>3. SubSeq(s, end + 1, end + Len(CRLF)) = CRLF
          BY <5>1, <5>2, HeldPart
        <5> QED
          BY <5>1, <5>3
      <4>3. SubSeq(s, line + 2, end) = text
        <5> DEFINE o == off + (Len(d) + 3)
        <5>1. o \in Nat /\ o + Len(text) <= Len(s) /\ o + Len(text) = end /\ line + 2 = o + 1
          BY <3>4, <3>7, <4>1
        <5> HIDE DEF o
        <5>2. SubSeq(s, o + 1, o + Len(text)) = text
          BY <1>4, <5>1, HeldPart DEF o
        <5> QED
          BY <5>1, <5>2
      <4>4. u = Unpacked("bulk", text, end + 3)
        <5>1. Len(text) # -1 /\ ~(Len(text) < 0)
          BY <4>1
        <5> QED
          BY <3>3, <3>7, <4>2, <4>3, <5>1 DEF UnpackBulk
      <4>5. u.status = "ok" /\ u.kind = "bulk" /\ u.text = text /\ u.next = end + 3
        <5> HIDE DEF u, end
        <5> QED
          BY <4>4 DEF Unpacked
      <4>6. end + 3 = off + Len(EncodeBulk(text)) + 1 /\ off + Len(EncodeBulk(text)) <= Len(s)
        <5> HIDE DEF end
        <5> QED
          BY <1>4, <3>4, <3>7, <4>1
      <4>7. Len(text) <= MaxBulkBytes
        BY <3>7, LimitAssumption
      <4> HIDE DEF u, end, from
      <4> QED
        BY <1>1, <4>5, <4>6, <4>7 DEF ReadsBulk, from
    <3> QED
      BY <3>5, <3>6, <3>7
  <2> QED
    BY <2>2, <2>3
<1> QED
  BY <1>5, <1>6

(* The first n of some sequences, joined.                                  *)
Joined(pieces, n) == FlattenSeq(SubSeq(pieces, 1, n))

(* Each joined sequence goes behind the earlier ones.                      *)
LEMMA JoinedFacts ==
  ASSUME NEW B, NEW pieces \in Seq(Seq(B))
  PROVE  /\ Joined(pieces, 0) = <<>>
         /\ Joined(pieces, Len(pieces)) = FlattenSeq(pieces)
         /\ \A n \in 0 .. Len(pieces) : Joined(pieces, n) \in Seq(B)
         /\ \A n \in Nat : n < Len(pieces) =>
              /\ Joined(pieces, n + 1) = Joined(pieces, n) \o pieces[n + 1]
              /\ Len(Joined(pieces, n + 1)) = Len(Joined(pieces, n)) + Len(pieces[n + 1])
<1>1. \A n \in 0 .. Len(pieces) : SubSeq(pieces, 1, n) \in Seq(Seq(B))
  OBVIOUS
<1>2. Joined(pieces, 0) = <<>>
  <2>1. SubSeq(pieces, 1, 0) = <<>>
    OBVIOUS
  <2> QED
    BY <2>1, FlattenEmpty DEF Joined
<1>3. Joined(pieces, Len(pieces)) = FlattenSeq(pieces)
  <2>1. SubSeq(pieces, 1, Len(pieces)) = pieces
    OBVIOUS
  <2> QED
    BY <2>1 DEF Joined
<1>4. \A n \in 0 .. Len(pieces) : Joined(pieces, n) \in Seq(B)
  BY <1>1, FlattenType DEF Joined
<1>5. ASSUME NEW n \in Nat, n < Len(pieces)
      PROVE  /\ Joined(pieces, n + 1) = Joined(pieces, n) \o pieces[n + 1]
             /\ Len(Joined(pieces, n + 1)) = Len(Joined(pieces, n)) + Len(pieces[n + 1])
  <2>1. SubSeq(pieces, 1, n + 1) = Append(SubSeq(pieces, 1, n), pieces[n + 1])
    BY <1>5
  <2>2. n \in 0 .. Len(pieces) /\ pieces[n + 1] \in Seq(B)
    BY <1>5
  <2>3. Joined(pieces, n + 1) = Joined(pieces, n) \o pieces[n + 1]
    BY <1>1, <2>1, <2>2, FlattenAppend DEF Joined
  <2>4. Joined(pieces, n) \in Seq(B)
    BY <1>4, <2>2
  <2> QED
    BY <2>2, <2>3, <2>4, Concatenated
<1> QED
  BY <1>2, <1>3, <1>4, <1>5

(* What holds the joined sequences holds each at its place.                *)
LEMMA JoinedHeld ==
  ASSUME NEW pieces \in Seq(Seq(Bytes)), NEW s \in Seq(Bytes), NEW off \in Nat,
         Holds(s, off, FlattenSeq(pieces))
  PROVE  \A n \in Nat : n < Len(pieces) => Holds(s, off + Len(Joined(pieces, n)), pieces[n + 1])
<1> DEFINE N == Len(pieces)
           S == {k \in Nat : k <= N => Holds(s, off, Joined(pieces, N - k))}
<1>1. 0 \in S
  <2>1. N - 0 = Len(pieces)
    OBVIOUS
  <2> QED
    BY <2>1, JoinedFacts
<1>2. ASSUME NEW n \in Nat, n < N, Holds(s, off, Joined(pieces, n + 1))
      PROVE  Holds(s, off, Joined(pieces, n)) /\ Holds(s, off + Len(Joined(pieces, n)), pieces[n + 1])
  <2>1. Joined(pieces, n + 1) = Joined(pieces, n) \o pieces[n + 1]
    BY <1>2, JoinedFacts
  <2>2. Joined(pieces, n) \in Seq(Bytes)
    <3>1. n \in 0 .. Len(pieces)
      BY <1>2
    <3> QED
      BY <3>1, JoinedFacts
  <2>3. pieces[n + 1] \in Seq(Bytes)
    BY <1>2
  <2>4. Holds(s, off, Joined(pieces, n) \o pieces[n + 1])
    BY <1>2, <2>1
  <2> HIDE DEF N, S
  <2> QED
    BY <2>2, <2>3, <2>4, HoldsParts
<1>3. ASSUME NEW k \in Nat, k \in S
      PROVE  k + 1 \in S
  <2> SUFFICES ASSUME k + 1 <= N
               PROVE  Holds(s, off, Joined(pieces, N - (k + 1)))
    OBVIOUS
  <2> DEFINE n == N - (k + 1)
  <2>1. n \in Nat /\ n < N /\ n + 1 = N - k
    OBVIOUS
  <2>2. Holds(s, off, Joined(pieces, N - k))
    BY <1>3
  <2> HIDE DEF n
  <2>3. Holds(s, off, Joined(pieces, n))
    BY <1>2, <2>1, <2>2
  <2> QED
    BY <2>3 DEF n
<1>4. Nat \subseteq S
  <2> HIDE DEF S
  <2> QED
    BY <1>1, <1>3, SetInduction
<1>5. ASSUME NEW n \in Nat, n < N
      PROVE  Holds(s, off + Len(Joined(pieces, n)), pieces[n + 1])
  <2> DEFINE k == N - (n + 1)
  <2>1. k \in Nat /\ k <= N /\ N - k = n + 1
    BY <1>5
  <2> HIDE DEF k
  <2>2. Holds(s, off, Joined(pieces, n + 1))
    BY <1>4, <2>1
  <2> QED
    BY <1>2, <1>5, <2>2
<1> QED
  BY <1>5

-----------------------------------------------------------------------------
(* A command as a client can write it.                                     *)
IsWritable(c) ==
  /\ c \in Seq(Seq(Bytes))
  /\ Len(c) <= MaxLength
  /\ \A i \in 1 .. Len(c) : Len(c[i]) <= MaxLength

Bulks(c) == [i \in DOMAIN c |-> EncodeBulk(c[i])]

HeaderSize(c) == Len(Number(Len(c))) + 3

(* The bytes before argument n + 1.                                        *)
Start(c, n) == HeaderSize(c) + Len(Joined(Bulks(c), n))

(* Where the parts of a command are.                                       *)
LEMMA CommandFacts ==
  ASSUME NEW c, IsWritable(c)
  PROVE  /\ Number(Len(c)) \in Seq(Bytes)
         /\ Encode(c) \in Seq(Bytes)
         /\ Start(c, 0) = HeaderSize(c)
         /\ Start(c, Len(c)) = Len(Encode(c))
         /\ \A n \in 0 .. Len(c) : Start(c, n) \in Nat
         /\ \A n \in Nat : n < Len(c) => Start(c, n + 1) = Start(c, n) + Len(EncodeBulk(c[n + 1]))
         /\ \A s \in Seq(Bytes) :
              Holds(s, 0, Encode(c)) =>
                /\ Holds(s, 0, Header("*", Number(Len(c))))
                /\ \A n \in Nat : n < Len(c) => Holds(s, Start(c, n), EncodeBulk(c[n + 1]))
<1> DEFINE d == Number(Len(c))
           h == Header("*", d)
           b == Bulks(c)
           body == FlattenSeq(b)
<1>1. c \in Seq(Seq(Bytes)) /\ Len(c) \in 0 .. MaxLength
  BY NumberAssumption DEF IsWritable
<1>2. d \in Seq(Bytes)
  BY <1>1, NumberFacts
<1>3. h \in Seq(Bytes) /\ Len(h) = HeaderSize(c)
  <2>1. "*" \in Bytes
    BY NumberAssumption
  <2> HIDE DEF d
  <2> QED
    BY <1>2, <2>1, HeaderFacts DEF HeaderSize, d
<1>4. \A i \in 1 .. Len(c) : EncodeBulk(c[i]) \in Seq(Bytes)
  <2>1. ASSUME NEW i \in 1 .. Len(c)
        PROVE  EncodeBulk(c[i]) \in Seq(Bytes)
    <3>1. c[i] \in Seq(Bytes) /\ Len(c[i]) <= MaxLength
      BY <1>1 DEF IsWritable
    <3> QED
      BY <3>1, BulkFacts
  <2> QED
    BY <2>1
<1>5. b \in Seq(Seq(Bytes)) /\ Len(b) = Len(c) /\ \A i \in 1 .. Len(c) : b[i] = EncodeBulk(c[i])
  <2>1. DOMAIN c = 1 .. Len(c) /\ Len(c) \in Nat
    BY <1>1
  <2>2. b = [i \in 1 .. Len(c) |-> EncodeBulk(c[i])]
    BY <2>1 DEF Bulks
  <2> HIDE DEF b
  <2> QED
    BY <1>4, <2>1, <2>2
<1>6. body \in Seq(Bytes)
  BY <1>5, FlattenType
<1>7. Encode(c) = h \o body
  BY DEF Encode, EncodeBody, Bulks, Header
<1> HIDE DEF b, body, h, d
<1>8. /\ Joined(b, 0) = <<>>
      /\ Joined(b, Len(b)) = body
      /\ \A n \in 0 .. Len(b) : Joined(b, n) \in Seq(Bytes)
      /\ \A n \in Nat : n < Len(b) => Len(Joined(b, n + 1)) = Len(Joined(b, n)) + Len(b[n + 1])
  BY <1>5, JoinedFacts DEF body
<1>9. Len(h \o body) = Len(h) + Len(body) /\ h \o body \in Seq(Bytes)
  BY <1>3, <1>6, Concatenated
<1>10. \A n : Start(c, n) = HeaderSize(c) + Len(Joined(b, n))
  BY DEF Start, b
<1>11. HeaderSize(c) \in Nat /\ Len(<<>>) = 0 /\ Len(c) \in Nat
  BY <1>1, <1>2 DEF HeaderSize, d
<1>12. Start(c, 0) = HeaderSize(c)
  BY <1>8, <1>10, <1>11
<1>13. Start(c, Len(c)) = Len(Encode(c))
  BY <1>3, <1>5, <1>7, <1>8, <1>9, <1>10
<1>14. \A n \in 0 .. Len(c) : Start(c, n) \in Nat
  <2>1. ASSUME NEW n \in 0 .. Len(c)
        PROVE  Start(c, n) \in Nat
    <3>1. Joined(b, n) \in Seq(Bytes)
      BY <1>5, <1>8
    <3>2. Len(Joined(b, n)) \in Nat
      BY <3>1
    <3> QED
      BY <1>10, <1>11, <3>2
  <2> QED
    BY <2>1
<1>15. ASSUME NEW n \in Nat, n < Len(c)
       PROVE  Start(c, n + 1) = Start(c, n) + Len(EncodeBulk(c[n + 1]))
  <2>1. Len(Joined(b, n + 1)) = Len(Joined(b, n)) + Len(b[n + 1])
    BY <1>5, <1>8, <1>15
  <2>2. n + 1 \in 1 .. Len(c) /\ n \in 0 .. Len(b)
    BY <1>5, <1>11, <1>15
  <2>3. b[n + 1] = EncodeBulk(c[n + 1]) /\ b[n + 1] \in Seq(Bytes) /\ Joined(b, n) \in Seq(Bytes)
    BY <1>4, <1>5, <1>8, <2>2
  <2>4. Len(b[n + 1]) \in Nat /\ Len(Joined(b, n)) \in Nat
    BY <2>3
  <2>5. /\ Start(c, n + 1) = HeaderSize(c) + Len(Joined(b, n + 1))
        /\ Start(c, n) = HeaderSize(c) + Len(Joined(b, n))
    BY <1>10
  <2>6. Len(EncodeBulk(c[n + 1])) = Len(b[n + 1])
    BY <2>3
  <2>7. HeaderSize(c) + (Len(Joined(b, n)) + Len(b[n + 1]))
          = HeaderSize(c) + Len(Joined(b, n)) + Len(b[n + 1])
    BY <1>11, <2>4
  <2> QED
    BY <2>1, <2>5, <2>6, <2>7
<1>16. ASSUME NEW s \in Seq(Bytes), Holds(s, 0, Encode(c))
       PROVE  /\ Holds(s, 0, h)
              /\ \A n \in Nat : n < Len(c) => Holds(s, Start(c, n), EncodeBulk(c[n + 1]))
  <2>1. Holds(s, 0, h) /\ Holds(s, 0 + Len(h), body)
    BY <1>3, <1>6, <1>7, <1>16, HoldsParts
  <2>2. Holds(s, HeaderSize(c), body)
    BY <1>3, <1>11, <2>1
  <2>3. \A n \in Nat : n < Len(b) => Holds(s, HeaderSize(c) + Len(Joined(b, n)), b[n + 1])
    BY <1>5, <1>11, <2>2, JoinedHeld DEF body
  <2>4. \A n \in Nat : n < Len(c) => n + 1 \in 1 .. Len(c)
    BY <1>11
  <2>5. \A n \in Nat : n < Len(c) => Holds(s, Start(c, n), EncodeBulk(c[n + 1]))
    BY <1>5, <1>10, <2>3, <2>4
  <2> QED
    BY <2>1, <2>5
<1> QED
  BY <1>2, <1>7, <1>9, <1>12, <1>13, <1>14, <1>15, <1>16 DEF d, h

(* The elements as UnpackElements computes them.                           *)
IsElements(f, s, count, from) ==
  f = [i \in 1 .. count |->
         IF i = 1 THEN UnpackScalar(s, from)
         ELSE IF f[i - 1].status = "ok" THEN UnpackScalar(s, f[i - 1].next)
         ELSE f[i - 1]]

(* Every argument of an arriving command is read or waited for.            *)
LEMMA ArgumentRead ==
  ASSUME NEW c, IsWritable(c), NEW s \in Seq(Bytes), Holds(s, 0, Encode(c)),
         NEW n \in Nat, n < Len(c)
  PROVE  /\ ReadsBulk(s, Start(c, n), c[n + 1], UnpackScalar(s, Start(c, n) + 1))
         /\ UnpackScalar(s, Start(c, n) + 1).status = "ok" =>
              /\ UnpackScalar(s, Start(c, n) + 1).next = Start(c, n + 1) + 1
              /\ Start(c, n + 1) <= Len(s)
<1>1. c \in Seq(Seq(Bytes)) /\ Len(c) \in Nat /\ n + 1 \in 1 .. Len(c) /\ n \in 0 .. Len(c)
  BY DEF IsWritable
<1>2. c[n + 1] \in Seq(Bytes) /\ Len(c[n + 1]) <= MaxLength
  BY <1>1 DEF IsWritable
<1>3. /\ Start(c, n) \in Nat
      /\ Start(c, n + 1) = Start(c, n) + Len(EncodeBulk(c[n + 1]))
      /\ Holds(s, Start(c, n), EncodeBulk(c[n + 1]))
  BY <1>1, CommandFacts
<1>4. ReadsBulk(s, Start(c, n), c[n + 1], UnpackScalar(s, Start(c, n) + 1))
  BY <1>2, <1>3, ScalarRead
<1> QED
  BY <1>3, <1>4 DEF ReadsBulk

(* The recursion over the arguments of an arriving command defines         *)
(* something: the scalars in order, up to the first that is not read.      *)
LEMMA ElementsExist ==
  ASSUME NEW c, IsWritable(c), NEW s \in Seq(Bytes), Holds(s, 0, Encode(c))
  PROVE  \E f : IsElements(f, s, Len(c), HeaderSize(c) + 1)
<1> DEFINE N == Len(c)
           scalar(n) == UnpackScalar(s, Start(c, n) + 1)
           Stops == {n \in Nat : n < N /\ scalar(n).status # "ok"}
<1>1. N \in Nat
  BY DEF IsWritable
<1>2. PICK last \in 0 .. N : /\ \A m \in 0 .. last - 1 : m \notin Stops
                             /\ last < N => last \in Stops
  BY <1>1, FirstNumber
<1>3. \A n \in Nat : n < N /\ n < last => scalar(n).status = "ok" /\ scalar(n).next = Start(c, n + 1) + 1
  <2>1. ASSUME NEW n \in Nat, n < N, n < last
        PROVE  scalar(n).status = "ok" /\ scalar(n).next = Start(c, n + 1) + 1
    <3>1. n \in 0 .. last - 1
      BY <2>1
    <3>2. scalar(n).status = "ok"
      BY <1>2, <2>1, <3>1
    <3> QED
      BY <2>1, <3>2, ArgumentRead
  <2> QED
    BY <2>1
<1>4. last < N => scalar(last).status # "ok"
  BY <1>2
<1> DEFINE f == [i \in 1 .. N |-> scalar(IF i - 1 <= last THEN i - 1 ELSE last)]
<1>5. Start(c, 0) = HeaderSize(c)
  BY CommandFacts
<1> HIDE DEF scalar, Stops, N
<1>6. \A i \in 1 .. N : f[i] = scalar(IF i - 1 <= last THEN i - 1 ELSE last)
  OBVIOUS
<1>7. ASSUME NEW i \in 1 .. N
      PROVE  f[i] = IF i = 1 THEN UnpackScalar(s, HeaderSize(c) + 1)
                    ELSE IF f[i - 1].status = "ok" THEN UnpackScalar(s, f[i - 1].next)
                    ELSE f[i - 1]
  <2> HIDE DEF f
  <2>1. CASE i = 1
    <3>1. i - 1 = 0 /\ 0 <= last
      BY <2>1
    <3>2. f[i] = scalar(0)
      BY <1>6, <3>1
    <3> QED
      BY <1>5, <2>1, <3>2 DEF scalar
  <2>2. CASE i # 1 /\ i - 1 <= last
    <3> DEFINE n == i - 2
    <3>1. n \in Nat /\ n < N /\ n < last /\ n + 1 = i - 1 /\ i - 1 \in 1 .. N /\ (i - 1) - 1 = n
      BY <1>1, <2>2
    <3> HIDE DEF n
    <3>2. f[i] = scalar(n + 1)
      BY <1>6, <2>2, <3>1
    <3>3. f[i - 1] = scalar(n)
      BY <1>6, <3>1
    <3>4. f[i - 1].status = "ok" /\ f[i - 1].next = Start(c, n + 1) + 1
      BY <1>3, <3>1, <3>3
    <3>5. scalar(n + 1) = UnpackScalar(s, Start(c, n + 1) + 1)
      BY DEF scalar
    <3> QED
      BY <2>2, <3>2, <3>4, <3>5
  <2>3. CASE i # 1 /\ ~(i - 1 <= last)
    <3>1. i - 1 \in 1 .. N /\ last < N /\ (i - 1) - 1 >= last
      BY <1>1, <2>3
    <3>2. f[i] = scalar(last)
      BY <1>6, <2>3
    <3>3. f[i - 1] = scalar(last)
      <4>1. CASE (i - 1) - 1 <= last
        <5>1. (i - 1) - 1 = last
          BY <3>1, <4>1
        <5> QED
          BY <1>6, <3>1, <5>1
      <4>2. CASE ~((i - 1) - 1 <= last)
        BY <1>6, <3>1, <4>2
      <4> QED
        BY <4>1, <4>2
    <3> QED
      BY <1>4, <2>3, <3>1, <3>2, <3>3
  <2> QED
    BY <2>1, <2>2, <2>3
<1>8. f = [i \in 1 .. N |-> f[i]]
  OBVIOUS
<1> HIDE DEF f
<1>9. IsElements(f, s, N, HeaderSize(c) + 1)
  BY <1>7, <1>8 DEF IsElements
<1> QED
  BY <1>9 DEF N

(* What UnpackElements returns for an arriving command.                    *)
LEMMA ElementsRead ==
  ASSUME NEW c, IsWritable(c), NEW s \in Seq(Bytes), Holds(s, 0, Encode(c)),
         NEW e, e = UnpackElements(s, Len(c), HeaderSize(c) + 1)
  PROVE  /\ e = [i \in 1 .. Len(c) |-> e[i]]
         /\ \A i \in 1 .. Len(c) :
              /\ e[i].status \in {"ok", "need_more", "error"}
              /\ e[i].status = "ok" =>
                   /\ \A j \in 1 .. i : e[j].status = "ok" /\ ReadsBulk(s, Start(c, j - 1), c[j], e[j])
                   /\ e[i].next = Start(c, i) + 1
                   /\ Start(c, i) <= Len(s)
<1> DEFINE N == Len(c)
           from == HeaderSize(c) + 1
           scalar(n) == UnpackScalar(s, Start(c, n) + 1)
           elements == CHOOSE f : IsElements(f, s, N, from)
<1>1. N \in Nat
  BY DEF IsWritable
<1>2. e = elements
  BY DEF UnpackElements, IsElements
<1>3. IsElements(elements, s, N, from)
  BY ElementsExist
<1>4. IsElements(e, s, N, from)
  <2> HIDE DEF elements, N, from
  <2> QED
    BY <1>2, <1>3
<1>5. Start(c, 0) + 1 = from
  BY CommandFacts
<1> HIDE DEF elements, from
<1>6. \A i \in 1 .. N : e[i] = IF i = 1 THEN UnpackScalar(s, from)
                               ELSE IF e[i - 1].status = "ok" THEN UnpackScalar(s, e[i - 1].next)
                               ELSE e[i - 1]
  BY <1>4 DEF IsElements
<1>7. e = [i \in 1 .. N |-> e[i]]
  BY <1>4 DEF IsElements
<1> DEFINE Good(i) ==
             /\ e[i].status \in {"ok", "need_more", "error"}
             /\ e[i].status = "ok" =>
                  /\ \A j \in 1 .. i : e[j].status = "ok" /\ ReadsBulk(s, Start(c, j - 1), c[j], e[j])
                  /\ e[i].next = Start(c, i) + 1
                  /\ Start(c, i) <= Len(s)
           S == {i \in Nat : i \in 1 .. N => Good(i)}
<1>8. ASSUME NEW n \in Nat, n < N
      PROVE  /\ ReadsBulk(s, Start(c, n), c[n + 1], scalar(n))
             /\ scalar(n).status \in {"ok", "need_more", "error"}
             /\ scalar(n).status = "ok" =>
                  scalar(n).next = Start(c, n + 1) + 1 /\ Start(c, n + 1) <= Len(s)
  BY <1>8, ArgumentRead DEF ReadsBulk
<1>9. 0 \in S
  OBVIOUS
<1>10. ASSUME NEW n \in Nat, n \in S
       PROVE  n + 1 \in S
  <2> SUFFICES ASSUME n + 1 \in 1 .. N
               PROVE  Good(n + 1)
    OBVIOUS
  <2>1. n < N /\ (n + 1) - 1 = n
    BY <1>1
  <2>2. CASE n # 0 /\ e[n].status # "ok"
    <3>1. n + 1 # 1 /\ n \in 1 .. N
      BY <1>1, <2>2
    <3>2. e[n + 1] = e[n]
      BY <1>6, <2>1, <2>2, <3>1
    <3>3. e[n].status \in {"ok", "need_more", "error"}
      BY <1>10, <3>1
    <3> QED
      BY <2>2, <3>2, <3>3
  <2>3. CASE n = 0 \/ e[n].status = "ok"
    <3>1. e[n + 1] = scalar(n)
      <4>1. CASE n = 0
        BY <1>5, <1>6, <4>1
      <4>2. CASE n # 0
        <5>1. n + 1 # 1 /\ n \in 1 .. N
          BY <1>1, <4>2
        <5>2. e[n].next = Start(c, n) + 1
          BY <1>10, <2>3, <4>2, <5>1
        <5> QED
          BY <1>6, <2>1, <2>3, <4>2, <5>1, <5>2
      <4> QED
        BY <4>1, <4>2
    <3> HIDE DEF scalar
    <3>2. /\ ReadsBulk(s, Start(c, n), c[n + 1], e[n + 1])
          /\ e[n + 1].status \in {"ok", "need_more", "error"}
          /\ e[n + 1].status = "ok" => e[n + 1].next = Start(c, n + 1) + 1 /\ Start(c, n + 1) <= Len(s)
      BY <1>8, <2>1, <3>1
    <3>3. ASSUME e[n + 1].status = "ok", NEW j \in 1 .. n + 1
          PROVE  e[j].status = "ok" /\ ReadsBulk(s, Start(c, j - 1), c[j], e[j])
      <4>1. CASE j = n + 1
        BY <2>1, <3>2, <3>3, <4>1
      <4>2. CASE j # n + 1
        <5>1. n # 0 /\ n \in 1 .. N /\ j \in 1 .. n
          BY <1>1, <4>2
        <5> QED
          BY <1>10, <2>3, <5>1
      <4> QED
        BY <4>1, <4>2
    <3> QED
      BY <3>2, <3>3
  <2> QED
    BY <2>2, <2>3
<1>11. \A i \in 1 .. N : Good(i)
  <2> HIDE DEF S
  <2>1. Nat \subseteq S
    BY <1>9, <1>10, SetInduction
  <2> HIDE DEF Good
  <2> QED
    BY <1>1, <2>1 DEF S
<1> QED
  BY <1>7, <1>11

(* However much of a command has arrived, and whatever follows it: if the  *)
(* decoder returns a command it is this one, within the limits and with    *)
(* the policy's consent, and exactly its bytes are consumed.               *)
LEMMA CommandDecoded ==
  ASSUME NEW c, IsWritable(c), NEW s \in Seq(Bytes), Holds(s, 0, Encode(c)),
         NEW accepted \in BOOLEAN, NextCommand(s, accepted).status = "command"
  PROVE  /\ NextCommand(s, accepted).args = c
         /\ NextCommand(s, accepted).consumed = Len(Encode(c))
         /\ Len(Encode(c)) <= Len(s)
         /\ Len(c) <= MaxArrayElements
         /\ \A i \in 1 .. Len(c) : Len(c[i]) <= MaxBulkBytes
         /\ AnnouncedCount(s) = Len(c)
         /\ c # <<>> => accepted /\ AnnouncedName(s) = c[1]
<1> DEFINE r == NextCommand(s, accepted)
           line == LineEnd(s, 1)
           count == AnnouncedCount(s)
           policy == PolicyVerdict(s, count, line, accepted)
           N == Len(c)
           d == Number(N)
           e == UnpackElements(s, N, HeaderSize(c) + 1)
<1>1. c \in Seq(Seq(Bytes)) /\ N \in Nat /\ N \in 0 .. MaxLength
  BY NumberAssumption DEF IsWritable
<1>2. d \in Seq(Bytes) /\ (\A i \in 1 .. Len(d) : d[i] # "r") /\ IntegerOf(d) = N
  BY <1>1, NumberFacts
<1>3. Holds(s, 0, Header("*", d))
  BY CommandFacts
<1>4. /\ line # 0
      /\ HeaderAccepted(s, line) /\ policy # "refuse" /\ policy # "wait"
      /\ r = CommandBody(UnpackElements(s, count, line + 2), line + 2)
  <2> HIDE DEF line, count, policy
  <2>1. r = IF line = 0 THEN NoCommand
            ELSE IF ~HeaderAccepted(s, line) \/ policy = "refuse" THEN Refused
            ELSE IF policy = "wait" \/ ~BodyMayBeComplete(s, count, line) THEN NoCommand
            ELSE CommandBody(UnpackElements(s, count, line + 2), line + 2)
    BY DEF NextCommand, line, count, policy
  <2> HIDE DEF r
  <2>2. r # NoCommand /\ r # Refused
    BY DEF r, NoCommand, Refused
  <2> QED
    BY <2>1, <2>2
<1>5. /\ line = Len(d) + 2
      /\ Len(d) + 3 <= Len(s)
      /\ SubSeq(s, 2, Len(d) + 1) = d
  <2>1. LineEnd(s, 0 + 1) # 0 /\ 0 \in Nat
    BY <1>4
  <2>2. /\ LineEnd(s, 0 + 1) = 0 + Len(d) + 2
        /\ 0 + Len(d) + 3 <= Len(s)
        /\ SubSeq(s, 0 + 2, 0 + Len(d) + 1) = d
    <3> HIDE DEF d
    <3> QED
      BY <1>2, <1>3, <2>1, LineFound
  <2>3. Len(d) \in Nat
    BY <1>2
  <2> QED
    BY <2>2, <2>3
<1>6. Len(d) \in Nat /\ HeaderSize(c) = Len(d) + 3
  BY <1>2 DEF HeaderSize
<1> HIDE DEF d, line
<1>7. SubSeq(s, 2, line - 1) = d
  <2>1. line - 1 = Len(d) + 1
    BY <1>5, <1>6
  <2> QED
    BY <1>5, <2>1
<1>8. count = N
  BY <1>2, <1>7 DEF AnnouncedCount, line
<1>9. N <= MaxArrayElements
  <2>1. IntegerOf(SubSeq(s, 2, line - 1)) \in 0 .. MaxArrayElements
    BY <1>4 DEF HeaderAccepted
  <2>2. N \in 0 .. MaxArrayElements
    BY <1>2, <1>7, <2>1
  <2> HIDE DEF N
  <2> QED
    BY <1>1, <2>2, LimitAssumption
<1>10. line + 2 = HeaderSize(c) + 1
  BY <1>5, <1>6
<1>11. r = CommandBody(e, HeaderSize(c) + 1)
  BY <1>4, <1>8, <1>10
<1>12. /\ e = [i \in 1 .. N |-> e[i]]
       /\ \A i \in 1 .. N :
            /\ e[i].status \in {"ok", "need_more", "error"}
            /\ e[i].status = "ok" =>
                 /\ \A j \in 1 .. i : e[j].status = "ok" /\ ReadsBulk(s, Start(c, j - 1), c[j], e[j])
                 /\ e[i].next = Start(c, i) + 1
                 /\ Start(c, i) <= Len(s)
  BY ElementsRead
<1> HIDE DEF e, count
<1>13. Len(e) = N /\ DOMAIN e = 1 .. N
  BY <1>1, <1>12
<1>14. Start(c, 0) = HeaderSize(c) /\ Start(c, N) = Len(Encode(c))
  BY CommandFacts
<1>15. CASE N = 0
  <2>1. c = <<>>
    BY <1>1, <1>15
  <2>2. r = Command(<<>>, (HeaderSize(c) + 1) - 1)
    BY <1>11, <1>13, <1>15 DEF CommandBody
  <2>3. (HeaderSize(c) + 1) - 1 = Len(Encode(c)) /\ Len(Encode(c)) <= Len(s)
    BY <1>5, <1>6, <1>14, <1>15
  <2>4. r.args = c /\ r.consumed = Len(Encode(c))
    <3> HIDE DEF r
    <3> QED
      BY <2>1, <2>2, <2>3 DEF Command
  <2> QED
    BY <1>8, <1>9, <1>15, <2>1, <2>3, <2>4 DEF count
<1>16. CASE N # 0
  <2>1. N \in 1 .. N /\ 1 \in 1 .. N
    BY <1>1, <1>16
  <2> DEFINE last == e[N]
  <2>2. r = IF last.status = "need_more" THEN NoCommand
            ELSE IF last.status = "error" \/ ~IsCommand(e) THEN Refused
            ELSE Command(ConvertCommand(e), last.next - 1)
    BY <1>11, <1>13, <1>16 DEF CommandBody
  <2>3. r # NoCommand /\ r # Refused
    BY DEF r, NoCommand, Refused
  <2> HIDE DEF r
  <2>4. last.status = "ok" /\ r = Command(ConvertCommand(e), last.next - 1)
    BY <1>12, <2>1, <2>2, <2>3
  <2>5. last.next = Start(c, N) + 1 /\ Start(c, N) <= Len(s)
    BY <1>12, <2>1, <2>4
  <2>6. \A j \in 1 .. N : e[j].status = "ok" /\ ReadsBulk(s, Start(c, j - 1), c[j], e[j])
    BY <1>12, <2>1, <2>4
  <2>7. \A j \in 1 .. N : e[j].text = c[j] /\ Len(c[j]) <= MaxBulkBytes
    BY <2>6 DEF ReadsBulk
  <2>8. ConvertCommand(e) = c
    <3>1. c = [i \in 1 .. N |-> c[i]]
      BY <1>1
    <3> QED
      BY <1>13, <2>7, <3>1 DEF ConvertCommand
  <2>9. last.next - 1 = Len(Encode(c)) /\ Len(Encode(c)) <= Len(s)
    <3>1. Start(c, N) \in Nat
      BY <1>1, CommandFacts
    <3> QED
      BY <1>14, <2>5, <3>1
  <2>10. r.args = c /\ r.consumed = Len(Encode(c))
    <3> HIDE DEF last
    <3> QED
      BY <2>4, <2>8, <2>9 DEF Command
  <2>11. accepted /\ AnnouncedName(s) = c[1]
    <3> DEFINE name == UnpackScalar(s, line + 2)
    <3>1. name = UnpackScalar(s, Start(c, 0) + 1)
      BY <1>10, <1>14
    <3>2. ReadsBulk(s, Start(c, 0), c[1], UnpackScalar(s, Start(c, 0) + 1))
      <4>1. 0 \in Nat /\ 0 < Len(c) /\ 0 + 1 = 1
        BY <1>1, <1>16
      <4> QED
        BY <4>1, ArgumentRead
    <3> HIDE DEF name
    <3>3. policy = IF count = 0 THEN "go_on"
                   ELSE IF name.status = "need_more" THEN "wait"
                   ELSE IF name.status = "ok" /\ name.kind = "bulk" /\ accepted THEN "go_on"
                   ELSE "refuse"
      BY DEF PolicyVerdict, name
    <3> HIDE DEF policy
    <3>4. name.status = "ok" /\ accepted
      BY <1>4, <1>8, <1>16, <3>3
    <3>5. name.text = c[1]
      BY <3>1, <3>2, <3>4 DEF ReadsBulk
    <3> QED
      BY <3>4, <3>5 DEF AnnouncedName, name, line
  <2> QED
    BY <1>8, <1>9, <2>7, <2>9, <2>10, <2>11 DEF r, count
<1> QED
  BY <1>15, <1>16

-----------------------------------------------------------------------------
(* What is buffered and what is still to be read, within what was sent.    *)

(* s, and behind it rest, are what text has after its first off bytes.     *)
Follows(text, off, s, rest) ==
  /\ s \in Seq(Bytes) /\ rest \in Seq(Bytes)
  /\ off + (Len(s) + Len(rest)) = Len(text)
  /\ \A i \in 1 .. Len(s) : s[i] = text[off + i]
  /\ \A i \in 1 .. Len(rest) : rest[i] = text[off + (Len(s) + i)]

(* A read moves bytes from the one to the other.                           *)
LEMMA ReadFollows ==
  ASSUME NEW text \in Seq(Bytes), NEW off \in Nat, NEW s, NEW rest, Follows(text, off, s, rest),
         NEW n \in Nat, n <= Len(rest)
  PROVE  Follows(text, off, s \o SubSeq(rest, 1, n), SubSeq(rest, n + 1, Len(rest)))
<1> DEFINE new == SubSeq(rest, 1, n)
           later == SubSeq(rest, n + 1, Len(rest))
<1>1. s \in Seq(Bytes) /\ rest \in Seq(Bytes) /\ Len(s) \in Nat /\ Len(rest) \in Nat
  BY DEF Follows
<1>2. new \in Seq(Bytes) /\ Len(new) = n /\ \A i \in 1 .. n : new[i] = rest[i]
  BY <1>1
<1>3. /\ later \in Seq(Bytes) /\ Len(later) = Len(rest) - n
      /\ \A i \in 1 .. Len(rest) - n : later[i] = rest[n + i]
  BY <1>1
<1> HIDE DEF new, later
<1>4. /\ s \o new \in Seq(Bytes) /\ Len(s \o new) = Len(s) + n
      /\ \A i \in 1 .. Len(s) : (s \o new)[i] = s[i]
      /\ \A i \in 1 .. n : (s \o new)[Len(s) + i] = new[i]
  <2>1. /\ s \o new \in Seq(Bytes) /\ Len(s \o new) = Len(s) + Len(new)
        /\ \A i \in 1 .. Len(s) : (s \o new)[i] = s[i]
        /\ \A i \in 1 .. Len(new) : (s \o new)[Len(s) + i] = new[i]
    <3>1. s \in Seq(Bytes) /\ new \in Seq(Bytes)
      BY <1>1, <1>2
    <3> QED
      BY ONLY <3>1, Concatenated
  <2>2. Len(new) = n
    BY <1>2
  <2> QED
    BY ONLY <2>1, <2>2
<1>5. ASSUME NEW i \in 1 .. Len(s) + n
      PROVE  (s \o new)[i] = text[off + i]
  <2>1. CASE i <= Len(s)
    <3>1. i \in 1 .. Len(s)
      BY <1>1, <2>1
    <3> QED
      BY <1>4, <3>1 DEF Follows
  <2>2. CASE i > Len(s)
    <3> DEFINE j == i - Len(s)
    <3>1. j \in 1 .. n /\ j \in 1 .. Len(rest) /\ i = Len(s) + j
      BY <1>1, <2>2
    <3> HIDE DEF j
    <3>2. (s \o new)[i] = rest[j]
      BY <1>2, <1>4, <3>1
    <3> QED
      BY <3>1, <3>2 DEF Follows
  <2>3. i <= Len(s) \/ i > Len(s)
    <3>1. i \in Int
      OBVIOUS
    <3> QED
      BY ONLY <1>1, <3>1
  <2> QED
    BY ONLY <2>1, <2>2, <2>3
<1>6. ASSUME NEW i \in 1 .. Len(rest) - n
      PROVE  later[i] = text[off + ((Len(s) + n) + i)]
  <2>1. n + i \in 1 .. Len(rest) /\ Len(s) + (n + i) = (Len(s) + n) + i
    BY <1>1
  <2>2. rest[n + i] = text[off + (Len(s) + (n + i))]
    BY <2>1 DEF Follows
  <2> QED
    BY <1>3, <2>1, <2>2
<1>7. off + ((Len(s) + n) + (Len(rest) - n)) = Len(text)
  <2>1. off + (Len(s) + Len(rest)) = Len(text)
    BY DEF Follows
  <2>2. (Len(s) + n) + (Len(rest) - n) = Len(s) + Len(rest)
    BY ONLY <1>1, n \in Nat
  <2> QED
    BY ONLY <2>1, <2>2
<1>8. Follows(text, off, s \o new, later)
  BY <1>3, <1>4, <1>5, <1>6, <1>7 DEF Follows
<1> QED
  BY <1>8 DEF new, later

(* A command that leaves the buffer moves its start.                       *)
LEMMA TakeFollows ==
  ASSUME NEW text \in Seq(Bytes), NEW off \in Nat, NEW s, NEW rest, Follows(text, off, s, rest),
         NEW m \in Nat, m <= Len(s)
  PROVE  Follows(text, off + m, SubSeq(s, m + 1, Len(s)), rest)
<1> DEFINE left == SubSeq(s, m + 1, Len(s))
<1>1. s \in Seq(Bytes) /\ rest \in Seq(Bytes) /\ Len(s) \in Nat /\ Len(rest) \in Nat
  BY DEF Follows
<1>2. /\ left \in Seq(Bytes) /\ Len(left) = Len(s) - m
      /\ \A i \in 1 .. Len(s) - m : left[i] = s[m + i]
  BY <1>1
<1> HIDE DEF left
<1>3. ASSUME NEW i \in 1 .. Len(s) - m
      PROVE  left[i] = text[(off + m) + i]
  <2>1. m + i \in 1 .. Len(s) /\ off + (m + i) = (off + m) + i
    BY <1>1
  <2>2. s[m + i] = text[off + (m + i)]
    BY <2>1 DEF Follows
  <2> QED
    BY <1>2, <2>1, <2>2
<1>4. ASSUME NEW i \in 1 .. Len(rest)
      PROVE  rest[i] = text[(off + m) + ((Len(s) - m) + i)]
  <2>1. (off + m) + ((Len(s) - m) + i) = off + (Len(s) + i)
    BY <1>1
  <2> QED
    BY <2>1 DEF Follows
<1>5. (off + m) + ((Len(s) - m) + Len(rest)) = Len(text)
  <2>1. off + (Len(s) + Len(rest)) = Len(text)
    BY DEF Follows
  <2>2. (off + m) + ((Len(s) - m) + Len(rest)) = off + (Len(s) + Len(rest))
    BY ONLY <1>1, m \in Nat, off \in Nat
  <2> QED
    BY ONLY <2>1, <2>2
<1>6. Follows(text, off + m, left, rest)
  BY <1>1, <1>2, <1>3, <1>4, <1>5 DEF Follows
<1> QED
  BY <1>6 DEF left

(* The commands a client sends, each as it writes it.                      *)
Pieces(commands) == [i \in DOMAIN commands |-> Encode(commands[i])]

(* The bytes of the first n commands.                                      *)
Offset(commands, n) == Len(Joined(Pieces(commands), n))

(* A client's commands and what it sends after them.                       *)
IsSession(commands, rest) ==
  \E session \in Sessions : commands = session[1] /\ rest = session[2]

Text(commands, rest) == FlattenSeq(Pieces(commands)) \o rest

(* What is written of a session.                                           *)
LEMMA SessionFacts ==
  ASSUME NEW q, NEW rest, IsSession(q, rest)
  PROVE  /\ q \in Seq(Seq(Seq(Bytes))) /\ rest \in Seq(Bytes)
         /\ \A i \in 1 .. Len(q) : IsWritable(q[i])
         /\ \A n \in 0 .. Len(rest), accepted \in BOOLEAN :
              NextCommand(SubSeq(rest, 1, n), accepted).status # "command"
         /\ Pieces(q) \in Seq(Seq(Bytes)) /\ Len(Pieces(q)) = Len(q)
         /\ \A i \in 1 .. Len(q) : Pieces(q)[i] = Encode(q[i])
         /\ Text(q, rest) \in Seq(Bytes)
         /\ FlattenSeq(Pieces(q)) \in Seq(Bytes)
<1>1. PICK session \in Sessions : q = session[1] /\ rest = session[2]
  BY DEF IsSession
<1>2. /\ q \in Seq(Seq(Seq(Bytes))) /\ rest \in Seq(Bytes)
      /\ \A i \in DOMAIN q :
           /\ Len(q[i]) <= MaxLength
           /\ \A j \in DOMAIN q[i] : Len(q[i][j]) <= MaxLength
      /\ \A n \in 0 .. Len(rest), accepted \in BOOLEAN :
           NextCommand(SubSeq(rest, 1, n), accepted).status # "command"
  BY <1>1, SessionAssumption
<1>3. DOMAIN q = 1 .. Len(q) /\ Len(q) \in Nat
  BY <1>2
<1>4. ASSUME NEW i \in 1 .. Len(q)
      PROVE  IsWritable(q[i])
  <2>1. q[i] \in Seq(Seq(Bytes))
    BY <1>2
  <2>2. DOMAIN q[i] = 1 .. Len(q[i])
    BY <2>1
  <2> QED
    BY <1>2, <1>3, <2>1, <2>2 DEF IsWritable
<1>5. \A i \in 1 .. Len(q) : Encode(q[i]) \in Seq(Bytes)
  BY <1>4, CommandFacts
<1>6. Pieces(q) = [i \in 1 .. Len(q) |-> Encode(q[i])]
  BY <1>3 DEF Pieces
<1>7. Pieces(q) \in Seq(Seq(Bytes)) /\ Len(Pieces(q)) = Len(q)
  <2> DEFINE E(i) == Encode(q[i])
  <2>1. \A i \in 1 .. Len(q) : E(i) \in Seq(Bytes)
    BY <1>5
  <2> HIDE DEF E
  <2>2. [i \in 1 .. Len(q) |-> E(i)] \in Seq(Seq(Bytes)) /\ Len([i \in 1 .. Len(q) |-> E(i)]) = Len(q)
    BY <1>3, <2>1
  <2> QED
    BY <1>6, <2>2 DEF E
<1>8. FlattenSeq(Pieces(q)) \in Seq(Bytes)
  BY <1>7, FlattenType
<1>9. Text(q, rest) \in Seq(Bytes)
  BY <1>2, <1>8, Concatenated DEF Text
<1> QED
  BY <1>2, <1>4, <1>6, <1>7, <1>8, <1>9

(* While commands are left, the next one is at the start of the buffer.    *)
LEMMA NextHeld ==
  ASSUME NEW q, NEW rest, IsSession(q, rest), NEW k \in Nat, k < Len(q), NEW s, NEW later,
         Follows(Text(q, rest), Offset(q, k), s, later)
  PROVE  Holds(s, 0, Encode(q[k + 1]))
<1> DEFINE text == Text(q, rest)
           flat == FlattenSeq(Pieces(q))
           off == Offset(q, k)
<1>1. /\ Pieces(q) \in Seq(Seq(Bytes)) /\ Len(Pieces(q)) = Len(q)
      /\ Pieces(q)[k + 1] = Encode(q[k + 1])
      /\ text \in Seq(Bytes) /\ flat \in Seq(Bytes) /\ rest \in Seq(Bytes)
  <2>1. Len(q) \in Nat
    BY SessionFacts
  <2>2. k + 1 \in 1 .. Len(q)
    BY <2>1
  <2> QED
    BY <2>2, SessionFacts
<1>2. Holds(text, 0, flat)
  <2>1. \A i \in 1 .. Len(flat) : (flat \o rest)[i] = flat[i]
    BY <1>1, Concatenated
  <2> HIDE DEF flat
  <2> QED
    BY <2>1 DEF Holds, Text, flat
<1>3. Holds(text, 0 + off, Encode(q[k + 1]))
  <2> HIDE DEF text
  <2> QED
    BY <1>1, <1>2, JoinedHeld DEF Offset
<1>4. off \in Nat
  <2>1. k \in 0 .. Len(Pieces(q))
    BY <1>1
  <2>2. Joined(Pieces(q), k) \in Seq(Bytes)
    BY <1>1, <2>1, JoinedFacts
  <2> QED
    BY <2>2 DEF Offset
<1> HIDE DEF off, text
<1>5. Follows(text, off, s, later)
  BY DEF off, text
<1>6. /\ Len(s) \in Nat /\ Len(later) \in Nat /\ off + (Len(s) + Len(later)) = Len(text)
      /\ \A i \in 1 .. Len(s) : s[i] = text[off + i]
  BY <1>5 DEF Follows
<1>7. ASSUME NEW i \in 1 .. Len(Encode(q[k + 1])), 0 + i <= Len(s)
      PROVE  s[0 + i] = Encode(q[k + 1])[i]
  <2>1. 0 + i = i /\ i \in 1 .. Len(s)
    BY <1>6, <1>7
  <2>2. (0 + off) + i = off + i /\ (0 + off) + i <= Len(text)
    BY <1>4, <1>6, <2>1
  <2>3. text[(0 + off) + i] = Encode(q[k + 1])[i]
    BY <1>3, <2>2 DEF Holds
  <2> QED
    BY <1>6, <2>1, <2>2, <2>3
<1> QED
  BY <1>7 DEF Holds

(* Once all of them are taken, only the rest is left.                      *)
LEMMA RestHeld ==
  ASSUME NEW q, NEW rest, IsSession(q, rest), NEW s, NEW later,
         Follows(Text(q, rest), Offset(q, Len(q)), s, later)
  PROVE  Len(s) \in 0 .. Len(rest) /\ s = SubSeq(rest, 1, Len(s))
<1> DEFINE flat == FlattenSeq(Pieces(q))
<1>1. /\ Pieces(q) \in Seq(Seq(Bytes)) /\ Len(Pieces(q)) = Len(q)
      /\ flat \in Seq(Bytes) /\ rest \in Seq(Bytes)
  BY SessionFacts
<1>2. Offset(q, Len(q)) = Len(flat)
  BY <1>1, JoinedFacts DEF Offset
<1> HIDE DEF flat
<1>3. /\ Len(flat \o rest) = Len(flat) + Len(rest)
      /\ \A i \in 1 .. Len(rest) : (flat \o rest)[Len(flat) + i] = rest[i]
  BY ONLY <1>1, Concatenated
<1>4. Follows(flat \o rest, Len(flat), s, later)
  BY <1>2 DEF Text, flat
<1>5. /\ s \in Seq(Bytes) /\ later \in Seq(Bytes)
      /\ Len(flat) + (Len(s) + Len(later)) = Len(flat) + Len(rest)
      /\ \A i \in 1 .. Len(s) : s[i] = (flat \o rest)[Len(flat) + i]
  BY <1>3, <1>4 DEF Follows
<1>6. Len(flat) \in Nat /\ Len(rest) \in Nat /\ Len(s) \in Nat /\ Len(later) \in Nat
  BY <1>1, <1>5
<1>7. Len(s) \in 0 .. Len(rest)
  BY ONLY <1>5, <1>6
<1>8. \A i \in 1 .. Len(s) : s[i] = rest[i]
  <2>1. ASSUME NEW i \in 1 .. Len(s) PROVE s[i] = rest[i]
    <3>1. i \in 1 .. Len(rest)
      BY <1>6, <1>7
    <3> QED
      BY <1>3, <1>5, <3>1
  <2> QED
    BY <2>1
<1>9. SubSeq(rest, 1, Len(s)) \in Seq(Bytes) /\ Len(SubSeq(rest, 1, Len(s))) = Len(s)
      /\ \A i \in 1 .. Len(s) : SubSeq(rest, 1, Len(s))[i] = rest[i]
  BY <1>1, <1>6, <1>7
<1>10. s = SubSeq(rest, 1, Len(s))
  BY <1>5, <1>8, <1>9
<1> QED
  BY <1>7, <1>10

(* One more command of a script.                                           *)
LEMMA FirstCommandsGrow ==
  ASSUME NEW B, NEW q \in Seq(B)
  PROVE  /\ NonEmpty(SubSeq(q, 1, 0)) = <<>>
         /\ \A k \in Nat : k < Len(q) =>
              NonEmpty(SubSeq(q, 1, k + 1)) = IF q[k + 1] = <<>> THEN NonEmpty(SubSeq(q, 1, k))
                                              ELSE Append(NonEmpty(SubSeq(q, 1, k)), q[k + 1])
<1> DEFINE Kept(c) == IF c = <<>> THEN <<>> ELSE <<c>>
           kept == [i \in 1 .. Len(q) |-> Kept(q[i])]
<1>1. \A c \in B : Kept(c) \in Seq(B)
  OBVIOUS
<1> HIDE DEF Kept
<1>2. kept \in Seq(Seq(B)) /\ Len(kept) = Len(q) /\ \A i \in 1 .. Len(q) : kept[i] = Kept(q[i])
  BY <1>1
<1> HIDE DEF kept
<1>3. ASSUME NEW k \in 0 .. Len(q)
      PROVE  NonEmpty(SubSeq(q, 1, k)) = Joined(kept, k)
  <2> DEFINE p == SubSeq(q, 1, k)
  <2>1. p \in Seq(B) /\ Len(p) = k /\ DOMAIN p = 1 .. k /\ \A i \in 1 .. k : p[i] = q[i]
    OBVIOUS
  <2>2. /\ SubSeq(kept, 1, k) = [i \in 1 .. k |-> kept[i]]
    BY <1>2
  <2> HIDE DEF p
  <2>3. \A i \in 1 .. k : i \in 1 .. Len(q)
    OBVIOUS
  <2>4. [i \in DOMAIN p |-> Kept(p[i])] = [i \in 1 .. k |-> kept[i]]
    BY <1>2, <2>1, <2>3
  <2>5. NonEmpty(p) = FlattenSeq([i \in DOMAIN p |-> Kept(p[i])])
    BY DEF NonEmpty, Kept
  <2> QED
    BY <2>2, <2>4, <2>5 DEF Joined, p
<1>4. NonEmpty(SubSeq(q, 1, 0)) = <<>>
  <2>1. 0 \in 0 .. Len(q)
    OBVIOUS
  <2> QED
    BY <1>2, <1>3, <2>1, JoinedFacts
<1>5. ASSUME NEW k \in Nat, k < Len(q)
      PROVE  NonEmpty(SubSeq(q, 1, k + 1)) = IF q[k + 1] = <<>> THEN NonEmpty(SubSeq(q, 1, k))
                                             ELSE Append(NonEmpty(SubSeq(q, 1, k)), q[k + 1])
  <2>1. k \in 0 .. Len(q) /\ k + 1 \in 0 .. Len(q) /\ k + 1 \in 1 .. Len(q)
    BY <1>5
  <2>2. Joined(kept, k + 1) = Joined(kept, k) \o Kept(q[k + 1])
    BY <1>2, <1>5, <2>1, JoinedFacts
  <2>3. Joined(kept, k) \in Seq(B) /\ q[k + 1] \in B
    BY <1>2, <2>1, JoinedFacts
  <2>4. \A j \in Seq(B), c \in B : j \o <<>> = j /\ j \o <<c>> = Append(j, c)
    OBVIOUS
  <2> QED
    BY <1>3, <2>1, <2>2, <2>3, <2>4 DEF Kept
<1> QED
  BY <1>4, <1>5

-----------------------------------------------------------------------------
(* The first k commands have been run and the buffer starts behind them.   *)
Reached(k) ==
  /\ MayRun(k) /\ \A i \in 1 .. k : ~EndsSession(script[i])
  /\ executed = FirstCommands(k)
  /\ Follows(Text(script, tail), Offset(script, k), stream, input)

(* Until the last write begins, the connection is between two commands of  *)
(* the script or in its rest.                                              *)
ScriptInv ==
  /\ IsSession(script, tail)
  /\ ExecutedIsScript
  /\ closing = FALSE => \E k \in 0 .. Len(script) : Reached(k)

(* A connection starts in front of the first command.                      *)
LEMMA InitReached == Init => ScriptInv
<1> SUFFICES ASSUME Init PROVE ScriptInv
  OBVIOUS
<1>1. IsSession(script, tail)
  BY DEF Init, IsSession
<1>2. script \in Seq(Seq(Seq(Bytes))) /\ Text(script, tail) \in Seq(Bytes) /\ Len(script) \in Nat
  BY <1>1, SessionFacts
<1>3. 0 \in 0 .. Len(script)
  BY <1>2
<1>4. MayRun(0) /\ (\A i \in 1 .. 0 : ~EndsSession(script[i])) /\ executed = FirstCommands(0)
  <2>1. NonEmpty(SubSeq(script, 1, 0)) = <<>>
    BY <1>2, FirstCommandsGrow
  <2>2. \A i \in 1 .. 0 : FALSE
    OBVIOUS
  <2> QED
    BY <2>1, <2>2 DEF Init, MayRun, FirstCommands
<1>5. Offset(script, 0) = 0
  <2>1. Joined(Pieces(script), 0) = <<>>
    BY <1>1, SessionFacts, JoinedFacts
  <2> QED
    BY <2>1 DEF Offset
<1>6. input = Text(script, tail) /\ stream = <<>>
  BY DEF Init, Sent, Text, Pieces
<1>7. Follows(Text(script, tail), 0, stream, input)
  <2>1. \A t \in Seq(Bytes) : Follows(t, 0, <<>>, t)
    BY DEF Follows
  <2> QED
    BY <1>2, <1>6, <2>1
<1>8. Reached(0)
  BY <1>4, <1>5, <1>7 DEF Reached
<1> QED
  BY <1>1, <1>3, <1>4, <1>8 DEF ScriptInv, ExecutedIsScript

(* A step that runs nothing and leaves the buffer alone.                   *)
LEMMA NothingRun ==
  ASSUME ScriptInv, UNCHANGED <<script, tail, executed>>,
         closing' = TRUE \/ UNCHANGED <<input, stream, closing>>
  PROVE  ScriptInv'
<1>1. IsSession(script, tail)' /\ ExecutedIsScript'
  BY DEF ScriptInv, IsSession, ExecutedIsScript, MayRun, FirstCommands
<1>2. ASSUME closing' = FALSE
      PROVE  (\E k \in 0 .. Len(script) : Reached(k))'
  <2>1. UNCHANGED <<input, stream, closing>>
    BY <1>2
  <2>2. PICK k \in 0 .. Len(script) : Reached(k)
    BY <1>2, <2>1 DEF ScriptInv
  <2>3. Reached(k)'
    BY <2>1, <2>2 DEF Reached, MayRun, FirstCommands
  <2> QED
    BY <2>2, <2>3
<1> QED
  BY <1>1, <1>2 DEF ScriptInv

(* A read appends to the buffer what comes next of the session.            *)
LEMMA ReceiveReached ==
  ASSUME ScriptInv, ReplyInv, Receive
  PROVE  ScriptInv'
<1>1. UNCHANGED <<script, tail, executed>> /\ closing = FALSE
  BY DEF Receive, Client, ReplyInv
<1>2. CASE closing' = TRUE
  BY <1>1, <1>2, NothingRun
<1>3. CASE ~(closing' = TRUE)
  <2>1. PICK n \in Nat : /\ n <= Len(input)
                         /\ input' = SubSeq(input, n + 1, Len(input))
                         /\ stream' = stream \o SubSeq(input, 1, n)
                         /\ closing' = closing
    <3>1. PICK n \in {j \in 1 .. ReadSize : j <= Len(input)} :
            /\ input' = SubSeq(input, n + 1, Len(input))
            /\ IF FitsStream(stream, SubSeq(input, 1, n))
               THEN stream' = stream \o SubSeq(input, 1, n) /\ closing' = closing
               ELSE closing' = TRUE
      BY Zenon DEF Receive
    <3>2. n \in Nat /\ n <= Len(input)
      BY <3>1, ConnectionAssumption
    <3>3. stream' = stream \o SubSeq(input, 1, n) /\ closing' = closing
      BY <1>3, <3>1
    <3> QED
      BY <3>1, <3>2, <3>3
  <2>2. PICK k \in 0 .. Len(script) : Reached(k)
    BY <1>1 DEF ScriptInv
  <2>3. /\ Text(script, tail) \in Seq(Bytes)
        /\ Pieces(script) \in Seq(Seq(Bytes)) /\ Len(Pieces(script)) = Len(script)
    BY SessionFacts DEF ScriptInv
  <2>4. Offset(script, k) \in Nat
    <3>1. Joined(Pieces(script), k) \in Seq(Bytes)
      BY <2>2, <2>3, JoinedFacts
    <3> QED
      BY <3>1 DEF Offset
  <2>5. Follows(Text(script, tail), Offset(script, k), stream', input')
    BY <2>1, <2>2, <2>3, <2>4, ReadFollows DEF Reached
  <2>6. Reached(k)'
    BY <1>1, <2>2, <2>5 DEF Reached, MayRun, FirstCommands
  <2>7. IsSession(script, tail)' /\ ExecutedIsScript'
    BY <1>1 DEF ScriptInv, IsSession, ExecutedIsScript, MayRun, FirstCommands
  <2> QED
    BY <1>1, <2>2, <2>6, <2>7 DEF ScriptInv
<1> QED
  BY <1>2, <1>3, Zenon

(* What the decoder returns is the next command of the script, one the     *)
(* limits and the policy let through, and what stays in the buffer follows *)
(* it.                                                                     *)
LEMMA CommandReached ==
  ASSUME ScriptInv, NEW k \in 0 .. Len(script), Reached(k), NEW c,
         c = NextCommand(stream, PolicyAccepts), c.status = "command"
  PROVE  /\ k < Len(script) /\ c.args = script[k + 1]
         /\ MayRun(k + 1)
         /\ Follows(Text(script, tail), Offset(script, k + 1),
                    SubSeq(stream, c.consumed + 1, Len(stream)), input)
<1> DEFINE command == script[k + 1]
           text == Text(script, tail)
<1>1. PolicyAccepts \in BOOLEAN
  BY DEF PolicyAccepts, Accept
<1>2. /\ IsSession(script, tail) /\ script \in Seq(Seq(Seq(Bytes))) /\ Len(script) \in Nat
      /\ text \in Seq(Bytes)
      /\ Pieces(script) \in Seq(Seq(Bytes)) /\ Len(Pieces(script)) = Len(script)
  BY SessionFacts DEF ScriptInv
<1> HIDE DEF text
<1>3. Follows(text, Offset(script, k), stream, input)
  BY DEF Reached, text
<1>4. stream \in Seq(Bytes)
  BY <1>3 DEF Follows
<1>5. k < Len(script)
  <2> SUFFICES ASSUME k = Len(script) PROVE FALSE
    BY <1>2
  <2>1. Len(stream) \in 0 .. Len(tail) /\ stream = SubSeq(tail, 1, Len(stream))
    BY <1>2, <1>3, RestHeld DEF text
  <2>2. NextCommand(SubSeq(tail, 1, Len(stream)), PolicyAccepts).status # "command"
    BY <1>1, <1>2, <2>1, SessionFacts
  <2> QED
    BY <2>1, <2>2
<1>6. k \in Nat /\ k + 1 \in 1 .. Len(script) /\ IsWritable(command)
  <2>1. k \in Nat /\ k + 1 \in 1 .. Len(script)
    BY <1>2, <1>5
  <2> QED
    BY <1>2, <2>1, SessionFacts
<1>7. Holds(stream, 0, Encode(command))
  BY <1>2, <1>3, <1>5, <1>6, NextHeld DEF text
<1> HIDE DEF command
<1>8. /\ c.args = command
      /\ c.consumed = Len(Encode(command))
      /\ Len(Encode(command)) <= Len(stream)
      /\ Len(command) <= MaxArrayElements
      /\ \A i \in 1 .. Len(command) : Len(command[i]) <= MaxBulkBytes
      /\ AnnouncedCount(stream) = Len(command)
      /\ command # <<>> => PolicyAccepts /\ AnnouncedName(stream) = command[1]
  BY <1>1, <1>4, <1>6, <1>7, CommandDecoded
<1>9. command \in Seq(Seq(Bytes)) /\ Len(command) \in Nat /\ DOMAIN command = 1 .. Len(command)
  BY <1>6 DEF IsWritable
<1>10. Acceptable(command)
  <2>1. ASSUME Len(command) > OrdinaryLimit
        PROVE  IsMaster /\ command[1] = ReplName
    <3>1. command # <<>> /\ ~(Len(command) <= OrdinaryLimit)
      BY <1>9, <2>1, ConnectionAssumption
    <3>2. Accept(command[1], Len(command))
      BY <1>8, <3>1 DEF PolicyAccepts
    <3> QED
      BY <3>1, <3>2 DEF Accept
  <2> QED
    BY <1>8, <1>9, <2>1 DEF Acceptable
<1>11. MayRun(k + 1)
  <2>1. ASSUME NEW i \in 1 .. k + 1
        PROVE  Acceptable(script[i]) /\ (i < k + 1 => ~EndsSession(script[i]))
    <3>1. CASE i = k + 1
      BY <1>6, <1>10, <3>1 DEF command
    <3>2. CASE i # k + 1
      <4>1. i \in 1 .. k
        BY <1>6, <3>2
      <4> QED
        BY <4>1 DEF Reached, MayRun
    <3> QED
      BY <3>1, <3>2
  <2> QED
    BY <2>1 DEF MayRun
<1>12. Encode(command) \in Seq(Bytes) /\ Pieces(script)[k + 1] = Encode(command)
  BY <1>2, <1>6, SessionFacts, CommandFacts DEF command
<1>13. Offset(script, k) \in Nat /\ Offset(script, k + 1) = Offset(script, k) + Len(Encode(command))
  <2>1. Joined(Pieces(script), k) \in Seq(Bytes)
    BY <1>2, JoinedFacts
  <2>2. Len(Joined(Pieces(script), k + 1)) = Len(Joined(Pieces(script), k)) + Len(Pieces(script)[k + 1])
    BY <1>2, <1>5, <1>6, JoinedFacts
  <2> QED
    BY <1>12, <2>1, <2>2 DEF Offset
<1>14. Len(Encode(command)) \in Nat
  BY <1>12
<1>15. Follows(text, Offset(script, k + 1), SubSeq(stream, c.consumed + 1, Len(stream)), input)
  BY <1>2, <1>3, <1>8, <1>13, <1>14, TakeFollows
<1> QED
  BY <1>5, <1>8, <1>11, <1>15 DEF command, text

(* One turn of the loop runs the next command of the script or none.       *)
LEMMA ProcessReached ==
  ASSUME ScriptInv, ReplyInv, Process
  PROVE  ScriptInv'
<1>1. UNCHANGED <<script, tail, input>> /\ closing = FALSE
  BY DEF Process, Client, ReplyInv
<1>2. PICK c : /\ c = NextCommand(stream, PolicyAccepts)
               /\ \/ SkipEmpty(c) \/ Execute(c) \/ RejectFrame(c) \/ Poll(c)
                  \/ Drained(c) \/ ProtocolError(c)
  BY DEF Process
<1>3. CASE Drained(c) \/ ProtocolError(c)
  <2>1. UNCHANGED <<script, tail, executed>>
    BY <1>1, <1>3 DEF Drained, ProtocolError
  <2>2. closing' = TRUE \/ UNCHANGED <<input, stream, closing>>
    BY <1>1, <1>3, Zenon DEF Drained, ProtocolError
  <2>3. CASE closing' = TRUE
    BY <2>1, <2>3, NothingRun
  <2>4. CASE UNCHANGED <<input, stream, closing>>
    BY <2>1, <2>4, NothingRun
  <2> QED
    BY <2>2, <2>3, <2>4, Zenon
<1>4. CASE SkipEmpty(c) \/ Execute(c) \/ RejectFrame(c) \/ Poll(c)
  <2>1. c.status = "command" /\ stream' = SubSeq(stream, c.consumed + 1, Len(stream))
    BY <1>4 DEF SkipEmpty, Execute, RejectFrame, Poll, Take
  <2>2. PICK k \in 0 .. Len(script) : Reached(k)
    BY <1>1 DEF ScriptInv
  <2>3. /\ k < Len(script) /\ c.args = script[k + 1] /\ MayRun(k + 1)
        /\ Follows(Text(script, tail), Offset(script, k + 1), stream', input')
    BY <1>1, <1>2, <2>1, <2>2, CommandReached
  <2>4. /\ IsSession(script, tail) /\ script \in Seq(Seq(Seq(Bytes)))
        /\ Len(script) \in Nat /\ k \in Nat /\ k + 1 \in 0 .. Len(script)
    BY <2>3, SessionFacts DEF ScriptInv
  <2>5. executed' = FirstCommands(k + 1)
    <3>1. FirstCommands(k + 1) = IF c.args = <<>> THEN executed ELSE Append(executed, c.args)
      BY <2>2, <2>3, <2>4, FirstCommandsGrow DEF FirstCommands, Reached
    <3>2. CASE c.args = <<>>
      BY <1>4, <3>1, <3>2 DEF SkipEmpty, Execute, RejectFrame, Poll
    <3>3. CASE c.args # <<>>
      BY <1>4, <3>1, <3>3 DEF SkipEmpty, Execute, RejectFrame, Poll
    <3> QED
      BY <3>2, <3>3
  <2>6. MayRun(k + 1)' /\ FirstCommands(k + 1)' = FirstCommands(k + 1) /\ IsSession(script, tail)'
    BY <1>1, <2>3, <2>4 DEF MayRun, FirstCommands, IsSession
  <2>7. ExecutedIsScript'
    BY <1>1, <2>4, <2>5, <2>6 DEF ExecutedIsScript
  <2>8. ASSUME closing' = FALSE
        PROVE  Reached(k + 1)'
    <3>1. ~EndsSession(c.args)
      BY <1>4, <2>8 DEF SkipEmpty, Execute, RejectFrame, Poll, EndsSession
    <3>2. \A i \in 1 .. k + 1 : ~EndsSession(script[i])
      <4>1. ASSUME NEW i \in 1 .. k + 1 PROVE ~EndsSession(script[i])
        <5>1. CASE i = k + 1
          BY <2>3, <3>1, <5>1
        <5>2. CASE i # k + 1
          <6>1. i \in 1 .. k
            BY <2>4, <5>2
          <6> QED
            BY <2>2, <6>1 DEF Reached
        <5> QED
          BY <5>1, <5>2
      <4> QED
        BY <4>1
    <3> QED
      BY <1>1, <2>3, <2>5, <2>6, <3>2 DEF Reached
  <2> QED
    BY <1>1, <2>4, <2>6, <2>7, <2>8 DEF ScriptInv
<1> QED
  BY <1>2, <1>3, <1>4

(* Every step keeps the place in the script.                               *)
LEMMA ScriptStep ==
  ASSUME ScriptInv, ReplyInv, [Next]_vars
  PROVE  ScriptInv'
<1>1. CASE UNCHANGED <<script, tail, executed, input, stream, closing>>
  BY <1>1, NothingRun
<1>2. CASE Receive
  BY <1>2, ReceiveReached
<1>3. CASE Process
  BY <1>3, ProcessReached
<1> QED
  BY <1>1, <1>2, <1>3 DEF Next, Serve, ReadEnds, WriteSome, WriteFails, PeerLeaves, Client, vars

(* The commands run are the client's own, in order, each once: none is     *)
(* lost, torn, repeated or invented where the kernel cuts the bytes, a     *)
(* refused command and whatever follows a refusal or a HELLO is not run,   *)
(* for every script, limit, read size and way the bytes arrive             *)
(* (NextCommand, AppendBytes, ProcessInput).                               *)
THEOREM CommandsRunAreTheClients == Spec => []ExecutedIsScript
<1>1. Init => ReplyInv /\ ScriptInv
  BY InitAnswered, InitReached
<1>2. ReplyInv /\ ScriptInv /\ [Next]_vars => (ReplyInv /\ ScriptInv)'
  BY ReplyStep, ScriptStep
<1>3. ScriptInv => ExecutedIsScript
  BY DEF ScriptInv
<1> QED
  BY <1>1, <1>2, <1>3, PTL DEF Spec
=============================================================================
