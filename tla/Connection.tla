----------------------------- MODULE Connection -----------------------------
(***************************************************************************)
(* One client connection of src/src/net/server.cpp: the coroutine that     *)
(* reads what has arrived, runs every complete command of the stream,      *)
(* writes the replies and closes the socket on an error, on the client's   *)
(* end of file and after a replication poll.  The client sends a script of *)
(* commands followed by a tail; the kernel cuts the bytes into reads as it *)
(* likes.  A reply, and a replication frame, is one unit of output.        *)
(***************************************************************************)
EXTENDS RespCodec, SequencesExt

CONSTANTS
  Bytes,          \* the bytes, as one-character strings
  Sessions,       \* what a client may send: commands and the bytes after them
  Number(_),      \* how a client writes a length
  MaxLength,      \* the largest length it writes
  ReadSize,       \* the size of the read buffer
  OrdinaryLimit,  \* the array length any client may send (1024)
  IsMaster,       \* the server is a primary with a MasterReplicator
  ReplName,       \* the command name CACHE.REPL
  HelloFrames,    \* the commands DecodeFrame reads as a valid HELLO
  Frames          \* the frames Poll answers it with

ASSUME ConnectionAssumption ==
  /\ ReadSize \in Nat \ {0} /\ OrdinaryLimit \in Nat /\ IsMaster \in BOOLEAN
  /\ Frames \in Seq({Frames[i] : i \in DOMAIN Frames})

ASSUME NumberAssumption ==
  /\ Digits \cup {"*", "$", "r", "n"} \subseteq Bytes
  /\ MaxLength \in Nat
  /\ \A n \in 0..MaxLength :
       Number(n) \in Seq(Digits) /\ AllDigits(Number(n)) /\ DecimalValue(Number(n)) = n

ASSUME SessionAssumption ==
  \A session \in Sessions :
    /\ session[1] \in Seq(Seq(Seq(Bytes))) /\ session[2] \in Seq(Bytes)
    /\ \A i \in DOMAIN session[1] :
         /\ Len(session[1][i]) <= MaxLength
         /\ \A j \in DOMAIN session[1][i] : Len(session[1][i][j]) <= MaxLength
    /\ \A n \in 0..Len(session[2]), accepted \in BOOLEAN :
         NextCommand(SubSeq(session[2], 1, n), accepted).status # "command"

VARIABLES
  script, tail,   \* what the client sends, fixed at the start
  input,          \* the bytes of it not yet read
  peer,           \* "open", "closed" (end of file after input) or "reset"
  stream,         \* stream_
  pc,             \* where the coroutine stands
  out,            \* replies not yet written
  closing,        \* the write in progress is the last one
  sock,           \* what the socket has taken
  executed        \* the commands run, in order

vars == <<script, tail, input, peer, stream, pc, out, closing, sock, executed>>

EncodeBulk(text) == <<"$">> \o Number(Len(text)) \o CRLF \o text \o CRLF

EncodeBody(command) == FlattenSeq([i \in DOMAIN command |-> EncodeBulk(command[i])])

\* How a client writes a command.
Encode(command) == <<"*">> \o Number(Len(command)) \o CRLF \o EncodeBody(command)

Sent == FlattenSeq([i \in DOMAIN script |-> Encode(script[i])]) \o tail

ErrorReply == <<"error">>
FrameError == <<"frame_error">>
ReplyTo(command) == <<"reply", command>>

\* A policy that leaves the length to the codec's limit.
AcceptAnyCount(name, count) == TRUE

\* The policy ProcessInput hands to NextCommand.
Accept(name, count) == count <= OrdinaryLimit \/ (IsMaster /\ name = ReplName)

PolicyAccepts == Accept(AnnouncedName(stream), AnnouncedCount(stream))

IsRepl(args) == IsMaster /\ args[1] = ReplName

Init ==
  /\ \E session \in Sessions : script = session[1] /\ tail = session[2]
  /\ input = Sent
  /\ peer = "open"
  /\ stream = <<>>
  /\ pc = "read"
  /\ out = <<>>
  /\ closing = FALSE
  /\ sock = <<>>
  /\ executed = <<>>

Client == UNCHANGED <<script, tail>>

\* read() returned bytes: AppendBytes, and on refusal the final error.
Receive ==
  /\ pc = "read"
  /\ peer # "reset"
  /\ \E n \in {k \in 1..ReadSize : k <= Len(input)} :
       LET bytes == SubSeq(input, 1, n)
       IN /\ input' = SubSeq(input, n + 1, Len(input))
          /\ IF FitsStream(stream, bytes)
             THEN /\ stream' = stream \o bytes
                  /\ pc' = "process"
                  /\ UNCHANGED <<out, closing>>
             ELSE /\ out' = <<ErrorReply>>
                  /\ closing' = TRUE
                  /\ pc' = "write"
                  /\ UNCHANGED stream
  /\ UNCHANGED <<peer, sock, executed>> /\ Client

\* A loop that takes a broken socket for one that is not ready.
ReadEndsAtEof ==
  /\ pc = "read"
  /\ peer = "closed" /\ input = <<>>
  /\ pc' = "closed"
  /\ UNCHANGED <<input, peer, stream, out, closing, sock, executed>> /\ Client

\* read() returned end of file or an error.
ReadEnds ==
  /\ pc = "read"
  /\ (peer = "closed" /\ input = <<>>) \/ peer = "reset"
  /\ pc' = "closed"
  /\ UNCHANGED <<input, peer, stream, out, closing, sock, executed>> /\ Client

\* The command leaves the stream; c is what NextCommand returned.
Take(c) ==
  /\ c.status = "command"
  /\ stream' = SubSeq(stream, c.consumed + 1, Len(stream))

\* A loop that stops at an empty array as if the stream were used up.
StopAtEmpty(c) ==
  /\ Take(c)
  /\ c.args = <<>>
  /\ pc' = IF out = <<>> THEN "read" ELSE "write"
  /\ UNCHANGED <<out, closing, executed>>

\* An empty array is dropped without a reply.
SkipEmpty(c) ==
  /\ Take(c)
  /\ c.args = <<>>
  /\ UNCHANGED <<pc, out, closing, executed>>

Execute(c) ==
  /\ Take(c)
  /\ c.args # <<>> /\ ~IsRepl(c.args)
  /\ executed' = Append(executed, c.args)
  /\ out' = Append(out, ReplyTo(c.args))
  /\ UNCHANGED <<pc, closing>>

RejectFrame(c) ==
  /\ Take(c)
  /\ c.args # <<>> /\ IsRepl(c.args) /\ c.args \notin HelloFrames
  /\ executed' = Append(executed, c.args)
  /\ out' = Append(out, FrameError)
  /\ UNCHANGED <<pc, closing>>

\* A HELLO is polled, the earlier replies and then the frames are written and
\* the connection is closed.  A failed write ends it, so the separate WriteAll
\* calls are one write of everything.
Poll(c) ==
  /\ Take(c)
  /\ c.args # <<>> /\ IsRepl(c.args) /\ c.args \in HelloFrames
  /\ executed' = Append(executed, c.args)
  /\ out' = out \o Frames
  /\ closing' = TRUE
  /\ pc' = "write"

\* No complete command is left: write what there is and read again.
Drained(c) ==
  /\ c.status = "none"
  /\ pc' = IF out = <<>> THEN "read" ELSE "write"
  /\ UNCHANGED <<stream, out, closing, executed>>

\* A protocol error is reported behind the earlier replies and ends it all.
ProtocolError(c) ==
  /\ c.status = "error"
  /\ out' = Append(out, ErrorReply)
  /\ closing' = TRUE
  /\ pc' = "write"
  /\ UNCHANGED <<stream, executed>>

\* One turn of ProcessInput's loop.
Process ==
  /\ pc = "process"
  /\ \E c \in {NextCommand(stream, PolicyAccepts)} :
       \/ SkipEmpty(c) \/ Execute(c) \/ RejectFrame(c) \/ Poll(c)
       \/ Drained(c) \/ ProtocolError(c)
  /\ UNCHANGED <<input, peer, sock>> /\ Client

AfterWrite == IF closing THEN "closed" ELSE "read"

\* A WriteAll that starts over after a short write.
WriteAgainFromStart ==
  /\ pc = "write"
  /\ peer # "reset"
  /\ \E n \in 0..Len(out) :
       /\ n > 0 \/ out = <<>>
       /\ sock' = sock \o SubSeq(out, 1, n)
       /\ out' = IF n = Len(out) THEN <<>> ELSE out
       /\ pc' = IF n = Len(out) THEN AfterWrite ELSE "write"
  /\ UNCHANGED <<input, peer, stream, closing, executed>> /\ Client

\* WriteAll: write() takes some of what is left (EAGAIN polls and retries).
WriteSome ==
  /\ pc = "write"
  /\ peer # "reset"
  /\ \E n \in 0..Len(out) :
       /\ n > 0 \/ out = <<>>
       /\ sock' = sock \o SubSeq(out, 1, n)
       /\ out' = SubSeq(out, n + 1, Len(out))
       /\ pc' = IF n = Len(out) THEN AfterWrite ELSE "write"
  /\ UNCHANGED <<input, peer, stream, closing, executed>> /\ Client

WriteFails ==
  /\ pc = "write"
  /\ peer = "reset"
  /\ pc' = "closed"
  /\ UNCHANGED <<input, peer, stream, out, closing, sock, executed>> /\ Client

\* The client shuts its side down, or the connection breaks.
PeerLeaves ==
  /\ peer = "open"
  /\ peer' \in {"closed", "reset"}
  /\ UNCHANGED <<input, stream, pc, out, closing, sock, executed>> /\ Client

Serve == Receive \/ ReadEnds \/ Process \/ WriteSome \/ WriteFails

Next == Serve \/ PeerLeaves

Spec == Init /\ [][Next]_vars

\* The coroutine is resumed whenever its socket is ready, and the peer takes
\* what is written to it.
FairSpec == Spec /\ WF_vars(Serve)

-----------------------------------------------------------------------------
NonEmpty(commands) ==
  FlattenSeq([i \in DOMAIN commands |-> IF commands[i] = <<>> THEN <<>> ELSE <<commands[i]>>])

Acceptable(c) ==
  /\ Len(c) <= MaxArrayElements
  /\ Len(c) > OrdinaryLimit => IsMaster /\ c[1] = ReplName
  /\ \A i \in DOMAIN c : Len(c[i]) <= MaxBulkBytes

EndsSession(c) == c # <<>> /\ IsRepl(c) /\ c \in HelloFrames

\* None of the first n commands is refused, and none but the last a HELLO.
MayRun(n) ==
  \A i \in 1..n : Acceptable(script[i]) /\ (i < n => ~EndsSession(script[i]))

FirstCommands(n) == NonEmpty(SubSeq(script, 1, n))

\* The commands of the script up to the first refused one, or up to and
\* including the first HELLO.
Expected ==
  FirstCommands(CHOOSE n \in 0..Len(script) :
                  MayRun(n) /\ \A m \in n + 1..Len(script) : ~MayRun(m))

ReplyUnits(c) ==
  IF EndsSession(c) THEN Frames
  ELSE IF IsRepl(c) THEN <<FrameError>>
  ELSE <<ReplyTo(c)>>

RepliesTo(commands) ==
  LET replies[n \in 0..Len(commands)] ==
        IF n = 0 THEN <<>> ELSE replies[n - 1] \o ReplyUnits(commands[n])
  IN replies[Len(commands)]

\* However the bytes are cut into reads, the commands run are the client's, in
\* order, each once; a refused command, a command cut short and anything after
\* a refusal or a HELLO is never run (NextCommand, ProcessInput).
ExecutedIsScript == \E n \in 0..Len(script) : MayRun(n) /\ executed = FirstCommands(n)

\* What the client has received and what is queued for it are the replies to
\* the commands run, in order, each once, whole writes or short ones; only the
\* last may be the error that ends the connection (ProcessInput, WriteAll).
RepliesInOrder ==
  sock \o out \in {RepliesTo(executed), Append(RepliesTo(executed), ErrorReply)}

FitsWithAnyCut ==
  \A i \in DOMAIN script : Len(Encode(script[i])) - 1 + ReadSize <= MaxStreamBytes

WellFormed ==
  tail = <<>> /\ FitsWithAnyCut /\ \A i \in DOMAIN script : Acceptable(script[i])

\* A client that sends only acceptable commands, none larger than the stream
\* limit less a read, and stays, is never refused and gets every answer, however
\* much it pipelines and however its bytes are cut (AppendBytes, NextCommand).
EveryCommandAnswered ==
  WellFormed => <>(sock = RepliesTo(Expected) \/ peer # "open")

\* A connection whose peer has gone is closed, so its task is free again.
LeftPeerIsClosed == (peer # "open") ~> (pc = "closed")
=============================================================================
