---------------------------- MODULE MCConnection ----------------------------
(***************************************************************************)
(* Small clients for Connection: pipelines of up to three commands with    *)
(* empty arguments, empty commands, arrays over the ordinary limit and     *)
(* HELLOs, and tails that are cut short or malformed.                      *)
(***************************************************************************)
EXTENDS Connection

DigitText(n) == SubSeq(<<"0", "1", "2", "3", "4", "5", "6", "7", "8", "9">>, n + 1, n + 1)

AllBytes == Digits \cup {"*", "$", ":", "+", "-", "r", "n", "x", "R", "h"}

X == <<"x">>
R == <<"R">>
Empty == <<>>

GoodCommands == {<<>>, <<Empty>>, <<X, Empty>>}

\* Pipelines of commands any client may send.
GoodScripts == {<<a, b>> : a \in GoodCommands, b \in GoodCommands}
               \cup {<<<<X, X>>, <<X, X>>>>}

\* Cut short in the header, in the body and in a trailing CRLF; an array of
\* integers, an element that is no bulk string, a null bulk string, a negative
\* length, no array at all.
OddTails == { <<>>,
              <<"*", "1", "r">>,
              <<"*", "1", "r", "n", "$", "1", "r", "n", "x", "r">>,
              <<"*", "1", "r", "n", ":", "1", "r", "n">>,
              <<"*", "2", "r", "n", "$", "0", "r", "n", "r", "n", ":", "1", "r", "n">>,
              <<"*", "1", "r", "n", "$", "-", "1", "r", "n">>,
              <<"*", "-", "1", "r", "n">>,
              <<"x", "r", "n">> }

Hello == <<R, <<"h">>>>
BigFrame == <<R, X, X>>
BigCommand == <<X, X, X>>

\* What a client of a primary may send besides.
ReplScripts ==
  {<<<<X>>, c, d>> : c \in {Hello, <<R>>, BigFrame, BigCommand}, d \in {<<X>>, Hello}}

AllSessions == (GoodScripts \X {<<>>}) \cup (ReplScripts \X OddTails)

PollFrames == <<<<"frame", 1>>, <<"frame", 2>>>>
Hellos == {Hello}
=============================================================================
