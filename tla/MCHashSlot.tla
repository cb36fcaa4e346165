------------------------------- MODULE MCHashSlot -------------------------------
(* Instances of HashSlot for TLC. *)
EXTENDS HashSlot

CONSTANTS
    k1, k2, m1, m2,
    neg, zero, one, junk   \* the texts "-1", "0", "1" and one that is no integer

(* int64 is -1 .. 1: the texts are its decimal forms and one other text.   *)
Texts == {neg, zero, one, junk}
LeastI64 == -1
TextInteger == [s \in Texts |-> CASE s = neg -> -1 [] s = zero -> 0 [] s = one -> 1
                                  [] s = junk -> None]
IntegerText == [i \in -1 .. 1 |-> CASE i = -1 -> neg [] i = 0 -> zero [] i = 1 -> one]
JoinedText == [p \in Texts \X Texts |-> junk]

Expiring(k, num) == [Cmd("EXPIRE", k, {}) EXCEPT !.num = num]
Popping(k, num) == [Cmd("SPOP", k, {}) EXCEPT !.num = num]
Text(op, k, s) == [Cmd(op, k, {}) EXCEPT !.val = s]
SetWith(k, s, opts, unit, num) ==
    [Text("SET", k, s) EXCEPT !.opts = opts, !.unit = unit, !.num = num]
Fields(op, k, pairs) == [Cmd(op, k, {}) EXCEPT !.fields = pairs]
Scored(op, k, opts, pairs) == [Cmd(op, k, {}) EXCEPT !.opts = opts, !.scores = pairs]
F(m, s) == [member |-> m, val |-> s]
Z(m, s) == [member |-> m, score |-> s]

(* Two keys that are written, expire and are swept: lost updates, and the  *)
(* sweeper against writers.                                                *)
TwoKeyCommands ==
    {Cmd("SADD", k1, {m1}), Cmd("SREM", k1, {m1}), Cmd("DEL", k1, {}), Expiring(k1, 1),
     SetWith(k2, one, {}, "EX", 1), Expiring(k2, 2)}

(* One key shared by two clients: every type of object, random picks,      *)
(* deadlines, and what each command refuses.                               *)
OneKeyCommands ==
    {Cmd("SADD", k1, {m1, m2}), Cmd("SADD", k1, {m1}), Cmd("SREM", k1, {m2}),
     Popping(k1, 1), Popping(k1, 3), Cmd("DEL", k1, {}), Expiring(k1, 1), Expiring(k1, 9), Expiring(k1, 0),
     SetWith(k1, one, {"NX"}, "EX", 1), SetWith(k1, one, {"KEEPTTL"}, "none", 0),
     SetWith(k1, one, {"XX"}, "PX", 9), SetWith(k1, junk, {"XX", "GET"}, "PXAT", 1),
     SetWith(k1, zero, {}, "EXAT", 1), Text("SETNX", k1, one), Text("GETSET", k1, zero),
     Text("APPEND", k1, zero), Text("INCRBY", k1, one), Text("DECRBY", k1, neg),
     Fields("HSET", k1, <<F(m1, one), F(m2, junk), F(m1, zero)>>),
     Fields("HINCRBY", k1, <<F(m1, one)>>), Fields("HMSET", k1, <<F(m2, neg)>>),
     Cmd("HDEL", k1, {m1}), Cmd("HDEL", k1, {m1, m2}),
     Scored("ZADD", k1, {}, <<Z(m1, 1), Z(m2, 0), Z(m1, 0)>>),
     Scored("ZADD", k1, {"NX"}, <<Z(m1, 1), Z(m1, 0)>>),
     Scored("ZADD", k1, {"NX", "GT"}, <<Z(m1, 1)>>),
     Scored("ZADD", k1, {"XX", "GT", "CH"}, <<Z(m1, 1), Z(m2, -1)>>),
     Scored("ZADD", k1, {"INCR", "LT"}, <<Z(m1, -1)>>),
     Scored("ZINCRBY", k1, {}, <<Z(m1, 1)>>), Cmd("ZREM", k1, {m1})}
=============================================================================
