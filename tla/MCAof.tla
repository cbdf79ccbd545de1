------------------------------- MODULE MCAof -------------------------------
(* Model checking of Aof: the commands clients send.                         *)
EXTENDS Aof

CONSTANTS k1, k2, v1, v2

TwoKeys == {k1, k2}
TwoValues == {v1, v2} \cup TwoKeys   \* DEL has keys for arguments

Plain(op, key, args) == Command(op, key, args, "none", 0)

\* Every command that changes the store, on two keys that can have any type.
AllCommands ==
  {Plain("SET", k1, <<v1>>), Plain("SET", k2, <<v2>>),
   Command("SET", k1, <<v2>>, "PXAT", 1), Command("SET", k1, <<v2>>, "PX", 1),
   Command("SET", k1, <<v1>>, "invalid", 0), Command("SET", k2, <<v1>>, "PXAT", -1),
   Plain("GET", k1, <<>>),
   Plain("LPUSH", k1, <<v1, v2>>), Plain("RPUSH", k2, <<v2>>),
   Command("LPOP", k1, <<>>, "none", 1), Command("RPOP", k1, <<>>, "none", 2),
   Command("LPOP", k1, <<>>, "none", -1),
   Plain("HSET", k1, <<v1, v1>>), Plain("HSET", k1, <<v1, v2, v2, v1>>),
   Plain("HDEL", k1, <<v1>>),
   Plain("SADD", k1, <<v2>>), Plain("SADD", k2, <<v1, v2>>), Plain("SDEL", k2, <<v1>>),
   Plain("DEL", k1, <<k2>>),
   Plain("LLEN", k2, <<>>), Plain("HGET", k1, <<v2>>)}

\* A key that comes, goes and expires, and an expiry time that is not recorded.
SomeCommands ==
  {Plain("SADD", k1, <<v1>>), Plain("DEL", k1, <<>>),
   Command("SET", k1, <<v1>>, "PXAT", 1), Command("SET", k2, <<v1>>, "PX", 1)}
=============================================================================
