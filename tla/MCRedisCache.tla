---------------------------- MODULE MCRedisCache ----------------------------
(* Two caches with one prefix, or one of them without, and an unrelated key. *)
EXTENDS RedisCache

CONSTANTS c1, c2

TwoCallers == {c1, c2}
MCPrefixes == {[c \in TwoCallers |-> <<"sdk">>],
               [c \in TwoCallers |-> IF c = c1 THEN <<"sdk">> ELSE <<>>]}
MCForeign == {<<"app", "x">>}
=============================================================================
