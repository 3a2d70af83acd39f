---------------------------- MODULE MCMemoryCache ----------------------------
(* Two goroutines on one key, and on two keys that the cleanup task visits together. *)
EXTENDS MemoryCache

CONSTANTS p1, p2, k1, k2

TwoProcs == {p1, p2}
OneKey == {k1}
TwoKeys == {k1, k2}
=============================================================================
