---------------------------- MODULE MCRetryWaits ----------------------------
(* A Duration of 7 bits whose base can be shifted out of range. *)
EXTENDS RetryWaits

MCDefaults == [disabled |-> FALSE, base |-> 2, max |-> 8, cap |-> 60,
               retries |-> [s \in ThrottledStatuses |-> 1]]
=============================================================================
