---------------------------- MODULE BatchContract ----------------------------
(***************************************************************************)
(* The delivery contract of GetPlayerHistoriesBatch, as the reader of the  *)
(* returned channel sees it: every input occurrence gives one result, in   *)
(* any order, and the channel ends when all were delivered, or at any time *)
(* once the context is cancelled.                                          *)
(***************************************************************************)
EXTENDS Naturals, Sequences

VARIABLES inputs,     \* length of the ids slice
          delivered,  \* positions in it of the results received, so that
                      \* duplicate ids are distinct
          cancelled,
          ended       \* the reader saw the channel closed

contractVars == <<inputs, delivered, cancelled, ended>>

Delivered == {delivered[i] : i \in DOMAIN delivered}
Missing == (0 .. inputs - 1) \ Delivered

ContractInit == /\ inputs \in Nat
                /\ delivered = <<>>
                /\ cancelled = FALSE
                /\ ended = FALSE

Deliver == /\ ~ended
           /\ \E i \in Missing : delivered' = Append(delivered, i)
           /\ UNCHANGED <<inputs, cancelled, ended>>

CancelContext == cancelled' = TRUE /\ UNCHANGED <<inputs, delivered, ended>>

End == /\ Missing = {} \/ cancelled
       /\ ended' = TRUE
       /\ UNCHANGED <<inputs, delivered, cancelled>>

ContractNext == Deliver \/ CancelContext \/ End

Contract == ContractInit /\ [][ContractNext]_contractVars
=============================================================================
