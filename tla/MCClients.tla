------------------------------ MODULE MCClients ------------------------------
(* Two clients that borrow from one application, closed by two goroutines. *)
EXTENDS Clients

CONSTANTS c1, c2, g1, g2

TwoClients == {c1, c2}
TwoClosers == {g1, g2}
InterchangeableParts == {[x \in TwoClients \cup TwoClosers |-> IF x \in TwoClients THEN p[x] ELSE q[x]] :
                           p \in Permutations(TwoClients), q \in Permutations(TwoClosers)}

Backends == {"memory", "auto", "redis", "other"}
MCEnvironments == {[backend |-> b, db |-> TRUE] : b \in Backends}
                    \cup {[backend |-> "auto", db |-> FALSE]}
ATimeout == {1, 2}
MCRates == {0, 7}
=============================================================================
