-------------------------- MODULE MCThrottledClient --------------------------
(* One caller with every kind of policy and of answer. *)
EXTENDS ThrottledClient

CONSTANT c1

OneCaller == {c1}

Retries(r429, r403) == [s \in ThrottledStatuses |-> IF s = TooManyRequests THEN r429 ELSE r403]
MCDefaults == [disabled |-> FALSE, retries |-> Retries(1, 2), base |-> 1, max |-> 2, cap |-> 2]

\* The zero value, and 429 retries turned off with a maximum below the base.
ThreePolicies == {[disabled |-> FALSE, retries |-> Retries(0, 0), base |-> 0, max |-> 0, cap |-> 0],
                  [disabled |-> FALSE, retries |-> Retries(-1, 1), base |-> 2, max |-> 1, cap |-> 1],
                  [disabled |-> TRUE, retries |-> Retries(0, 0), base |-> 0, max |-> 0, cap |-> 0]}

Answer(status, header, body) == [status |-> status, header |-> header, body |-> body]
AllAnswers == {Answer(200, NoHeader, "other")}
                 \cup {Answer(TooManyRequests, h, "other") : h \in {Junk, Seconds(1), Seconds(9), Date(2)}}
                 \cup {Answer(Forbidden, h, "other") : h \in {NoHeader, Seconds(1)}}
                 \cup {Answer(Unavailable, NoHeader, b) : b \in {"other", "maintenance", "unreadable"}}
=============================================================================
