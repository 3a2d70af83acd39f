----------------------------- MODULE MCBootstrap -----------------------------
(* Two callers, one with an explicit store that is also a candidate for the shared one, *)
(* and two of the four sections.                                                        *)
EXTENDS Bootstrap

CONSTANTS c1, c2, st1, st2

TwoCallers == {c1, c2}
TwoStores == {st1, st2}
FirstExplicit == [c \in Callers |-> IF c = c1 THEN st1 ELSE None]
TwoSections == <<"teams", "players">>
=============================================================================
