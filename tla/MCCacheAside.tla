---------------------------- MODULE MCCacheAside ----------------------------
(* Two callers of pages around the last cached one, of one resource, of lookups that are  *)
(* not cached, or of a list and an element of it.                                         *)
EXTENDS CacheAside, TLC

CONSTANTS c1, c2, s1, s2

TwoCallers == {c1, c2}
TwoStores == {s1, s2}
CallerSymmetry == {[x \in TwoCallers \cup TwoStores |-> IF x \in TwoCallers THEN p[x] ELSE q[x]] :
                     p \in Permutations(TwoCallers), q \in Permutations(TwoStores)}

SeparateDestinations ==
  {{ClassicLeague(1, 3), ClassicLeague(1, 4)}, {PlayerHistory(1)},
   {H2HLeagueMatches(1, 1, 0), H2HLeagueStandings(1, 1)}, {AllFixtures, Fixture(1)}}

SharedDestinations == {{Manager(1)}, {ManagerHistory(1)}, {EventLive(1)}, {CurrentTeam(1, 7)}}
=============================================================================
