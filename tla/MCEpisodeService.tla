-------------------------- MODULE MCEpisodeService --------------------------
(* EpisodeService on a few episodes: two poolable snapshots that compete   *)
(* for one warm slot, one snapshot that never warms, every call fallible.  *)
EXTENDS EpisodeService, TLC

CONSTANTS e1, e2, e3, web, api, shell, r1, r2

MCEpisodeIds == {e1, e2, e3}
MCSnapshots  == {web, api, shell}
MCPoolable   == {web, api}
MCRuntimes   == {r1, r2}
AllFaults    == FaultPoints
NoFaults     == {}

Symmetry == Permutations(MCEpisodeIds) \cup Permutations(MCRuntimes)
              \cup Permutations(MCPoolable)
=============================================================================
