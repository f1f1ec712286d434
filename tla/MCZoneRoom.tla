----------------------------- MODULE MCZoneRoom -----------------------------
(* Small instances of the zone room for TLC.                               *)
EXTENDS ZoneRoom, TLC

BoardSymmetry == Permutations(Actors) \cup Permutations(Ids)
=============================================================================
