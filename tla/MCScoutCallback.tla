---------------------------- MODULE MCScoutCallback --------------------------
(* Constants for model checking ScoutCallback, and with it ScoutSpike. *)
EXTENDS ScoutCallback, TLC

CONSTANTS p1, p2, e1, e2, e3, s1, s2

MCPress == {p1, p2}
MCEntry == {e1, e2, e3}
MCSrc == {s1, s2}
MCSymmetry == Permutations(MCEntry) \cup Permutations(MCPress) \cup Permutations(MCSrc)

=============================================================================
