----------------------------- MODULE MCStartup ------------------------------
(* Constants for model checking Startup, and with it BotStart. *)
EXTENDS Startup, TLC

CONSTANTS u1, u2, u3

MCUpdates == {u1, u2, u3}
MCSymmetry == Permutations(MCUpdates)
MCExtremes == {0, defaultAttemptTimeout}
=============================================================================
