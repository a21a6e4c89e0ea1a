--------------------------- MODULE MCSkillRegistry ---------------------------
(* Constants for model checking SkillRegistry. *)
EXTENDS SkillRegistry

CONSTANTS c1, c2, c3, own, e1

MCCallers == {c1, c2, c3}
MCOwn == {own}
MCOneEndpoint == {e1}
MCCalls == Call
=============================================================================
