----------------------------- MODULE Forwarding -----------------------------
(***************************************************************************)
(* What the forwarder of internal/botstart promises about an observation,  *)
(* whatever its tokens, counters, attempts and deadlines are: it is sent   *)
(* or dropped and counted once, with a bounded number of sends at a time;  *)
(* nothing is sent any more after the close, and the process goes when     *)
(* what was sent is counted.                                               *)
(***************************************************************************)
EXTENDS Naturals, FiniteSets

CONSTANTS Update, MaxInFlight

VARIABLES
    counted,   \* Update -> the outcome it was counted with, or "none"
    flying,    \* the updates whose observation is being sent
    stage      \* of the forwarder: "open", "closed" or "gone"

forwardingVars == <<counted, flying, stage>>

Init ==
    /\ counted = [u \in Update |-> "none"]
    /\ flying = {}
    /\ stage = "open"

Uncounted(u) == counted[u] = "none" /\ u \notin flying

Fly(u) ==
    /\ stage = "open"
    /\ Uncounted(u)
    /\ Cardinality(flying) < MaxInFlight
    /\ flying' = flying \cup {u}
    /\ UNCHANGED <<counted, stage>>

Count(u) ==
    /\ u \in flying
    /\ \E outcome \in {"sent", "rejected", "failed"} : counted' = [counted EXCEPT ![u] = outcome]
    /\ flying' = flying \ {u}
    /\ UNCHANGED stage

\* The limit is reached, with what was sent but holds its token still, or it is too late.
Drop(u) ==
    /\ stage # "gone"
    /\ Uncounted(u)
    /\ counted' = [counted EXCEPT ![u] = "dropped"]
    /\ UNCHANGED <<flying, stage>>

Close == stage = "open" /\ stage' = "closed" /\ UNCHANGED <<counted, flying>>

Go ==
    /\ stage = "closed" /\ flying = {}
    /\ stage' = "gone"
    /\ UNCHANGED <<counted, flying>>

Next == (\E u \in Update : Fly(u) \/ Count(u) \/ Drop(u)) \/ Close \/ Go

Spec == Init /\ [][Next]_forwardingVars
=============================================================================
