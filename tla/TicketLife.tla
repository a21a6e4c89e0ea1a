----------------------------- MODULE TicketLife -----------------------------
(***************************************************************************)
(* What the agent promises about a ticket to those who read the ticket     *)
(* table, mctl-api and GitHub, whatever goroutines, retries and crashes    *)
(* lie behind it.  A ticket is analysed at most once; the analysis decides *)
(* it by compare-and-set against the status it read; one pull request at   *)
(* most comes of it; and nobody is told a status the ticket did not hold.  *)
(***************************************************************************)
CONSTANT Ticket

VARIABLES
    status,    \* Ticket -> its status, "none" before it is opened
    held,      \* Ticket -> the statuses it has held
    stage,     \* Ticket -> how far its one analysis is
    seen,      \* Ticket -> the status the analysis compares with, or "none"
    request,   \* Ticket -> its pull request
    told       \* Ticket -> what mctl-api was told last

lifeVars == <<status, held, stage, seen, request, told>>

Init ==
    /\ status = [t \in Ticket |-> "none"]
    /\ held = [t \in Ticket |-> {}]
    /\ stage = [t \in Ticket |-> "none"]
    /\ seen = [t \in Ticket |-> "none"]
    /\ request = [t \in Ticket |-> "none"]
    /\ told = [t \in Ticket |-> "absent"]

Unresolved == {"open", "analyzing", "escalated", "fix_proposed", "fix_applied"}
Settled == {"escalated", "fix_proposed", "fix_applied", "resolved"}

Takes(t, s) ==
    /\ status' = [status EXCEPT ![t] = s]
    /\ held' = [held EXCEPT ![t] = @ \cup {s}]

Goes(t, to, s) ==
    /\ stage' = [stage EXCEPT ![t] = to]
    /\ seen' = [seen EXCEPT ![t] = s]

Open(t) ==
    /\ stage[t] = "none"
    /\ Goes(t, "waiting", "none")
    /\ Takes(t, "open")
    /\ UNCHANGED <<request, told>>

\* Whatever the status: the one write that may undo a resolution.
Analyse(t) ==
    /\ stage[t] = "waiting"
    /\ Goes(t, "analysing", "none")
    /\ Takes(t, "analyzing")
    /\ UNCHANGED <<request, told>>

Read(t) ==
    /\ stage[t] = "analysing"
    /\ Goes(t, "deciding", status[t])
    /\ UNCHANGED <<status, held, request, told>>

\* The decisions that may follow from the status the analysis has seen.
Follow(t) ==
    IF seen[t] = "fix_proposed"
    THEN IF request[t] = "automerged" THEN {"fix_applied"} ELSE {}
    ELSE {"escalated", "fix_proposed"}

Decide(t) ==
    /\ stage[t] = "deciding"
    /\ status[t] = seen[t]
    /\ \E s \in Follow(t) : /\ Goes(t, "deciding", s) \/ Goes(t, "settling", "none")
                            /\ Takes(t, s)
    /\ UNCHANGED <<request, told>>

\* The ticket was resolved meanwhile: the analysis writes no status any more.
Yield(t) ==
    /\ stage[t] = "deciding"
    /\ status[t] = "resolved" /\ seen[t] # "resolved"
    /\ Goes(t, "settling", "none")
    /\ UNCHANGED <<status, held, request, told>>

Request(t) ==
    /\ stage[t] = "deciding"
    /\ request[t] = "none"
    /\ request' = [request EXCEPT ![t] = "open"]
    /\ UNCHANGED <<status, held, stage, seen, told>>

\* The analysis ends, its ticket decided.
Ends(t) ==
    /\ stage[t] \in {"deciding", "settling"}
    /\ status[t] \in Settled
    /\ Goes(t, "done", "none")

Finish(t) == Ends(t) /\ UNCHANGED <<status, held, request, told>>

\* The agent merges its own pull request; it may not hear that it did.
Merge(t) ==
    /\ stage[t] = "deciding"
    /\ request[t] = "open"
    /\ "fix_proposed" \in held[t]
    /\ request' = [request EXCEPT ![t] = "automerged"]
    /\ Ends(t) \/ UNCHANGED <<stage, seen>>
    /\ UNCHANGED <<status, held, told>>

Review(t) ==
    /\ request[t] = "open"
    /\ \E s \in {"merged", "closed"} : request' = [request EXCEPT ![t] = s]
    /\ UNCHANGED <<status, held, stage, seen, told>>

\* mctl-api is told a status; that may be the last thing the analysis does.
Tell(t) ==
    /\ UNCHANGED <<status, held, request>>
    /\ Ends(t) \/ UNCHANGED <<stage, seen>>
    /\ \E s \in held[t] : told' = [told EXCEPT ![t] = s]

Resolve(S) ==
    /\ \A t \in S : status[t] \in Unresolved
    /\ status' = [t \in Ticket |-> IF t \in S THEN "resolved" ELSE status[t]]
    /\ held' = [t \in Ticket |-> IF t \in S THEN held[t] \cup {"resolved"} ELSE held[t]]
    /\ UNCHANGED <<stage, seen, request, told>>

\* Analyses end undecided: the agent is paused, a statement fails, the process dies.
GiveUp(S) ==
    /\ \A t \in S : stage[t] \in {"waiting", "analysing", "deciding", "settling"}
    /\ stage' = [t \in Ticket |-> IF t \in S THEN "given up" ELSE stage[t]]
    /\ seen' = [t \in Ticket |-> IF t \in S THEN "none" ELSE seen[t]]
    /\ UNCHANGED <<status, held, request, told>>

TicketStep(t) ==
    \/ Open(t) \/ Analyse(t) \/ Read(t) \/ Decide(t) \/ Yield(t) \/ Request(t)
    \/ Finish(t) \/ Merge(t) \/ Review(t) \/ Tell(t)

Next ==
    \/ \E t \in Ticket : TicketStep(t)
    \/ \E S \in SUBSET Ticket : Resolve(S) \/ GiveUp(S)

Spec == Init /\ [][Next]_lifeVars
=============================================================================
