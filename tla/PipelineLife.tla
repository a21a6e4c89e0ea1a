---------------------------- MODULE PipelineLife ----------------------------
(* The pipeline implements TicketLife. *)
EXTENDS Pipeline

\* The pcs at which the run still compares the row with the status it has seen.
Comparing == Deciding \cup Linked \cup {"link"}

StageOf ==
    [p \in Pc |->
        CASE p = "none" -> "none"
          [] p \in Waiting \cup {"start"} -> "waiting"
          [] p \in {"publish", "reload"} -> "analysing"
          [] p \in Comparing -> "deciding"
          [] p \in {"mirror", "linkOnly"} -> "settling"
          [] p = "done" -> "done"
          [] p \in Ended \ {"done"} -> "given up"]

Stage(t) == StageOf[pc[t]]

Seen(t) == IF pc[t] \in Comparing THEN mem[t].status ELSE "none"

\* A branch without a pull request is nothing a reader of pull requests sees.
PullRequest(t) == IF HasPR(t) THEN github[t] ELSE "none"

Statuses == [t \in Ticket |-> row[t].status]
Histories == [t \in Ticket |-> row[t].took]
Stages == [t \in Ticket |-> Stage(t)]
Sights == [t \in Ticket |-> Seen(t)]
Requests == [t \in Ticket |-> PullRequest(t)]

TL == INSTANCE TicketLife WITH
        status <- Statuses, held <- Histories, stage <- Stages,
        seen <- Sights, request <- Requests, told <- mirror

\* Whatever fails and however the goroutines interleave, tickets, pull requests and the
\* mirror move as TicketLife allows: one analysis and one pull request per ticket,
\* decisions by compare-and-set, no run that ends with its ticket undecided unless it
\* gave up, no merge without a proposed fix, no report of a status never held.
TicketsLiveAsPromised == TL!Spec
=============================================================================
