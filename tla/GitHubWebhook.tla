--------------------------- MODULE GitHubWebhook ---------------------------
(***************************************************************************)
(* internal/monitor/github_webhook.go beside the alert webhook and the     *)
(* pipeline: failed workflow runs become tickets, and a workflow that      *)
(* keeps failing keeps its ticket young.  GitHub is answered 200 whatever  *)
(* happened and never sends a run again.                                   *)
(*                                                                         *)
(* The poller, which closes the tickets, composes these steps with its own.*)
(***************************************************************************)
EXTENDS AlertHandler

CONSTANTS
    Delivery,   \* goroutines serving POST /api/v1/github-webhook at a time
    Workflow    \* workloads of type github_actions_failed

ASSUME WorkflowAssumption == /\ Workflow \subseteq Workload
                             /\ Workflow # {} => NoAlertName \in AlertName
                                                 /\ "github_webhook" \in Source

VARIABLES
    delivery,   \* Delivery -> what the goroutine is doing
    quiet       \* history: how long no failure was recorded in the ticket, as an Age

workflowVars == <<delivery, quiet>>
webhookVars == <<alertVars, workflowVars>>
inboundVars == <<agentVars, workflowVars>>

Unbusy == [step |-> "idle", about |-> {}, ticket |-> NoTicket]

WorkflowTypeOK ==
    /\ delivery \in [Delivery -> [step: {"idle", "touch", "create", "handoff"},
                                  about: SUBSET Workflow, ticket: Ticket \cup {NoTicket}]]
    /\ quiet \in [Ticket -> Age]

WorkflowInit ==
    /\ delivery = [d \in Delivery |-> Unbusy]
    /\ quiet = [t \in Ticket |-> 0]

-----------------------------------------------------------------------------
(* processWorkflowRun *)

WorkflowKey(w) == <<w, NoAlertName>>

\* A run completed with a failure.  A failed dedup check is logged, and the handler
\* goes on as if there were no ticket.
WorkflowFailed(d, w) ==
    /\ delivery[d] = Unbusy
    /\ LET dup == FindDuplicate(WorkflowKey(w))
           to(step, t) == [step |-> step, about |-> {w}, ticket |-> t]
       IN \/ dup # NoTicket /\ delivery' = [delivery EXCEPT ![d] = to("touch", dup)]
          \/ /\ dup = NoTicket \/ "store" \in Faults
             /\ delivery' = [delivery EXCEPT ![d] = to("create", NoTicket)]
    /\ UNCHANGED <<agentVars, quiet>>

RecordedIn(t) == quiet' = [quiet EXCEPT ![t] = 0]
Over(d) == delivery' = [delivery EXCEPT ![d] = Unbusy]
Forgotten(d) == NoStore /\ Over(d) /\ UNCHANGED quiet

TouchFailure(d) ==
    /\ delivery[d].step = "touch"
    /\ \/ /\ Touch(delivery[d].ticket) /\ UNCHANGED <<created, outsideVars>> /\ Others
          /\ RecordedIn(delivery[d].ticket) /\ Over(d)
       \/ Forgotten(d)
    /\ UNCHANGED alertVars

CreateFailure(d, w) ==
    /\ delivery[d].step = "create" /\ delivery[d].about = {w}
    /\ \/ /\ NewTicket("github_webhook", WorkflowKey(w), {})
          /\ delivery' = [delivery EXCEPT ![d].step = "handoff", ![d].ticket = created + 1]
          /\ RecordedIn(created + 1)
       \/ Forgotten(d)
    /\ UNCHANGED alertVars

HandOffFailure(d) ==
    /\ delivery[d].step = "handoff"
    /\ ProcessTicket(delivery[d].ticket)
    /\ Over(d)
    /\ UNCHANGED <<alertVars, quiet>>

DeliveryStep(d) ==
    \/ TouchFailure(d) \/ HandOffFailure(d)
    \/ \E w \in Workflow : WorkflowFailed(d, w) \/ CreateFailure(d, w)

\* The process dies; what GitHub delivered is lost.
Undelivered == delivery' = [d \in Delivery |-> Unbusy] /\ UNCHANGED quiet

\* Time that passes for a ticket passes for its quiet.
Quieter(t) ==
    quiet' = [quiet EXCEPT ![t] = IF row[t].source = "github_webhook" /\ @ < MaxAge THEN @ + 1 ELSE @]
=============================================================================
