------------------------------- MODULE Poller -------------------------------
(***************************************************************************)
(* internal/monitor/poller.go beside both webhooks and the pipeline:       *)
(* one goroutine that scans the ArgoCD health of the services and then     *)
(* closes tickets by age, by inventory and by AlertManager's active set.   *)
(*                                                                         *)
(* The three closing passes have one shape.  A pass lists the open tickets *)
(* once, decides from that list, and resolves row by row with a statement  *)
(* guarded by the status it listed; everybody else works in between.       *)
(***************************************************************************)
EXTENDS GitHubWebhook

CONSTANTS
    Argo,       \* workloads of type argocd_degraded, one per service
    Elsewhere   \* other alerts, of no ticket, keep AlertManager's set nonempty

ASSUME PollerAssumption == /\ Argo \subseteq Workload
                           /\ Argo # {} => NoAlertName \in AlertName /\ "polling" \in Source
                           /\ Elsewhere \in BOOLEAN

VARIABLES
    health,   \* Argo -> what mctl-api answers for the service
    poll      \* the poll loop and what it has read

pollVars == <<health, poll>>
pollerVars == <<inboundVars, pollVars>>

\* services: still to be scanned.  doomed: tickets the pass decided to resolve,
\* with the status it listed.  known, missed: refreshState.  recorded, which the
\* code does not keep: the services this poll wrote down as degraded.
Resting == [step |-> "idle", services |-> {}, doomed |-> {}, known |-> {}, missed |-> {},
            recorded |-> {}, cur |-> {}, ticket |-> NoTicket, active |-> {}]

Poll == [step: {"idle", "scan", "touch", "create", "handoff", "stale", "prune", "fetch", "reconcile"},
         services: SUBSET Argo, doomed: SUBSET (Ticket \X OpenStatus), known: SUBSET Argo,
         missed: SUBSET Argo, recorded: SUBSET Argo, cur: SUBSET Argo, ticket: Ticket \cup {NoTicket}, active: SUBSET Fp]

PollerTypeOK ==
    /\ AlertTypeOK /\ WorkflowTypeOK
    /\ health \in [Argo -> {"healthy", "degraded", "gone"}]
    /\ poll \in Poll

PollerInit ==
    /\ AlertInit /\ WorkflowInit
    /\ health = [w \in Argo |-> "healthy"]
    /\ poll = Resting

Becomes(w, s) ==
    /\ health[w] # s
    /\ health' = [health EXCEPT ![w] = s]
    /\ UNCHANGED <<inboundVars, poll>>

-----------------------------------------------------------------------------
(* pollDegraded *)

\* ListServices; without an answer every service counts as missed.
StartPoll ==
    /\ poll.step = "idle"
    /\ LET listed == {w \in Argo : health[w] # "gone"} IN
         \/ poll' = [Resting EXCEPT !.step = "scan", !.services = listed, !.known = listed]
         \/ "api" \in Faults /\ poll' = [Resting EXCEPT !.step = "scan", !.missed = Argo]
    /\ UNCHANGED <<inboundVars, health>>

\* GetServiceStatus and, for a degraded service, FindDuplicate.
Scan(w) ==
    /\ poll.step = "scan" /\ w \in poll.services
    /\ LET next == [poll EXCEPT !.services = @ \ {w}]
           dup == FindDuplicate(<<w, NoAlertName>>)
       IN \/ health[w] # "degraded" /\ poll' = next
          \/ "api" \in Faults /\ poll' = [next EXCEPT !.missed = @ \cup {w}]
          \/ "store" \in Faults /\ health[w] = "degraded" /\ poll' = next
          \/ /\ health[w] = "degraded"
             /\ poll' = [poll EXCEPT !.step = IF dup = NoTicket THEN "create" ELSE "touch",
                                     !.ticket = dup, !.services = @ \ {w}, !.cur = {w}]
    /\ UNCHANGED <<inboundVars, health>>

Rescan(p) == [p EXCEPT !.step = "scan", !.cur = {}, !.ticket = NoTicket]

TouchDegraded ==
    /\ poll.step = "touch"
    /\ \/ /\ Touch(poll.ticket) /\ UNCHANGED <<created, outsideVars>> /\ Others
          /\ poll' = [Rescan(poll) EXCEPT !.recorded = @ \cup poll.cur]
       \/ NoStore /\ poll' = Rescan(poll)
    /\ UNCHANGED <<webhookVars, health>>

CreateDegraded(w) ==
    /\ poll.step = "create" /\ poll.cur = {w}
    /\ \/ /\ NewTicket("polling", <<w, NoAlertName>>, {})
          /\ poll' = [poll EXCEPT !.step = "handoff", !.ticket = created + 1,
                                     !.recorded = @ \cup {w}]
       \/ NoStore /\ poll' = Rescan(poll)
    /\ UNCHANGED <<webhookVars, health>>

OnTicket ==
    /\ poll.step = "handoff"
    /\ ProcessTicket(poll.ticket)
    /\ poll' = Rescan(poll)
    /\ UNCHANGED <<webhookVars, health>>

-----------------------------------------------------------------------------
(* The closing passes *)

\* The source of the ticket emits heartbeats.
eligibleSource(t) == row[t].source \in {"alertmanager", "polling", "github_webhook"}

argoRefreshed(t) == row[t].key[1] \in poll.missed => row[t].key[1] \notin Argo

Listed(t) == <<t, row[t].status>>

ClosableUnescalated == {t \in ListOpen : row[t].status \notin {"fix_applied", "escalated"}}

\* Every pass lets fix_applied alone.
Closable == {t \in ListOpen : row[t].status # "fix_applied"}

\* Tickets stuck in analyzing whose created_at is older than MaxAnalyzingAge: a
\* run in progress is younger than its 15 minutes.
CanBeTooOld == {t \in ListOpen : row[t].status = "analyzing" /\ pc[t] \notin Active /\ eligibleSource(t)}

StaleTicketsTooSoon(old) ==
    {Listed(t) : t \in old \cup {u \in Closable : eligibleSource(u) /\ argoRefreshed(u) /\ row[u].age >= Settled}}

StaleTickets(old) ==
    {Listed(t) : t \in old \cup {u \in Closable : eligibleSource(u) /\ argoRefreshed(u) /\ row[u].age >= Stale}}

\* An empty inventory is no evidence, and neither is a missing one.
Orphans ==
    IF poll.known = {} THEN {}
    ELSE {Listed(t) : t \in {u \in Closable : /\ row[u].source = "polling"
                                             /\ row[u].key[1] \notin poll.known
                                             /\ row[u].age >= Settled}}

Gone ==
    {Listed(t) : t \in {u \in Closable : /\ row[u].source = "alertmanager"
                                        /\ row[u].fps # {} /\ row[u].fps \cap poll.active = {}
                                        /\ row[u].age >= Settled}}

\* ListOpen, and what the pass will try to resolve; without it the pass is skipped.
List(step, S) ==
    poll' = [poll EXCEPT !.step = step, !.doomed = S]

ListStale ==
    /\ poll.step = "scan" /\ poll.services = {}
    /\ \/ \E old \in SUBSET CanBeTooOld : List("stale", StaleTickets(old))
       \/ "store" \in Faults /\ List("stale", {})
    /\ UNCHANGED <<inboundVars, health>>

ListOrphans ==
    /\ poll.step = "stale" /\ poll.doomed = {}
    /\ List("prune", Orphans) \/ ("store" \in Faults /\ List("prune", {}))
    /\ UNCHANGED <<inboundVars, health>>

\* ActiveFingerprints; on an error or an empty set the pass is skipped.
FetchActive ==
    /\ poll.step = "prune" /\ poll.doomed = {}
    /\ LET active == {f \in Fp : firing[f]} IN
         \/ /\ active # {} \/ Elsewhere
            /\ poll' = [poll EXCEPT !.step = "fetch", !.active = active]
         \/ /\ (active = {} /\ ~Elsewhere) \/ "api" \in Faults
            /\ poll' = Resting
    /\ UNCHANGED <<inboundVars, health>>

ListGone ==
    /\ poll.step = "fetch"
    /\ List("reconcile", Gone) \/ ("store" \in Faults /\ List("reconcile", {}))
    /\ UNCHANGED <<inboundVars, health>>

\* ResolveByID or ResolveByIDFromStatus, and propagateResolve if it took a row.
ResolveListed(t, from) ==
    /\ <<t, from>> \in poll.doomed
    /\ LET S == ResolveByIDFromStatus(t, from) IN
         \/ S # {} /\ Resolved(S, S)
         \/ S = {} /\ UNCHANGED pipelineVars
         \/ NoStore
    /\ poll' = [poll EXCEPT !.doomed = @ \ {<<t, from>>}]
    /\ UNCHANGED <<webhookVars, health>>

EndPoll ==
    /\ poll.step = "reconcile" /\ poll.doomed = {}
    /\ poll' = Resting
    /\ UNCHANGED <<inboundVars, health>>

PollStep ==
    \/ StartPoll \/ TouchDegraded \/ OnTicket
    \/ \E w \in Argo : Scan(w) \/ CreateDegraded(w)
    \/ ListStale \/ ListOrphans \/ FetchActive \/ ListGone \/ EndPoll
    \/ \E t \in Ticket, from \in OpenStatus : ResolveListed(t, from)

-----------------------------------------------------------------------------

\* A poll is short beside the stale TTL, as a run is, and its reconciliation is
\* short beside AMReconcileMinAge.
TimePasses(t) ==
    /\ t \in Existing
    /\ poll.step \notin {"fetch", "reconcile"}
    /\ Grow(t, pc[t] \in Active \/ poll.step # "idle") /\ Quieter(t)
    /\ UNCHANGED <<created, outsideVars, alertVars, delivery, pollVars>> /\ Others

CoolDown(t) ==
    /\ t \in Existing
    /\ CooldownEnds(t)
    /\ UNCHANGED <<created, outsideVars, webhookVars, pollVars>> /\ Others

RestartAll == Restart /\ Undelivered /\ poll' = Resting /\ UNCHANGED health

\* Everything but the death of the process.
PollerWorks ==
    \/ (Deliveries \/ PipelineWorks) /\ UNCHANGED <<workflowVars, pollVars>>
    \/ \E d \in Delivery : DeliveryStep(d) /\ UNCHANGED pollVars
    \/ \E w \in Argo, s \in {"healthy", "degraded", "gone"} : Becomes(w, s)
    \/ PollStep
    \/ \E t \in Ticket : TimePasses(t) \/ CoolDown(t)

PollerNext == PollerWorks \/ RestartAll

PollerSpec == PollerInit /\ [][PollerNext]_pollerVars

(***************************************************************************)
(* The Go scheduler runs every goroutine, the ticker fires, time passes,   *)
(* and the database serves a statement in bounded time (WriteTimeout).     *)
(***************************************************************************)
PollerFairness ==
    /\ WF_pollerVars(PollStep)
    /\ \A h \in Handler : WF_pollerVars(HandlerStep(h) /\ UNCHANGED <<workflowVars, pollVars>>)
    /\ \A t \in Ticket : /\ WF_pollerVars(RunStep(t) /\ UNCHANGED <<webhookVars, pollVars>>)
                         /\ WF_pollerVars(AcquireSem(t) /\ UNCHANGED <<webhookVars, pollVars>>)
                         /\ SF_pollerVars(TimePasses(t))

FairPollerSpec == PollerSpec /\ PollerFairness

-----------------------------------------------------------------------------
(* The inductive invariant behind the properties *)

DeliverySound(d) ==
    /\ delivery[d].step \in {"touch", "handoff"} => delivery[d].ticket \in Existing
    /\ delivery[d].step = "handoff" => row[delivery[d].ticket].source = "github_webhook"

\* A ticket is open until its run marks it, and young while the run goes on.
Phase(t) ==
    /\ pc[t] \in {"none", "skipped", "start"} \cup Waiting => row[t].status \in {"none", "open", "resolved"}
    /\ pc[t] \in Active \ {"start"} => row[t].status # "open" /\ row[t].age <= Settled

PollSound ==
    /\ poll.step \in {"touch", "handoff"} => poll.ticket \in Existing
    /\ poll.step = "handoff" => row[poll.ticket].source = "polling"
    /\ poll.step = "stale" => \A d \in poll.doomed : d[2] = "open" \/ pc[d[1]] \in Ended

PollerInv ==
    /\ AlertInv /\ PollerTypeOK
    /\ \A t \in Ticket : Phase(t)
    /\ \A d \in Delivery : DeliverySound(d)
    /\ PollSound

\* No row is older than the last failure that was recorded in it.
QuietInv ==
    \A t \in Ticket : row[t].source = "github_webhook" => row[t].age <= quiet[t]

\* The ticket that keeps a service the poll recorded as degraded: the heartbeat
\* protects it for the rest of the poll, unless its run died.
Heard(w, t) ==
    /\ t \in Existing /\ row[t].key = <<w, NoAlertName>>
    /\ \/ pc[t] \in {"lost", "aborted"}
       \/ ~IsClosed(t) /\ row[t].age <= Settled /\ \A d \in poll.doomed : d[1] # t

OfAnAlert(t) == row[t].source = "alertmanager" => \E f \in Fp : row[t].key = KeyOf[f]

SeenInv ==
    /\ \A t \in Existing : OfAnAlert(t)
    /\ poll.step = "idle" => poll.recorded = {}
    /\ poll.step \notin {"stale", "prune", "reconcile"} => poll.doomed = {}
    /\ poll.recorded \cup poll.services \cup poll.cur \subseteq poll.known
    /\ poll.step = "touch" => \A w \in poll.cur : /\ row[poll.ticket].key = <<w, NoAlertName>>
                                                  /\ ~IsClosed(poll.ticket)
    /\ \A w \in poll.recorded : \E t \in Ticket : Heard(w, t)

-----------------------------------------------------------------------------
(* Properties *)

ClosedByPoll(t) == Unclosed(t) /\ row'[t].status = "resolved" /\ poll' # poll

\* "we never want to close those out from under the pipeline" (resolveStale): no
\* pass by age resolves a ticket whose run has marked it analyzing and is not
\* over, whatever the row was when the pass listed it.
RunsUndisturbed ==
    [][\A t \in Ticket :
         ClosedByPoll(t) /\ poll.step = "stale" => pc[t] \notin Active \ {"start"}]_pollerVars

\* A poll that touched or opened a ticket for a degraded service does not close
\* the service's last one in its later phases, whatever statements and calls
\* fail: the heartbeat of pollDegraded protects it.  Only a ticket whose run died
\* while it was analyzing has no protection from the age cap.
SeenDegradedStaysOpen ==
    poll.step \in {"stale", "prune", "fetch", "reconcile"} =>
      \A w \in poll.recorded : \E t \in Ticket :
        /\ row[t].key = <<w, NoAlertName>>
        /\ Unclosed(t) \/ pc[t] \in {"lost", "aborted"}

\* "otherwise a workflow that keeps failing on every push would silently
\* auto-resolve after StaleAfter" (processWorkflowRun): the age pass decides to close
\* a workflow's ticket only if, when it listed the tickets, no failure had been
\* recorded in this one for the stale TTL, or the ticket's run died while it was
\* analyzing.
FailingWorkflowStaysOpen ==
    /\ []PollerTypeOK
    /\ [][poll.step = "scan" /\ poll'.step = "stale" =>
            \A t \in {d[1] : d \in poll'.doomed} :
              row[t].source = "github_webhook" =>
                t \in CanBeTooOld \/ quiet[t] >= Stale]_pollerVars

\* Once nothing fires, no service is degraded and no workflow fails any more, and the agent is not
\* restarted again, every ticket that an alert or the poller opened is closed for
\* good, also when the notification of its end was lost, its run was skipped or a
\* restart cut it short; fix_applied alone waits for a notification.
QuietAgentClosesTickets ==
    (/\ <>[](\A f \in Fp : ~firing[f])
     /\ <>[](\A w \in Argo : health[w] # "degraded")
     /\ <>[](\A d \in Delivery : delivery[d] = Unbusy)
     /\ <>[][~RestartAll]_pollerVars)
      => <>[](\A t \in Existing : IsClosed(t) \/ row[t].status = "fix_applied" \/ row[t].source = "manual")
=============================================================================
