---------------------------- MODULE AlertHandler ----------------------------
(***************************************************************************)
(* internal/monitor/alerthandler.go composed with the pipeline: the        *)
(* deliveries of AlertManager's webhook, each on its own goroutine, and    *)
(* what they do to the tickets while the pipeline processes them.          *)
(*                                                                         *)
(* AlertManager is not in the repository.  It is modelled as the handler's *)
(* comments use it: it groups alerts, has one notification per group under *)
(* way, sends again whatever was not answered 200, and may hang up.        *)
(***************************************************************************)
EXTENDS Pipeline

CONSTANTS
    Handler,   \* goroutines serving the webhook at a time
    Group,     \* AlertManager's partition of the fingerprints
    KeyOf,     \* Fp -> the key processAlert derives from the labels
    Critical,  \* alert names whose effective severity is critical
    Ignored,   \* workloads ALERT_IGNORE_SERVICE_REGEX matches
    MaxFires   \* bound on how often an alert starts firing

ASSUME AlertAssumption ==
    /\ Group \subseteq SUBSET Fp
    /\ UNION Group = Fp
    /\ \A G, H \in Group : G # {} /\ (G = H \/ G \cap H = {})
    /\ KeyOf \in [Fp -> Key]
    /\ Critical \subseteq AlertName
    /\ Ignored \subseteq Workload
    /\ MaxFires \in Nat
    /\ "alertmanager" \in Source
    /\ "manual" \in Source => NoAlertName \in AlertName
    /\ IsFiniteSet(Handler)

VARIABLES
    firing,   \* Fp -> the alert is firing
    fires,    \* occurrences so far
    since,    \* Fp -> startsAt of the latest occurrence
    ended,    \* Fp -> endsAt of the latest ended occurrence
    told,     \* Fp -> what AlertManager knows to be delivered
    sending,  \* Group -> the batch in flight
    job       \* Handler -> what the goroutine is doing

amVars == <<firing, fires, since, ended, told, sending>>
alertVars == <<amVars, job>>
agentVars == <<pipelineVars, alertVars>>

\* Instants are numbers of tickets created so far, as in the store.
Alert == [fp: Fp, resolved: BOOLEAN, ends: 0..MaxTicket]

Idle == [step |-> "idle", todo |-> {}, cur |-> {}, ticket |-> NoTicket, failed |-> FALSE, from |-> {}]

\* from: the group of the delivery, {} once its caller has hung up.
Job == [step: {"idle", "next", "touch", "flap", "create", "handoff"},
        todo: SUBSET Alert, cur: SUBSET Fp, ticket: Ticket \cup {NoTicket},
        failed: BOOLEAN, from: Group \cup {{}}]

AlertTypeOK ==
    /\ PipelineTypeOK
    /\ firing \in [Fp -> BOOLEAN]
    /\ fires \in 0..MaxFires
    /\ since \in [Fp -> 0..MaxTicket]
    /\ ended \in [Fp -> 0..MaxTicket]
    /\ told \in [Fp -> {"firing", "resolved"}]
    /\ sending \in [Group -> SUBSET Alert]
    /\ job \in [Handler -> Job]

AlertInit ==
    /\ PipelineInit
    /\ firing = [f \in Fp |-> FALSE]
    /\ fires = 0
    /\ since = [f \in Fp |-> 0]
    /\ ended = [f \in Fp |-> 0]
    /\ told = [f \in Fp |-> "resolved"]
    /\ sending = [G \in Group |-> {}]
    /\ job = [h \in Handler |-> Idle]

-----------------------------------------------------------------------------
(* AlertManager *)

Fire(f) ==
    /\ ~firing[f] /\ fires < MaxFires
    /\ firing' = [firing EXCEPT ![f] = TRUE]
    /\ since' = [since EXCEPT ![f] = created]
    /\ fires' = fires + 1
    /\ UNCHANGED <<pipelineVars, ended, told, sending, job>>

Stop(f) ==
    /\ firing[f]
    /\ firing' = [firing EXCEPT ![f] = FALSE]
    /\ ended' = [ended EXCEPT ![f] = created]
    /\ UNCHANGED <<pipelineVars, fires, since, told, sending, job>>

Current(f) == [fp |-> f, resolved |-> ~firing[f], ends |-> IF firing[f] THEN 0 ELSE ended[f]]

\* A resolved alert is in a notification as long as its firing one was delivered.
Batch(G) == {Current(f) : f \in {g \in G : firing[g] \/ told[g] = "firing"}}

\* A group flush: news, a retry, or the periodic repetition.
Deliver(G, h) ==
    /\ sending[G] = {} /\ Batch(G) # {}
    /\ job[h] = Idle
    /\ sending' = [sending EXCEPT ![G] = Batch(G)]
    /\ job' = [job EXCEPT ![h] = [Idle EXCEPT !.step = "next", !.todo = Batch(G), !.from = G]]
    /\ UNCHANGED <<pipelineVars, firing, fires, since, ended, told>>

\* The caller gives up; the goroutine goes on under its DetachedBatch context.
HangUp(h) ==
    /\ "hangup" \in Faults
    /\ job[h].from # {}
    /\ sending' = [sending EXCEPT ![job[h].from] = {}]
    /\ job' = [job EXCEPT ![h].from = {}]
    /\ UNCHANGED <<pipelineVars, firing, fires, since, ended, told>>

-----------------------------------------------------------------------------
(* ServeHTTP and processAlert *)

KeyOfCur(h) == KeyOf[CHOOSE f \in Fp : job[h].cur = {f}]

\* The goroutine leaves the current alert; only store failures are reported.
Leave(h, ok) ==
    job' = [job EXCEPT ![h].step = "next", ![h].cur = {}, ![h].ticket = NoTicket,
                       ![h].failed = @ \/ ~ok]

LeaveAlert(h, a, ok) ==
    job' = [job EXCEPT ![h].todo = @ \ {a}, ![h].failed = @ \/ ~ok]

Take(h, a, step, t) ==
    job' = [job EXCEPT ![h].step = step, ![h].todo = @ \ {a}, ![h].cur = {a.fp}, ![h].ticket = t]

NoStore == "store" \in Faults /\ UNCHANGED pipelineVars

\* The UPDATE ... RETURNING may commit and its ids still be lost to a scan error.
ResolveTickets(h, a) ==
    /\ job[h].step = "next" /\ a \in job[h].todo /\ a.resolved
    /\ LET S == ResolveByTenantService(KeyOf[a.fp][1], a.fp, a.ends) IN
         \/ Resolved(S, S) /\ LeaveAlert(h, a, TRUE)
         \/ "store" \in Faults /\ Resolved(S, {}) /\ LeaveAlert(h, a, FALSE)
         \/ NoStore /\ LeaveAlert(h, a, FALSE)
    /\ UNCHANGED amVars

IsFiring(h, a) == job[h].step = "next" /\ a \in job[h].todo /\ ~a.resolved

Ignore(h, a) ==
    /\ IsFiring(h, a)
    /\ KeyOf[a.fp][1] \in Ignored
    /\ LeaveAlert(h, a, TRUE)
    /\ UNCHANGED <<pipelineVars, amVars>>

\* Critical alerts bypass the flap cooldown.
HeldBack(k) == FlapCooldown /\ k[2] \notin Critical

LookUp(h, a) ==
    /\ IsFiring(h, a)
    /\ KeyOf[a.fp][1] \notin Ignored
    /\ LET dup == FindDuplicate(KeyOf[a.fp]) IN
         \/ /\ dup # NoTicket
            /\ Take(h, a, "touch", dup)
            /\ UNCHANGED pipelineVars
         \/ /\ dup = NoTicket
            /\ Take(h, a, IF HeldBack(KeyOf[a.fp]) THEN "flap" ELSE "create", NoTicket)
            /\ UNCHANGED pipelineVars
         \/ NoStore /\ LeaveAlert(h, a, FALSE)
    /\ UNCHANGED amVars

TouchDuplicate(h) ==
    /\ job[h].step = "touch"
    /\ \/ /\ TouchWithFingerprint(job[h].ticket, job[h].cur)
          /\ UNCHANGED <<created, outsideVars>> /\ Others
          /\ Leave(h, TRUE)
       \/ NoStore /\ Leave(h, FALSE)
    /\ UNCHANGED amVars

CheckCooldown(h) ==
    /\ job[h].step = "flap"
    /\ \/ /\ FindRecentlyResolved(KeyOfCur(h)) # {}
          /\ UNCHANGED pipelineVars
          /\ Leave(h, TRUE)
       \/ /\ FindRecentlyResolved(KeyOfCur(h)) = {}
          /\ UNCHANGED pipelineVars
          /\ job' = [job EXCEPT ![h].step = "create"]
       \/ NoStore /\ Leave(h, FALSE)
    /\ UNCHANGED amVars

CreateTicket(h) ==
    /\ job[h].step = "create"
    /\ \/ /\ NewTicket("alertmanager", KeyOfCur(h), job[h].cur)
          /\ job' = [job EXCEPT ![h].step = "handoff", ![h].ticket = created + 1]
       \/ NoStore /\ Leave(h, FALSE)
    /\ UNCHANGED amVars

\* onTicket
HandOff(h) ==
    /\ job[h].step = "handoff"
    /\ ProcessTicket(job[h].ticket)
    /\ Leave(h, TRUE)
    /\ UNCHANGED amVars

\* The batch budget is spent: the rest is left to the redelivery.
SpendBudget(h) ==
    /\ "store" \in Faults
    /\ job[h].step = "next" /\ job[h].todo # {}
    /\ job' = [job EXCEPT ![h].todo = {}, ![h].failed = TRUE]
    /\ UNCHANGED <<pipelineVars, amVars>>

\* 200 settles the batch with AlertManager, 500 leaves it to be sent again.
Answer(h) ==
    /\ job[h].step = "next" /\ job[h].todo = {}
    /\ job' = [job EXCEPT ![h] = Idle]
    /\ LET G == job[h].from
           sent(f) == CHOOSE a \in sending[G] : a.fp = f
       IN IF G = {} THEN UNCHANGED <<told, sending>>
          ELSE /\ sending' = [sending EXCEPT ![G] = {}]
               /\ told' = IF job[h].failed THEN told
                          ELSE [f \in Fp |-> IF f \in {a.fp : a \in sending[G]}
                                             THEN IF sent(f).resolved THEN "resolved" ELSE "firing"
                                             ELSE told[f]]
    /\ UNCHANGED <<pipelineVars, firing, fires, since, ended>>

HandlerStep(h) ==
    \/ \E a \in job[h].todo : ResolveTickets(h, a) \/ Ignore(h, a) \/ LookUp(h, a)
    \/ TouchDuplicate(h) \/ CheckCooldown(h) \/ CreateTicket(h) \/ HandOff(h)
    \/ SpendBudget(h) \/ Answer(h)

-----------------------------------------------------------------------------
(* The agent with its alert webhook *)

\* Somebody asks for an analysis over MCP: TriggerAnalysis creates and processes.
Ask ==
    \/ \E w \in Workload : "manual" \in Source /\ TriggerAnalysis(w)
    \/ \E t \in Ticket : row[t].source = "manual" /\ ProcessTicket(t)

PipelineWorks ==
    /\ \/ \E t \in Ticket : AcquireSem(t) \/ RunStep(t) \/ DeliverResolve(t) \/ Review(t)
       \/ Ask \/ Pause \/ Resume
    /\ UNCHANGED alertVars

\* AlertManager, the goroutines of its deliveries, and the pipeline.
Deliveries ==
    \/ \E f \in Fp : Fire(f) \/ Stop(f)
    \/ \E G \in Group, h \in Handler : Deliver(G, h)
    \/ \E h \in Handler : HangUp(h) \/ HandlerStep(h)

\* The deliveries under way die with the process; AlertManager sends them again.
Restart ==
    /\ Crash
    /\ job' = [h \in Handler |-> Idle]
    /\ sending' = [G \in Group |-> {}]
    /\ UNCHANGED <<firing, fires, since, ended, told>>

AlertNext ==
    \/ Deliveries \/ PipelineWorks \/ Restart
    \/ Clock /\ UNCHANGED alertVars

AlertSpec == AlertInit /\ [][AlertNext]_agentVars

-----------------------------------------------------------------------------
(* The inductive invariant behind the properties *)

\* A row has a status from its Create on, and nothing here suppresses a ticket.
Begun(t) == row[t].status \in OpenStatus \cup {"resolved"}

\* The latest instant at which the alert is known to have been firing.
LastFired(f) == IF firing[f] THEN since[f] ELSE ended[f]

JobSound(h) ==
    /\ job[h].step \in {"touch", "flap", "create", "handoff"} => \E f \in Fp : job[h].cur = {f}
    /\ job[h].step \in {"touch", "handoff"} => job[h].ticket \in Existing
    /\ job[h].step = "flap" => KeyOfCur(h)[2] \notin Critical
    /\ job[h].step = "handoff" => /\ row[job[h].ticket].source = "alertmanager"
                                 /\ pc[job[h].ticket] = "created"
                                 /\ job[h].cur \subseteq row[job[h].ticket].fps
    /\ \A a \in job[h].todo : a.resolved => a.ends <= LastFired(a.fp)

AlertInv ==
    /\ AlertTypeOK /\ PipelineInv
    /\ \A t \in Existing : Begun(t)
    /\ \A f \in Fp : since[f] <= created /\ ended[f] <= created
    /\ \A h \in Handler : JobSound(h)
    /\ \A g, h \in Handler :
         g # h /\ job[g].step = "handoff" /\ job[h].step = "handoff" => job[g].ticket # job[h].ticket

\* An alert that neither the ignore list nor the cooldown may cost its ticket.
Owed(f) == KeyOf[f][1] \notin Ignored /\ KeyOf[f][2] \in Critical

\* While nothing fails and every key owed a ticket is one alert's, the tickets of
\* the key carry that alert, also after the run's full-row write.
OwnTicket(f) ==
    \A t \in Existing : row[t].key = KeyOf[f] =>
        /\ row[t].fps = {f}
        /\ pc[t] \in Waiting \cup {"start"} => mem[t].fps = {f}

Carried(f) == \E t \in Existing : ~IsClosed(t) /\ row[t].key = KeyOf[f]

\* A delivery works off a batch that is in flight for it alone; the alerts owed a
\* ticket that it is done with are carried.
BatchSound(h) ==
    LET G == job[h].from IN
        /\ ~job[h].failed
        /\ job[h].step = "idle" <=> G = {}
        /\ job[h].step \in {"idle", "next"} => job[h].cur = {}
        /\ job[h].cur \subseteq G
        /\ job[h].step = "touch" => row[job[h].ticket].key = KeyOfCur(h)
        /\ job[h].step \in {"touch", "handoff"} => \A f \in job[h].cur : Owed(f) => Carried(f)
        /\ G # {} =>
             /\ sending[G] # {} /\ job[h].todo \subseteq sending[G]
             /\ \A f \in G : told[f] = "firing" => \E a \in sending[G] : a.fp = f
             /\ \A a \in sending[G] :
                  ~a.resolved /\ Owed(a.fp) => a \in job[h].todo \/ a.fp \in job[h].cur \/ Carried(a.fp)

CarriedInv ==
    /\ \A f \in Fp : Owed(f) => OwnTicket(f)
    /\ \A h \in Handler : BatchSound(h)
    /\ \A g, h \in Handler : g # h /\ job[g].from = job[h].from => job[g].from = {}
    /\ \A G \in Group : \A a, b \in sending[G] : a.fp \in G /\ (a.fp = b.fp => a = b)
    /\ \A G \in Group : sending[G] = {} =>
         \A f \in G : told[f] = "firing" /\ Owed(f) => Carried(f)

-----------------------------------------------------------------------------
(* Properties *)

Unclosed(t) == t \in Existing /\ ~IsClosed(t)

\* No webhook step, however late or often repeated, closes a ticket created
\* after the last occurrence of its alert ended, or during the one that is firing
\* now: fingerprint and endsAt of ResolveByTenantService name an occurrence.
NextOccurrenceSpared ==
    [][\A t \in Ticket :
         Unclosed(t) /\ row'[t].status = "resolved" =>
           \E f \in Fp : /\ KeyOf[f][1] = row[t].key[1]
                         /\ row[t].fps = {} \/ f \in row[t].fps
                         /\ t <= (IF firing[f] THEN since[f] ELSE ended[f])]_agentVars

\* When AlertManager was answered 200 for a critical firing alert, and nothing
\* newer is under way, an unclosed ticket carries it: dedup, the cooldown and the
\* resolves of other alerts lose no occurrence.
AcknowledgedFiringHasATicket ==
    \A G \in Group : sending[G] = {} =>
      \A f \in G : firing[f] /\ told[f] = "firing" /\ KeyOf[f][1] \notin Ignored /\ KeyOf[f][2] \in Critical
                     => \E t \in Ticket : Unclosed(t) /\ f \in row[t].fps

\* What one delivery owes a firing alert it reports no failure for: at the moment
\* it goes on, the alert is in the fingerprints of the ticket it looked up or
\* created, or a ticket of its key lies in the cooldown, which no critical alert
\* is held back by.
HandledAlertIsTracked ==
    [][\A h \in Handler :
         job[h].cur # {} /\ job'[h].cur = {} /\ job'[h].step = "next" /\ job'[h].failed = job[h].failed =>
           \/ job[h].failed
           \/ job[h].ticket # NoTicket /\ job[h].cur \subseteq row'[job[h].ticket].fps
           \/ FindRecentlyResolved(KeyOfCur(h)) # {} /\ KeyOfCur(h)[2] \notin Critical]_agentVars

\* The unclosed tickets of the key that no resolution has closed before, and the
\* goroutines that found none and are about to create one.
Twins(k) == {t \in Existing : /\ row[t].key = k /\ row[t].source = "alertmanager"
                              /\ ~IsClosed(t) /\ "resolved" \notin row[t].took}
Creating(k) == {h \in Handler : job[h].step \in {"flap", "create"} /\ KeyOfCur(h) = k}

\* Nothing makes the look-up and the insert one step, so overlapping deliveries create
\* twins of one key, but no more than there are deliveries at a time: whoever looks
\* while a twin is unclosed finds it.  A run that reopens a resolved ticket adds to them.
TwinsBounded ==
    \A k \in Key : Cardinality(Twins(k)) + Cardinality(Creating(k)) <= Cardinality(Handler)
=============================================================================
