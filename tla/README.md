# TLA+ models of mctl-agent

mctl-agent listens for trouble in a Kubernetes platform (AlertManager webhooks,
ArgoCD health it polls, failed GitHub Actions runs, requests over MCP), keeps one
*ticket* per trouble in Postgres, diagnoses it with skills, opens pull requests on
the GitOps repository when a skill is confident, and tells operators over Telegram.
This directory holds TLA+ modules of its core, TLC configurations that check them on
small instances, and proofs that TLAPS checks. Paths below are relative to
`internal/` unless they start with `cmd/`.

Run things from this directory:

    tlc -workers 2 -config pipeline.cfg MCPipeline
    tlapm Pipeline_proofs.tla

`PROJECT.json` lists components, runs, the code lines behind each definition (`map`),
hazards, and for each checked property one *mutant*: a plausible bug (an operator of
the module such as `ReturnTwice`, next to the definition it would replace) under which
the property is violated.

## 1. Inventory

### The ticket path

| Component | State it keeps | Operations | Talks to |
|---|---|---|---|
| **Ticket store** `ticket/store.go` | table `tickets`: status, key (tenant, service, type, alert name), fingerprints, PR linkage, `updated_at`, `resolved_at` | Create, Get, whole-row Update, guarded updates (`SetDiagnosisFromStatus`, `RecordPRLinkage`, `ResolveByIDFromStatus`), ResolveByTenantService, Touch…, FindDuplicate, FindRecentlyResolved, ListOpen, CountRecentPRs | everybody; one SQL statement is atomic, two are not |
| **Pipeline** `pipeline/pipeline.go` | semaphore, pause flag, one goroutine per ticket with its own `*Ticket` copy | ProcessTicket, processTicketSync, escalate, handleHighConfidenceFix, TriggerAnalysis, Pause/Resume | store, skills, GitHub fixer, mctl-api, Telegram |
| **GitHub fixer** `fixer/github.go`, `previous_tag.go` | nothing of its own; branches, blobs and pull requests on GitHub | CreatePR (limits, ref, SHA, commit, PR), MergePR, ClosePR, LookupPreviousImageTag | GitHub, store (limits) |
| **Patcher** `fixer/patcher.go` | none (functions on text) | GenerateImageRollback, MemoryBump, CPUBump, ProbeFix, … | called by the pipeline |
| **Alert webhook** `monitor/alerthandler.go` | none across requests; a batch budget within one | ServeHTTP, processAlert: resolve, ignore, deduplicate, cooldown, create, hand off | store, pipeline, mctl-api |
| **Poller** `monitor/poller.go` | `refreshState` of a poll | pollDegraded, resolveStale, pruneOrphans, reconcile with AlertManager | store, mctl-api, AlertManager, pipeline |
| **GitHub Actions webhook** `monitor/github_webhook.go` | none | look up, touch or create, hand off; 200 whatever fails | store, pipeline |
| **Telegram notifier** `notify/telegram.go` | header held per ticket | HoldNewTicket, sends that take or put back the header, Drop, Flush | pipeline |
| **Names and paths** `svcname/`, `gitopspath/` | none | Resolve, Candidates, TrimPodSuffix, ValidatePath | webhook, poller, pipeline |
| **Telegram commands** `api/router.go` | none; a row read before a GitHub call and written after it | /approve, /reject, /ignore, /pause, /resume | store, GitHub, pipeline |
| **mctl-api client** `mctlclient/client.go` | incidents in mctl-api, a mirror of the tickets | PublishAlert, UpdateAlert, ResolveAlert | fire and forget |

### Beside it

| Component | State it keeps | Operations |
|---|---|---|
| **Scout spike** `scoutspike/scoutspike.go` and its button in `api/router.go` | table of entries (refs, lock, memo with expiry), GitHub issues, the keyboard of the message | Create: entryFor, lock, search by pages, create issue, release; edit of the keyboard |
| **Process** `cmd/agent/main.go` | the phase of main, the budget for opening the store | initTicketStore with retries, signals, shutdown sequence |
| **BotStart forwarder** `botstart/forwarder.go` | semaphore, WaitGroup, `closed`, base context | Forward, send with three attempts, Shutdown |
| **Skill registry** `skill/registry.go`, `skill/remote/remote.go` | two tables under two locks, disabled marks | Register, Unregister, Enable, Disable, List, Match |
| Builtin and YAML skills, skill metrics, remote validation | per-call only, or counters | Match, Diagnose |
| Token source `fixer/token.go` | one cached token | read, keep the last good one |
| HTTP API, MCP server, configuration, runbooks, telemetry | none that decides anything | |

### How they interact, and what is hard

* *Everything shares the rows.* Webhook deliveries, the poll loop, commands and one
  goroutine per ticket work on one table without transactions. A run holds its own
  copy of the row from start to end; some of its writes are whole rows, some are
  guarded by the status it believes in.
* *Two records of one fact.* Each transition goes first to the store, then to mctl-api
  in a call that may be lost, and resolves go there on goroutines of their own.
* *GitHub is several calls.* A pull request is a branch, a blob, a commit and the pull
  request; each may fail, and may have taken effect although it reports an error.
* *AlertManager repeats and gives up.* A batch answered 500 or not at all comes again
  while the first one is still handled (`ctxutil.DetachedBatch`).
* *Time.* Heartbeats, stale TTL, reconciliation age, flap cooldown, retry deadlines and
  the shutdown budget are set against each other.
* *Nothing is persisted but the rows.* A restart loses runs, deliveries, memos and the
  entry table; nothing reads open tickets at start.
* *Locks over network calls.* Skills are matched, and issues created, under a lock.
* *Copies of what others show.* A press carries the keyboard as it was, a ticket the name that
  an alert's labels gave its service; both are acted on later.

### What makes each component correct

* Store and pipeline: a run decides its ticket; a resolution is not undone by a later
  write of a run; every reported pull request is in a row; only recorded and permitted
  fixes are merged; mctl-api never knows a status the store did not take; the
  semaphore is balanced and bounds by how much the PR limit can be exceeded.
* Webhook: an acknowledged critical alert has a ticket; a resolve closes tickets of its
  own occurrence only, however late or often it comes.
* Poller and GitHub Actions webhook: a ticket of a service just seen degraded, or of a workflow
  that keeps failing, survives the poll; a run under way is
  not closed by age; when an alert has ended its ticket is closed in the end.
* Commands: a ticket that says "fix applied" has a merged pull request; a suppression
  is not taken back by the run.
* Notifier: every incident to be announced is announced, and once.
* Scout: presses on a source are serialised, one issue comes of a source, and a row links to
  an issue of its own source.
* Forwarder: no admitted observation goes uncounted, shutdown keeps to its budget, the
  deadline cuts no attempt. Start-up uses its budget, and not much more.
* GitOps and patcher: a fix is for the file of the app the alert is about; a merge changes
  what the fix is about; a rollback goes back; a
  patch changes exactly the field it names, in any layout of the file.
* Registry: the two tables agree after calls that do not overlap; every call ends.

## 2. Modules

| Module | Models | Builds on |
|---|---|---|
| `TicketStore` | rows and SQL statements | |
| `Pipeline` | a ticket from Create to the return of its goroutine, in an assumed environment | TicketStore |
| `TicketLife` | abstract: what is promised about a ticket, its pull request and its mirror | |
| `PipelineLife` | the refinement mapping from Pipeline to TicketLife | Pipeline, TicketLife |
| `AlertHandler` | AlertManager, deliveries and handlers beside the pipeline | Pipeline |
| `GitHubWebhook` | the steps of deliveries of failed workflow runs | AlertHandler |
| `Poller` | the poll loop beside both webhooks and the pipeline: the agent with all its monitors | GitHubWebhook |
| `Operator` | Telegram commands beside the pipeline | Pipeline |
| `Notifier` | the held header of each ticket beside run and commands | Operator |
| `GitOps` | one values file: read, patch, branch, commit, merge | |
| `Probing` | from an alert's labels to the file that is patched, and GitOps from there | GitOps |
| `Patches` | the patch functions on lines, against the YAML mapping they stand for | |
| `ScoutSpike` | Create and its entry table, GitHub's search | |
| `ScoutCallback` | the button handler around Create, and the message's keyboard | ScoutSpike |
| `Forwarding` | abstract: what is promised about an observation | |
| `BotStart` | forwarder and the shutdown of main, in seconds; its mapping to Forwarding | Forwarding |
| `Startup` | opening the store, the signals of each phase, and BotStart from there | BotStart |
| `SkillRegistry` | Registry, Manager and their locks | |
| `Pipeline_proofs` | theorems about Pipeline, and that it implements TicketLife | PipelineLife |
| `Monitors_proofs` | theorems about AlertHandler, GitHubWebhook and Poller | Poller, Pipeline_proofs |
| `Notifier_proofs` | theorems about Operator and Notifier | Notifier |
| `ScoutSpike_proofs` | theorems about ScoutSpike and ScoutCallback | ScoutCallback |
| `Startup_proofs` | theorems about BotStart and Startup | Startup |
| `GitOps_proofs` | theorems about GitOps and Probing | Probing |
| `SkillRegistry_proofs` | theorems about SkillRegistry | SkillRegistry |
| `Patches_proofs` | theorems about Patches | Patches |
| `MC…` | constants for TLC | |

### State and actions against the code

*`TicketStore`.* `row[t]` is the row of the t-th ticket: creation order stands for
`created_at`. `age` counts how many of the poller's thresholds `updated_at` has
passed, `cooling` says whether `resolved_at` lies within the flap cooldown. `took` is a
history variable: the statuses the row has held. Each operator that primes `row` is one
SQL statement with its WHERE clause.

*`Pipeline`.* `pc[t]` is the next call the goroutine of ticket t makes, one value per
call to the database, GitHub or mctl-api, since others run between them. `mem[t]` is the
`*Ticket` it holds, `goal[t]` the status it is about to persist. `github[t]` and
`mirror[t]` are what GitHub and mctl-api know; `resolving[t]` counts `ResolveAlert`
goroutines in flight. Early returns are disjuncts that end in `Return`. `Environment`
is what all other actors may do to a ticket; `AlertHandler`, `Poller` and `Operator`
replace it, whole or in part, by the real actors.

*`TicketLife`.* Per ticket its status and the statuses it has held, how far its one analysis
is, the status that analysis compares with, its pull request and what mctl-api was told. It has
no semaphore, copies, calls or faults. It promises: one analysis and one pull request at most;
after the first write every decision is a compare-and-set against the status read; an analysis
ends with its ticket decided or is given up; a merge by the agent needs a fix that was proposed;
mctl-api is told statuses the ticket has held. `PipelineLife` maps `pc` to the stage, `mem` to
the status compared with, and hides a branch without a pull request.

*`AlertHandler`.* `job[h]` is a goroutine in ServeHTTP with the alerts still to do and
whether a store failure was seen; `sending`, `told`, `firing`, `since`, `ended` are
AlertManager's. Labels are not modelled here (`Probing` has them): `KeyOf` maps a fingerprint to the key that
processAlert derives.

*`Poller`.* `poll` holds the step of the loop and what it has read (`doomed` is the list
a pass decided from). `poll.recorded` is history.

*`GitHubWebhook`.* `delivery[d]` is a goroutine in processWorkflowRun, one step per statement.
A workflow is a workload of its own type. `quiet[t]` is history: how many of the poller's
thresholds have passed since a failure was last recorded in ticket t.

*`Operator`.* `cmd[q]` is a command with the row it read.

*`Notifier`.* `notice[t].held` says that the header is in `Telegram.pending`; `heard` and
`excuse` are history. A send belongs to the step of the run it follows, since it reads nothing
that other goroutines write.

*`GitOps`.* `main` is the history of the contents of one file, two values per content;
`run[r]` carries what `handleHighConfidenceFix` has read so far; merging is a three-way
merge of the two fields.

*`Probing`.* A name is the sequence of its segments. `Services` are the services processAlert can
give a ticket about an app, over pod and workload alerts with and without identity labels;
`candidatePaths` and `FileFor` are the walk over the candidates with what GitHub may answer for
each. A run that ends at the file `Ours` goes on in GitOps; `astray` is history and records the
fixes that were for another file than that of their app.

*`Patches`.* A line is indentation, key and value. `AddLine` writes any file of the
given form, a patch may be applied at any time. `Mapping` is the independent reference:
the YAML mapping of a file, computed from the indentation, where the code uses prefixes
and scans.

*`ScoutSpike`.* `entries`, `refs`, `holder`, `memo`, `live` are the fields of Service and
entry; `job[p]` is a call of Create. The `known` field and `excused` are history.

*`ScoutCallback`.* `press[p]` is a call of the handler with the keyboard its update carried;
a press may be delivered again with the keyboard of a press still being handled.

*`BotStart`.* `send[u]` is one observation, `phase` the place of main, `clock` seconds
since SIGTERM. `Tick` lets a second pass when nothing is due.

*`Startup`.* `boot` is the place of initTicketStore and of main up to `signal.Notify`, `elapsed` its
time in quarters of a second. `BootTick` lets one pass when no dial or pause is due; a migration
has no timeout and is watched for `MaxElapsed`.

*`SkillRegistry`.* `remote` and `registered` are the two tables; `readers` and `writer`
are the state of `sync.RWMutex` with its rule that a waiting writer holds back readers.

## 3. What the runs check

Every run uses deadlock checking unless stated. All finish in about two and a half
minutes or less on two cores.

**`pipeline`** — three tickets, two slots, a limit of one pull request, failing GitHub calls, crashes,
and the whole assumed environment (resolves, touches, reviews, pause). `PipelineInv` (also the
inductive invariant of the proofs), `FinishedRunIsDecided`, `MergeOnlyOnRecord`,
`PRNeverForgotten`, `PROvershootBounded`, `NoReopenAfterReload`, and the refinement
`TicketsLiveAsPromised`: every step is one that `TicketLife` allows. Two slots let two runs pass the
check of the limit before either records its pull request, so that the bound of two is reached;
the third ticket has to wait for a slot, and is the one that would exceed the bound. Other properties
relate one ticket to its own run. Failing statements occur
in the runs `poller`, `operator` and `webhook_overlap`, and the theorems about `Pipeline` hold for
every set of faults. Three cuts keep the run small:

* `VIEW MCView` takes states as equal in which tickets have changed places, or which differ in what
  nothing reads any more: `cooling`, which only the webhook reads, and `goal` and `safe` of a run
  that is over. Nothing is lost.
* `MCPauseMatters` gives up a paused state in which no ticket waits to be handed off or was skipped. The
  flag is read at the hand-off only: the same steps lead on without the pause, which may come just before it.
* `MCThirdIsPlain` gives up states with a third ticket in which a run was skipped, aborted or lost, a
  row was resolved, a pull request was merged or closed by a reviewer, or the pipeline is paused. With
  two tickets all of these occur; the third is there for the slots and the limit. What is left out with
  three is covered by the theorems.

**`pipeline_reopen`** — a counterexample. `processticket_test.go:409-410` asks that "a
resolution that landed first must stand". The first write of a run is the unguarded
Update of the row it was handed (`pipeline.go:428`): a ticket resolved while its run
waits for a slot goes back to `analyzing`.

**`webhook`** — one handler, a group of two alerts with keys of their own, one of them
critical, with the flap cooldown, without faults. `AcknowledgedFiringHasATicket`. Two firings
suffice for an alert to end and come again.

**`webhook_overlap`** — two handlers, two groups whose alerts share a key, hang-ups,
failing statements, restarts. `TwinsBounded`: overlapping look-ups create twins of a key, but no
more open rows of it than there are handlers, reopened ones aside; `HandledAlertIsTracked`.
`NextOccurrenceSpared`: each alert fires twice, and the resolved notification of the first firing
may be under way in one handler, or delivered again after a hang-up or a restart, when the second
has its ticket. The constraint `MCPaused` keeps the pipeline paused, since the run of a ticket is the subject
of the other runs; the pause also is the state in which tickets live longest.
`AcknowledgedFiringHasATicket` is not asked here: the code does not keep it
when a caller hangs up (see 5), and with restarts what AlertManager was told may be of an
earlier occurrence.

**`poller`** — the scan of one ArgoCD service in dry run and the deliveries of one
failing workflow, with the flap cooldown, beside manual analyses, with lost mctl-api calls, failing
statements and restarts. `SeenDegradedStaysOpen`; `FailingWorkflowStaysOpen`: the age pass
dooms a workflow's ticket only if no failure was recorded in it for the stale TTL. The run has one
ticket, and that a pass decides about each by its own age is what the theorems show for any number
of them: of two tickets of one workflow the failures are recorded in the newer, so the older
may well be closed while the workflow goes on failing, and the property is about each ticket. Two
ages make stale and too old differ.

**`poller_live`** — webhook, poller and pipeline together, two alerts in one group, one of
an ignored workload, restarts. `RunsUndisturbed`; `PipelineSpec` as a property: the
composition implements `Pipeline` in its assumed environment (the refinement mapping is
the identity on the variables of Pipeline), so what is proved of Pipeline holds of the
composition; and the liveness property `QuietAgentClosesTickets`.

**`operator`** — `Notifier`: two requests, one ticket, auto-merge, reviewers on GitHub, failing and
lost answers of GitHub and of Telegram, failing statements, crashes, the flap cooldown.
`AppliedMeansMerged`; `OrphanPRIsEscalated`: a run that ends with a pull request its row does not
record leaves the ticket to a human or closed; `SuppressionStands`. `EveryRunIsAnnounced` and
`AnnouncedOnce`: at the end of a run no header is held, a ticket nobody heard of is one that was
not to be announced or whose flush failed, and only a send that arrived and was reported as failed
is heard twice. A run has at most five sends, two of which carry the header after failures.

**`scout`** — `ScoutCallback`: two presses, two sources, three entry objects, two issues on pages of
one, all faults at once. `ScoutInv` (inductive), `OneIssuePerSource`, `KnownIssueFound`,
`LinksTellTheTruth`: rows and answers name issues of their own source, whatever overlaps. Presses,
sources and entries are symmetric. Two issues on two pages that can be read make short pages, last
pages and pages that move; three entries are one more than presses can hold. A search that runs out of pages
(`MaxPage`) needs a third issue and is left to the theorems.

**`botstart`** — `Startup`: three observations for two tokens; attempts answered at once or after 5 s;
dials that fail at once, hang, or connect to a migration that hangs; a signal at any moment.
`StoreInitKeepsItsBudget`: an error that could clear is returned only after the whole budget, and
no dial outlasts it by the five seconds the test allows; `NoneVanishes`, `EarlySendsComplete`,
`ShutdownInTime`, `AttemptsUncut`, and the action property `NoAddBesideWait`.
`CHECK_DEADLOCK FALSE`: the process exits. The times are the code's own; the two delays are the
extremes, and the deadline is about their sums. `MaxElapsed` is 15 s, past the last dial that can
begin.

**`gitops`** — `Probing`: two runs, four commits, two tags, a look back of two commits, failing
calls. The tenant `labs` has the apps `foo` and `labs-foo`, whose names the prefix rule could mix
up. `AppsOwnFileIsPatched`, `UnovertakenRollbackGoesBack`, `MergeIsItsFix`.

**`registry`** — three callers and one name, so that a reader, a waiting writer and a held
back reader occur together, and the Manager's calls overlap.
`SequentialCallsAgree`, about calls that do not overlap; liveness `EveryCallEnds`. Names only meet in the locks, which is
why one is enough.

**`patches`** — every file of up to five lines in three forms: images and sidecars; probes
of a chart and of a manifest; resources of a service and of a sidecar. `PatchesTypeOK`,
`RollbackIsTheChartTag`, `ProbeFixIsTheProbes`, `LimitsAreBumped`. Five lines hold a
block, a nested one, a sibling and a comment in any order. `CHECK_DEADLOCK FALSE`: a full
file in which nothing is left to patch stays as it is.

The type invariant of a module is an invariant of its own in `patches`, part of `PipelineInv` and
`ScoutInv`, and elsewhere the first conjunct of one property of the run.

### Fairness

* `PollerFairness`: weak fairness of the poll loop, of each handler and of each run,
  because the Go scheduler runs every goroutine and statements have a timeout
  (`WriteTimeout`); strong fairness of `TimePasses`, which is disabled whenever a poll
  is in its last phases, because time passes between polls. Nothing is assumed of
  AlertManager, of operators or of crashes: the premise of `QuietAgentClosesTickets` is
  that alerts end, workflows stop failing and that the process is not restarted for ever.
* `RegistryFairness`: weak fairness of the steps inside, since a remote skill is asked
  with a client timeout of ten seconds; strong fairness of taking a lock, since Go's
  mutexes hand themselves to a waiter that has waited a millisecond.

### Assumptions on the surroundings

* A run and a poll are short beside the stale TTL, and a reconciliation is short beside its
  minimum age (guards of `TimePasses` and `Clock`); the clock of the PR limit stays
  within one window.
* `ScoutSpike.Expire`: GitHub's index lags by less than `memoTTL`. `OnPage`: the search, which asks
  for no order, lists the newest issue first, and no issue leaves the index.
* `BotStart`: a goroutine that is due runs within a second; an attempt ends by its timeout.
* AlertManager keeps one notification per group under way, and sends a resolved alert as
  long as its firing one was delivered.
* `Startup`: a dial ends by `connect_timeout`, and what is due happens before time passes.
* `Notifier`: a send returns before the next call of its run.
* `Probing`: apps are released as `{tenant}-{app}` by the chart, the convention `svcname` states.
* `Patches`: files have scalars of four keys and no lists; quantities are numbers of which
  half can be taken.

## 4. What is proved

For every value of the constants that satisfies the named assumptions of the modules. Most only
type a constant. Those that say more: `StoreAssumption`, the sets a row takes its columns from
are not empty and at most two thresholds of age are told apart; `AlertAssumption`, the groups
partition the fingerprints and a manual analysis has the key without an alert name;
`PollerAssumption` and `WorkflowAssumption`, services and workflows are workloads whose tickets
have that key too; `ForwarderAssumption`, an attempt lasts no longer than its timeout;
`ProbingAssumption`, a name is a sequence of segments; `RegistryAssumption`, there is a name and
an endpoint. Four theorems have a further hypothesis, given with them below.

Each theorem `Spec => []P` rests on an inductive invariant that implies P and stands in the module
of P, under a heading of its own; two short ones, the count of twins and `AstrayInv`, stand with their
proofs. `PipelineInv` and `ScoutInv` are checked in the listed runs; TLC confirmed the others that
stand in the modules, on those runs with one more `INVARIANT`.

`Pipeline_proofs`:

* `Invariance` — `PipelineInv` is inductive. It is
  `PipelineTypeOK /\ SlotsBalance /\ \A t : Fresh(t) /\ History(t) /\ Progress(t) /\
  Linkage(t) /\ Merged(t)`. The properties alone are not inductive: that a mirror call only
  tells a status the row took needs to know that the goroutine's copy does (`History`);
  that a run ends decided needs how copy and row can differ at every step, namely that a
  row the run believes in its status holds it or is resolved (`Progress`); that a pull
  request ends in the row needs where it is in the copy before (`Linkage`).
* `TypeCorrect`, `RunsDecide`, `MirrorFollows`, `LinkageKept`, `MergeRecorded`,
  `SemaphoreSound` follow from it; `GuardsHold` is the action property
  `NoReopenAfterReload`, from the guards of the statements on the status of the copy.
  `PRNeverForgotten` excludes the fault `answer`, a pull request GitHub opened and did
  not report.
* `OvershootBounded` — `PROvershootBounded`. A run that has passed the check of the limit and has
  no pull request yet is in no count of the database, so `OvershootInv` counts it as well
  (`Counted`). Such a run holds a slot. When one more passes the check, the recorded ones are below
  `MaxPR`, and all others that are counted hold one of the other `MaxConcurrent - 1` slots.
* `Implements` — `PipelineSpec => TicketsLiveAsPromised`, that is `PipelineSpec => TL!Spec` under the
  mapping of `PipelineLife`. `PipelineInv` gives what the abstract guards need: a copy's status is
  the one the abstract analysis compares with, a mirrored status is in the history, a merged pull
  request had its proposal recorded. `StepAt` and `At` reduce a step of one ticket to the values of the
  mapping at that ticket; there is a lemma for each action, and `NextLife` joins them. Several
  concrete steps may be the last of a run (`Finishes`), which is why `TicketLife` lets a report and
  a merge end the analysis.

`Monitors_proofs`, first about the alert webhook:

* `AlertInvariance` — `AlertInv` is `PipelineInv` and what a goroutine in ServeHTTP holds in each
  step: a ticket that exists, its own one while it hands it off, alerts that ended no later than
  they were known to fire (`JobSound`).
* `WebhookIsEnvironment` — `AlertSpec => PipelineSpec`, step by step: what is proved of Pipeline in
  its assumed environment holds beside the webhook.
* `OccurrencesSpared`, `AlertsTracked` — the action properties `NextOccurrenceSpared` and
  `HandledAlertIsTracked`.
* `TwinsStayBounded` — by an invariant on cardinalities: the twins of a key and the goroutines
  that are about to create one more are together no more than the handlers.
* `AcknowledgedAreCarried` — `AcknowledgedFiringHasATicket`, assuming `PlainDeliveries`: no failing
  statement, hang-up or restart; a key that is owed a ticket is that of one alert; a manual analysis
  has no critical key. `CarriedInv` says that the alerts of a batch which are done with
  have an open ticket of their key (`BatchSound`), and that this ticket carries the alert also in
  the copy its run may write over the row (`OwnTicket`). The hypotheses are those under
  which the code keeps the promise: of two alerts with one key the end of one closes the ticket of
  both, and MarkAnalyzing may write away the fingerprint of the second; a fault leaves AlertManager's
  last answer older than the table. The run `webhook` meets them.

and then about all monitors together:

* `PollerInvariance` — `PollerInv` adds what the poll loop and the deliveries hold, that a row is
  open until its run marks it and young while the run goes on (`Phase`), and that the age pass
  works off a ticket listed in another status than open only when its run is over (`PollSound`).
* `MonitorsAreEnvironment` — `PollerSpec => PipelineSpec`, the composition of the agent with its
  monitors; with `Implements` it gives `MonitorsKeepThePromises`,
  `PollerSpec => TicketsLiveAsPromised`, which no run checks at this size.
* `RunsLeftAlone` — the action property `RunsUndisturbed`.
* `DegradedStaysOpen` — `SeenDegradedStaysOpen`, assuming that no alert is about the workload of a
  service the poller scans: the end of such an alert closes the poller's ticket at any moment.
  `SeenInv` has a ticket for each recorded service which nobody can close before the poll ends: it
  is young, and on no list the poll still works off (`Heard`).
* `FailingStaysOpen` — `FailingWorkflowStaysOpen`. `QuietInv` says that no row is older than the
  last failure recorded in it; the lemma `WritesRenew`, that every statement which writes a row
  renews its age, is what it rests on.

`Notifier_proofs`:

* `OperatorInvariance` — beside commands `PipelineInv` does not hold: a command writes back a row it
  read before the linkage. `OperatorInv` says what remains: how a row can leave the statuses of its
  run (`Underway`), since when the row knows the pull request and what follows when a command
  has written that away (`Records`), that only a merge makes a fix applied (`Applies`), what a
  command is about to write (`CommandSound`).
* `AppliedOnlyWhenMerged`, `OrphansAreEscalated` follow from it; `SuppressedStays` is the action
  property `SuppressionStands`.
* `SpeakingChangesNothing` — `NotifierSpec => OperatorSpec`: the notifier reads the run and writes
  nothing of it.
* `NotifierInvariance`, `AllAnnounced`, `NoneAnnouncedTwice` — `NotifierInv` has for each step of the
  run how often the header may have been heard and what excuses its absence (`Spoken`).

`ScoutSpike_proofs`:

* `Invariance` — `ScoutInv`, with `Table` (every press holds the entry the table has for its
  source, and `refs` counts them: why eviction never takes an entry in use), `Memos`
  (a live memo names an issue of its source), `Pages` (what the search knew at its start
  lies on pages still to come: the number of newer issues, `Rank`, only grows) and
  `Covered` (an issue of a source not excused is indexed or in the memo). Lemmas on
  `Rank` and `FullPage` rest on the cardinality theorems of the library.
* `TypeCorrect`, `SerialPerSource`, `OneIssue`, `KnownFound`, `Answered`.
* `PressesAreCalls` — `CallbackSpec => ScoutSpec`, so that these hold of the presses of a message;
  `TruthfulLinks` — `LinksTellTheTruth`, from `ScoutInv` and that a press calls Create for the source
  of its row.

`Startup_proofs`:

* `ForwarderInvariance` — `ForwarderInv` counts `wg` and `sem` by the steps of the observations, and
  bounds the age of a send in each attempt by the timeouts and pauses before it (`SendSound`).
* `ProcessIsForwarder` — `ProcessSpec => ForwarderSpec`: opening the store changes nothing of it.
* `AllCounted`, `ThirdAttemptUncut`, `EarlySendsAreLeft`, `ShutdownKeepsTheGrace` follow, for any
  number of observations and any `MaxInFlight`; `NoAdmissionBesideWait` is the action property
  `NoAddBesideWait`.
* `ForwarderImplementsForwarding` — `ProcessSpec => ObservationsCounted`, that is the refinement of
  `Forwarding` under the mapping of `BotStart`: what is flying are the sends between admission and count.
  Taking a token, a retry, leaving and the times of main are stutters; the limit on what flies comes from
  the count of the tokens, since who is about to fly holds one as well (`RoomToFly`); main goes
  only when `wg` is zero and so nothing is flying. Beside `ForwarderInv` it needs that an outcome stands
  only when it is counted (`CountedLast`). `NoneVanishes` speaks of the exit, this of every step.
* `StartupInvariance`, `BudgetKept` — the last pause begins within the budget and a dial after it,
  which bounds by how much the budget is overrun.

`GitOps_proofs`:

* `GitOpsInvariance` — what a run or a pull request remembers of the file is a position in the
  history of `main` and what stood there: its content (`ReadIsKept`), the patch of it
  (`NewerIsFixed`), a later base (`BranchIsLater`), the tag before it (`NewerIsListed`).
* `ProbesAreReads` — `ProbingSpec => GitOpsSpec`: the walk over the candidates decides when a run
  reads its file, and changes nothing else of GitOps.
* `MergesAreFixes` — the action property `MergeIsItsFix`; `RollbacksGoBack` —
  `UnovertakenRollbackGoesBack`.
* `FixesStayHome` — `AppsOwnFileIsPatched`, for names of any length, assuming `PlainNames`: no app
  is called like the full name a chart gives. By lemmas on the names: stripping a chart's suffix and
  a tenant's prefix from the labels of an app leaves that app or its full name, and the first
  candidate GitHub has a file for is another app's only after a 404 for its own.

`SkillRegistry_proofs`:

* `RegistryInvariance` — the readers of the lock are counted, which is why nobody reads while a
  writer goes on; a call to the Manager that has written one table is alone with its name and the
  first table says what the second will (`Coherent`).
* `SequentialCallsKeepAgreement` — `SequentialCallsAgree`, for any number of callers, names and endpoints.

`Patches_proofs`, for files of any number of lines, any depth and any order of keys:

* `PatchesLeaveFiles` — `PatchesTypeOK`: no patch repeats a key, takes a line out of its block or
  beyond the depths of a file.
* `RollbackChangesTheChartTag`, `BumpsRaiseLimits` — `RollbackIsTheChartTag` and `LimitsAreBumped`.
  A patch that only sets values keeps the paths of all lines (`ShapeKept`), so that what it does to
  `Mapping` is what it does line by line.
* `ProbeFixRaisesProbes` — `ProbeFixIsTheProbes`, assuming `ProbesApart`: no liveness probe lies within
  another. The loop of `GenerateProbeFix` goes over the blocks from the last to the first; `PatchedAt`
  is its invariant: with `D` the blocks done, the mapping has their delays raised or added and is
  otherwise the old one, and all lines before the next block are where the scan found them. `ChildAdded` says
  what one inserted line does to the mapping. TLC finds the hypothesis true in every state of the run
  `patches`; with a form that nests a probe within a probe it finds `ProbeFixIsTheProbes` violated.
* `NoKeyIsLost` — `[][KeysKept]_patchesVars`, without that hypothesis; no run checks it.

What a scan over lines computes would be proved by induction, and the prover applies no rule that takes a
predicate. These proofs take the least line that would be a counterexample instead; `Paths` and
the loop over the blocks are recursive functions, shown to exist line by line and block by block in the
same way (`PathsExist`, `FixExists`).

Only model-checked:

* the liveness properties `QuietAgentClosesTickets` and `EveryCallEnds`: liveness under fairness
  and ENABLED are out of the prover's reach;
* the counterexample of `pipeline_reopen`.

No module declares a RECURSIVE operator.

## 5. Where code and text part

The models reach these too; properties are worded around them, and the exception is named in
the property or in the hazard list.

* A run reopens a ticket resolved while it was queued (`pipeline_reopen`).
* A mirror call overtaken by a resolve and its ResolveAlert reopens the incident in mctl-api,
  which `pipeline.go:180-181` sets out to avoid.
* `github.go:49-50`: the limits bound pull requests per window; concurrent runs pass the same
  count. `PROvershootBounded` says by how many.
* `pipeline.go:879`: "Nothing was changed in the GitOps repo." is said for every error of
  CreatePR, also after the branch was pushed.
* The end of one alert closes the ticket that it shares with another alert of its key which still
  fires (`store.go:805-807` keeps this knowingly); the poller's reconciliation asks that all be absent.
* The batch of a caller that hung up runs on beside the redelivery, and its resolve can close
  the ticket the alert was acknowledged with.
* Two deliveries look up a key before either creates its ticket: twins.
* Update writes back the fingerprints of the copy; touches in between are lost
  (`store.go:649-651` rules this out for touches among themselves only). Commands do the same.
* `store.go:852-854` calls the rows without fingerprints a finite legacy set; the poller and
  TriggerAnalysis still create such rows, and any alert with their key closes them.
* `poller.go:457-459` resolves only when all fingerprints are absent; an alert that joins
  between the list and the resolve is not seen.
* `poller.go:328` promises a new ticket on re-fire; the cooldown holds it back.
* Scout: a create whose answer is lost leaves no memo, and a last page with fewer issues than
  the total counts as complete. `excused` names those sources.
* The content of a pull request is computed from a read that is older than its branch: a
  commit in between is undone. A deploy between the read and the list of commits makes a
  rollback roll forward.
* A remote skill unregistered and registered again stays disabled; an Unregister between the
  two halves of a Register leaves a skill that is matched and not listed.
* The edit of an older copy of a message's keyboard takes the link of another row back to its draft.
* A failed look-up of the GitHub Actions webhook counts as none, and makes a twin; a failure recorded
  between the list of the age pass and its resolve does not keep the ticket open.
* A signal between the opening of the store and `signal.Notify` is lost or kills the process, which
  has begun to serve by then. Start-up may outlast its budget by the length of a dial and a pause.
* Of an app whose name begins with its tenant's, but whose release is not prefixed, `Resolve` keeps
  the stripped name only: the app's own file is not among the candidates.
* Content that a skill writes as a whole file is checked against the path, not the version, it was
  written for.
* A send of the header that arrived although its answer was lost is repeated.
* A command that read its row before the linkage writes the linkage away: `PRNeverForgotten` and
  `MergeOnlyOnRecord` hold of the pipeline beside everything but commands, `OrphanPRIsEscalated`
  beside those too.
* The CPU bump raises requests that follow limits, the memory bump every memory line.
* `patcher.go:396-397` patches "from the bottom up so that inserting lines does not shift the indices of
  the blocks still to be patched". The position of an outer block's delay shifts when a block within it
  gets one; no chart nests probes, and `ProbesApart` excludes it.

## 6. Not modelled

* `scoutspike` ParseDraft and NormaliseURL: functions of one string to the source or the draft; a
  source is a model value.
* `notify/telegram.go` beyond the header: formatting, the chat of a tenant, the HTTP call. The daily
  digest of `main.go` reads and sends.
* `api/router.go` ParseCommand and the read-only endpoints: they change nothing.
* `skill/metrics.go`: counters; `CheckAndDisable` and `RecordResolution` have no caller but
  tests. `fixer/token.go`: one value under a lock. `skill/remote/validate.go`: a predicate on one
  registration.
* Builtin and YAML skills: which one matches and how confident it is, is a choice in `Pipeline`.
* The remaining patches of `patcher.go`: a text replaced by another, without a scanner. The
  rules of `gitopspath` are one value in `Probing`, a path that is skipped.
* HTTP authentication, MCP plumbing, configuration, runbooks, metrics, telemetry, SQL
  migrations, texts of messages: no decision of the ticket path depends on them.

## 7. Plan

Order in which the modules were built, most important first:

1. `TicketStore`, `Pipeline` and its proofs.
2. `AlertHandler`, `GitHubWebhook`, `Poller`: the composition, refinement of `PipelineSpec`, liveness.
3. `TicketLife`, `PipelineLife` and the proof of the refinement.
4. `Operator`, `Notifier`.
5. `ScoutSpike` and its proofs, `ScoutCallback`; `BotStart`, `Startup`; `SkillRegistry`.
6. `GitOps`, `Probing`, `Patches`.

The proofs followed in the same order: `Pipeline`, `PipelineLife` and `ScoutSpike` first, then the
monitors, the commands and the notifier, the process, the GitOps file, the registry, the patches. Every
safety and action property of a run is now a theorem.

Left:

* `AcknowledgedFiringHasATicket` for keys that several alerts share, under a hypothesis on the time
  between a touch and the run's first write.
