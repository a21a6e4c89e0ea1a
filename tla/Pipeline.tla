------------------------------ MODULE Pipeline ------------------------------
(***************************************************************************)
(* internal/pipeline/pipeline.go, with the parts of internal/fixer and     *)
(* internal/mctlclient it drives: what happens to a ticket between the     *)
(* Create that inserts it and the moment its processing goroutine returns. *)
(*                                                                         *)
(* Each call the goroutine makes to the database, to GitHub or to mctl-api *)
(* is one step, because the other goroutines of the agent run in between.  *)
(* Whatever those do to the shared state is the Environment at the end of  *)
(* the module; the composing modules replace it by the real actors.        *)
(***************************************************************************)
EXTENDS TicketStore

CONSTANTS
    MaxConcurrent,   \* capacity of the semaphore (3 in NewPipeline)
    MaxPR,           \* MAX_PR_PER_HOUR; the model's clock stays in one window
    AutoMerge,       \* AUTO_MERGE
    DryRun,          \* DRY_RUN
    AdvisoryKey,     \* keys of human-review-only and infrastructure alerts
    Faults           \* the kinds of failure that may happen, see FaultKind

(***************************************************************************)
(* store: a statement fails.  github: a GitHub call fails and changes      *)
(* nothing.  answer: a GitHub call takes effect and still reports an       *)
(* error.  api: a call to mctl-api is lost.  crash: the process dies.      *)
(* hangup: a webhook's caller gives up waiting for the answer.             *)
(***************************************************************************)
FaultKind == {"store", "github", "answer", "api", "crash", "hangup"}

ASSUME PipelineAssumption ==
    /\ MaxConcurrent \in Nat \ {0}
    /\ MaxPR \in Nat
    /\ AutoMerge \in BOOLEAN
    /\ DryRun \in BOOLEAN
    /\ AdvisoryKey \subseteq Key
    /\ Faults \subseteq FaultKind

VARIABLES
    pc,        \* Ticket -> where its processing stands
    mem,       \* Ticket -> the *Ticket its goroutine holds
    goal,      \* Ticket -> the status the goroutine is about to persist
    safe,      \* Ticket -> the chosen skill declares itself AutoMergeSafe
    slots,     \* free slots of the semaphore
    paused,    \* Pipeline.paused
    github,    \* Ticket -> what exists in the GitOps repository for it
    mirror,    \* Ticket -> the incident's status in mctl-api, or "absent"
    resolving  \* Ticket -> ResolveAlert goroutines in flight

runVars == <<pc, mem, goal, safe, slots>>
outsideVars == <<github, mirror, resolving>>
pipelineVars == <<storeVars, runVars, outsideVars, paused>>

Waiting == {"created", "queued"}
Active == {"start", "publish", "reload", "diagnose", "sync", "route", "fix",
           "limit", "branch", "openPR", "giveUp", "persist", "mirror", "link",
           "linkOnly", "mirrorPR", "merge"}
Ended == {"done", "aborted", "skipped", "lost"}
Pc == {"none"} \cup Waiting \cup Active \cup Ended

Blank == [status |-> "none", fps |-> {}, pr |-> FALSE]

PipelineTypeOK ==
    /\ StoreTypeOK
    /\ pc \in [Ticket -> Pc]
    /\ mem \in [Ticket -> Copy]
    /\ goal \in [Ticket -> Status]
    /\ safe \in [Ticket -> BOOLEAN]
    /\ slots \in 0..MaxConcurrent
    /\ paused \in BOOLEAN
    /\ github \in [Ticket -> {"none", "branch", "open", "automerged", "merged", "closed"}]
    /\ mirror \in [Ticket -> Status \cup {"absent"}]
    /\ resolving \in [Ticket -> Nat]

RunInit ==
    /\ pc = [t \in Ticket |-> "none"]
    /\ mem = [t \in Ticket |-> Blank]
    /\ goal = [t \in Ticket |-> "escalated"]
    /\ safe = [t \in Ticket |-> FALSE]
    /\ slots = MaxConcurrent
    /\ paused = FALSE
    /\ github = [t \in Ticket |-> "none"]
    /\ mirror = [t \in Ticket |-> "absent"]
    /\ resolving = [t \in Ticket |-> 0]

PipelineInit == StoreInit /\ RunInit

-----------------------------------------------------------------------------
(* Entering the pipeline *)

\* Store.Create and the *Ticket the creator is left holding.
NewTicket(src, k, F) ==
    /\ Insert(src, k, F)
    /\ pc' = [pc EXCEPT ![created + 1] = "created"]
    /\ mem' = [mem EXCEPT ![created + 1] = [status |-> "open", fps |-> F, pr |-> FALSE]]
    /\ UNCHANGED <<goal, safe, slots, paused, outsideVars>>

TriggerAnalysis(w) == NewTicket("manual", <<w, NoAlertName>>, {})

Move(t, from, to) == pc[t] = from /\ pc' = [pc EXCEPT ![t] = to]

ProcessTicket(t) ==
    /\ Move(t, "created", IF paused THEN "skipped" ELSE "queued")
    /\ UNCHANGED <<storeVars, mem, goal, safe, slots, paused, outsideVars>>

TryAcquireSem(t) ==
    /\ Move(t, "queued", "start")
    /\ slots' = IF slots > 0 THEN slots - 1 ELSE 0
    /\ UNCHANGED <<storeVars, mem, goal, safe, paused, outsideVars>>

\* The goroutine's send on the semaphore channel.
AcquireSem(t) ==
    /\ slots > 0
    /\ Move(t, "queued", "start")
    /\ slots' = slots - 1
    /\ UNCHANGED <<storeVars, mem, goal, safe, paused, outsideVars>>

ReturnTwice(t, how) ==
    /\ pc' = [pc EXCEPT ![t] = how]
    /\ slots' = slots + 2
    /\ mem' = [mem EXCEPT ![t] = Blank]

\* processTicketSync returns and the deferred receive frees the slot.
Return(t, how) ==
    /\ pc' = [pc EXCEPT ![t] = how]
    /\ slots' = slots + 1
    /\ mem' = [mem EXCEPT ![t] = Blank]

Continue(t, to) ==
    /\ pc' = [pc EXCEPT ![t] = to]
    /\ UNCHANGED <<mem, slots>>

StoreFails(t) ==
    /\ "store" \in Faults
    /\ UNCHANGED storeVars
    /\ Return(t, "aborted")

-----------------------------------------------------------------------------
(* The mirror of the incident in mctl-api *)

\* PATCH and /resolve answer 404 for an incident that was never posted.
Known(t, s) == IF mirror[t] = "absent" THEN "absent" ELSE s

ApiCall(t, s) ==
    \/ mirror' = [mirror EXCEPT ![t] = s]
    \/ "api" \in Faults /\ mirror' = mirror

UpdateAlert(t, s) == ApiCall(t, Known(t, s))

\* One `go ResolveAlert(id)` reaching mctl-api.
DeliverResolve(t) ==
    /\ resolving[t] > 0
    /\ resolving' = [resolving EXCEPT ![t] = @ - 1]
    /\ UpdateAlert(t, "resolved")
    /\ UNCHANGED <<storeVars, runVars, github, paused>>

-----------------------------------------------------------------------------
(* processTicketSync *)

MarkAnalyzing(t) ==
    /\ pc[t] = "start"
    /\ LET m == [mem[t] EXCEPT !.status = "analyzing"] IN
         \/ /\ Update(t, m)
            /\ mem' = [mem EXCEPT ![t] = m]
            /\ pc' = [pc EXCEPT ![t] = "publish"]
            /\ UNCHANGED <<created, slots>>
         \/ StoreFails(t)
    /\ UNCHANGED <<goal, safe, paused, outsideVars>>

PublishAlert(t) ==
    /\ Move(t, "publish", "reload")
    /\ ApiCall(t, mem[t].status)
    /\ UNCHANGED <<storeVars, mem, goal, safe, slots, paused, github, resolving>>

\* Evidence is collected first; the reload replaces the held copy.
Reload(t) ==
    /\ pc[t] = "reload"
    /\ \/ /\ mem' = [mem EXCEPT ![t] = Get(t)]
          /\ pc' = [pc EXCEPT ![t] = "diagnose"]
          /\ UNCHANGED <<storeVars, slots>>
       \/ StoreFails(t)
    /\ UNCHANGED <<goal, safe, paused, outsideVars>>

NoDiagnosisSilent(t) ==
    /\ pc[t] = "diagnose"
    /\ Return(t, "done")
    /\ UNCHANGED <<storeVars, goal, safe, paused, outsideVars>>

\* No skill matched, or every matched skill failed: escalate.
NoDiagnosis(t) ==
    /\ Move(t, "diagnose", "persist")
    /\ goal' = [goal EXCEPT ![t] = "escalated"]
    /\ UNCHANGED <<storeVars, mem, safe, slots, paused, outsideVars>>

Diagnosed(t) ==
    /\ Move(t, "diagnose", "sync")
    /\ UNCHANGED <<storeVars, mem, goal, safe, slots, paused, outsideVars>>

\* The diagnosis is sent to mctl-api with whatever status the copy holds.
SyncDiagnosis(t) ==
    /\ Move(t, "sync", "route")
    /\ UpdateAlert(t, mem[t].status)
    /\ UNCHANGED <<storeVars, mem, goal, safe, slots, paused, github, resolving>>

\* Advisory alert, or LOW or not fixable: escalate.
Advise(t) ==
    /\ Move(t, "route", "persist")
    /\ goal' = [goal EXCEPT ![t] = "escalated"]
    /\ UNCHANGED <<storeVars, mem, safe, slots, paused, outsideVars>>

\* MEDIUM, fixable, the skill not auto-merge safe: the fix goes to the chat.
Suggest(t) ==
    /\ row[t].key \notin AdvisoryKey
    /\ Move(t, "route", "persist")
    /\ goal' = [goal EXCEPT ![t] = "fix_proposed"]
    /\ UNCHANGED <<storeVars, mem, safe, slots, paused, outsideVars>>

\* HIGH and fixable, or MEDIUM and fixable with an auto-merge safe skill.
StartFix(t) ==
    /\ row[t].key \notin AdvisoryKey
    /\ Move(t, "route", "fix")
    /\ \E s \in BOOLEAN : safe' = [safe EXCEPT ![t] = s]
    /\ UNCHANGED <<storeVars, mem, goal, slots, paused, outsideVars>>

\* handleHighConfidenceFix up to CreatePR.  Generating the fix or the patch
\* failed: fix_proposed without a PR.  The skill declined, the service is a
\* platform service, or no GitOps file could be read: escalate.
FixStops(t) ==
    /\ Move(t, "fix", "persist")
    /\ \E s \in {"fix_proposed", "escalated"} : goal' = [goal EXCEPT ![t] = s]
    /\ UNCHANGED <<storeVars, mem, safe, slots, paused, outsideVars>>

FixReady(t) ==
    /\ Move(t, "fix", "limit")
    /\ UNCHANGED <<storeVars, mem, goal, safe, slots, paused, outsideVars>>

-----------------------------------------------------------------------------
(* CreatePR *)

\* Dry run returns no PR and no error; otherwise the stored PRs are counted.
CheckLimits(t) ==
    /\ pc[t] = "limit"
    /\ \/ /\ DryRun
          /\ Continue(t, "link")
          /\ goal' = [goal EXCEPT ![t] = "fix_proposed"]
       \/ /\ ~DryRun
          /\ CountPRsInWindow < MaxPR
          /\ Continue(t, "branch")
          /\ UNCHANGED goal
       \/ /\ ~DryRun
          /\ CountPRsInWindow >= MaxPR \/ "store" \in Faults
          /\ Continue(t, "giveUp")
          /\ goal' = [goal EXCEPT ![t] = "escalated"]
    /\ UNCHANGED <<storeVars, safe, paused, outsideVars>>

\* The call failed, or only its answer was lost after it made s.
GitHubFails(t, s) ==
    \/ "github" \in Faults /\ UNCHANGED github
    \/ "answer" \in Faults /\ github' = [github EXCEPT ![t] = s]

\* CreateRef, GetContents and UpdateFile.
PushBranch(t) ==
    /\ pc[t] = "branch"
    /\ \/ /\ github' = [github EXCEPT ![t] = "branch"]
          /\ Continue(t, "openPR")
          /\ UNCHANGED goal
       \/ /\ GitHubFails(t, "branch")
          /\ Continue(t, "giveUp")
          /\ goal' = [goal EXCEPT ![t] = "escalated"]
    /\ UNCHANGED <<storeVars, safe, paused, mirror, resolving>>

OpenPRProposedAnyway(t) ==
    /\ pc[t] = "openPR"
    /\ \/ /\ github' = [github EXCEPT ![t] = "open"]
          /\ mem' = [mem EXCEPT ![t].pr = TRUE]
          /\ goal' = [goal EXCEPT ![t] = "fix_proposed"]
          /\ pc' = [pc EXCEPT ![t] = "link"]
          /\ UNCHANGED slots
       \/ /\ GitHubFails(t, "open")
          /\ Continue(t, "persist")
          /\ goal' = [goal EXCEPT ![t] = "fix_proposed"]
    /\ UNCHANGED <<storeVars, safe, paused, mirror, resolving>>

\* PullRequests.Create, and the copy's new coordinates and status.
OpenPR(t) ==
    /\ pc[t] = "openPR"
    /\ \/ /\ github' = [github EXCEPT ![t] = "open"]
          /\ mem' = [mem EXCEPT ![t].pr = TRUE]
          /\ goal' = [goal EXCEPT ![t] = "fix_proposed"]
          /\ pc' = [pc EXCEPT ![t] = "link"]
          /\ UNCHANGED slots
       \/ /\ GitHubFails(t, "open")
          /\ Continue(t, "giveUp")
          /\ goal' = [goal EXCEPT ![t] = "escalated"]
    /\ UNCHANGED <<storeVars, safe, paused, mirror, resolving>>

-----------------------------------------------------------------------------
(* recordAndMirrorPR, auto-merge *)

\* The copy takes the wanted status whether or not the row does.
Link(t) ==
    /\ pc[t] = "link"
    /\ \/ /\ RecordPRLinkage(t, mem[t].status, goal[t], mem[t].pr)
          /\ mem' = [mem EXCEPT ![t].status = goal[t]]
          /\ pc' = [pc EXCEPT ![t] = IF row[t].status = mem[t].status
                                     THEN "mirrorPR" ELSE "linkOnly"]
          /\ UNCHANGED <<created, slots>>
       \/ StoreFails(t)
    /\ UNCHANGED <<goal, safe, paused, outsideVars>>

LinkOnlyThenMerge(t) ==
    /\ pc[t] = "linkOnly"
    /\ RecordPRCoordinates(t, mem[t].pr)
    /\ Continue(t, "mirrorPR")
    /\ UNCHANGED <<created, goal, safe, paused, outsideVars>>

LinkOnly(t) ==
    /\ pc[t] = "linkOnly"
    /\ \/ /\ RecordPRCoordinates(t, mem[t].pr)
          /\ UNCHANGED created
          /\ Return(t, "done")
       \/ StoreFails(t)
    /\ UNCHANGED <<goal, safe, paused, outsideVars>>

WantsMerge(t) == AutoMerge /\ ~DryRun /\ safe[t] /\ goal[t] = "fix_proposed"

MirrorPR(t) ==
    /\ pc[t] = "mirrorPR"
    /\ UpdateAlert(t, mem[t].status)
    /\ IF WantsMerge(t) THEN Continue(t, "merge") ELSE Return(t, "done")
    /\ UNCHANGED <<storeVars, goal, safe, paused, github, resolving>>

MergePR(t) ==
    /\ pc[t] = "merge"
    /\ \/ /\ github[t] = "open"
          /\ github' = [github EXCEPT ![t] = "automerged"]
          /\ goal' = [goal EXCEPT ![t] = "fix_applied"]
          /\ Continue(t, "link")
       \/ /\ IF github[t] = "open" THEN GitHubFails(t, "automerged") ELSE UNCHANGED github
          /\ UNCHANGED goal
          /\ Return(t, "done")
    /\ UNCHANGED <<storeVars, safe, paused, mirror, resolving>>

-----------------------------------------------------------------------------
(* persistDiagnosisAndMirror and escalate *)

PersistAndMirrorAnyway(t) ==
    /\ pc[t] \in {"persist", "giveUp"}
    /\ SetDiagnosisFromStatus(t, mem[t].status, goal[t])
    /\ Continue(t, "mirror")
    /\ UNCHANGED <<created, goal, safe, paused, outsideVars>>

Persist(t) ==
    /\ pc[t] \in {"persist", "giveUp"}
    /\ \/ /\ SetDiagnosisFromStatus(t, mem[t].status, goal[t])
          /\ UNCHANGED created
          /\ IF row[t].status = mem[t].status
             THEN Continue(t, "mirror")
             ELSE Return(t, "done")
       \/ StoreFails(t)
    /\ UNCHANGED <<goal, safe, paused, outsideVars>>

Mirror(t) ==
    /\ pc[t] = "mirror"
    /\ UpdateAlert(t, goal[t])
    /\ Return(t, "done")
    /\ UNCHANGED <<storeVars, goal, safe, paused, github, resolving>>

RunStep(t) ==
    \/ MarkAnalyzing(t) \/ PublishAlert(t) \/ Reload(t)
    \/ NoDiagnosis(t) \/ Diagnosed(t) \/ SyncDiagnosis(t)
    \/ Advise(t) \/ Suggest(t) \/ StartFix(t) \/ FixStops(t) \/ FixReady(t)
    \/ CheckLimits(t) \/ PushBranch(t) \/ OpenPR(t)
    \/ Link(t) \/ LinkOnly(t) \/ MirrorPR(t) \/ MergePR(t)
    \/ Persist(t) \/ Mirror(t)

PipelineStep(t) == ProcessTicket(t) \/ AcquireSem(t) \/ RunStep(t)

-----------------------------------------------------------------------------
(* Pause and Resume, and the death of the process *)

Pause == ~paused /\ paused' = TRUE
         /\ UNCHANGED <<storeVars, runVars, outsideVars>>
Resume == paused /\ paused' = FALSE
          /\ UNCHANGED <<storeVars, runVars, outsideVars>>

Running(t) == pc[t] \in Waiting \cup Active

\* Everything in memory goes; the rows, mctl-api and GitHub stay.
LoseRuns ==
    /\ pc' = [t \in Ticket |-> IF Running(t) THEN "lost" ELSE pc[t]]
    /\ mem' = [t \in Ticket |-> Blank]
    /\ slots' = MaxConcurrent
    /\ paused' = FALSE
    /\ resolving' = [t \in Ticket |-> 0]
    /\ UNCHANGED <<storeVars, goal, safe, github, mirror>>

Crash == "crash" \in Faults /\ LoseRuns

-----------------------------------------------------------------------------
(* What the rest of the agent and the people around it may do *)

Others == UNCHANGED <<runVars, paused>>

Touched ==
    /\ \E t \in Existing, F \in SUBSET Fp : TouchWithFingerprint(t, F)
    /\ UNCHANGED created /\ UNCHANGED outsideVars /\ Others

\* A guarded resolve of the rows S, and the ResolveAlert goroutines for those
\* of them whose ids reached the caller.
Resolved(S, told) ==
    /\ ResolveRows(S)
    /\ resolving' = [t \in Ticket |-> IF t \in told THEN resolving[t] + 1 ELSE resolving[t]]
    /\ UNCHANGED <<created, github, mirror>> /\ Others

\* Somebody merges or closes the pull request on GitHub.
Review(t) ==
    /\ github[t] = "open"
    /\ \E s \in {"merged", "closed"} : github' = [github EXCEPT ![t] = s]
    /\ UNCHANGED <<storeVars, mirror, resolving>> /\ Others

Clock ==
    /\ \E t \in Existing : Grow(t, pc[t] \in Active) \/ CooldownEnds(t)
    /\ UNCHANGED created /\ UNCHANGED outsideVars /\ Others

Surroundings ==
    \/ \E src \in Source, k \in Key, F \in SUBSET Fp : NewTicket(src, k, F)
    \/ Touched
    \/ \E S \in (SUBSET ListOpen) \ {{}} : Resolved(S, S) \/ ("store" \in Faults /\ Resolved(S, {}))
    \/ \E t \in Ticket : DeliverResolve(t) \/ Review(t)
    \/ Clock \/ Pause \/ Resume

Environment == Surroundings \/ Crash

PipelineNext == Environment \/ \E t \in Ticket : PipelineStep(t)

PipelineSpec == PipelineInit /\ [][PipelineNext]_pipelineVars

-----------------------------------------------------------------------------
(* Properties *)

HasPR(t) == github[t] \in {"open", "automerged", "merged", "closed"}

\* A run that returned without a failed store call left its ticket decided:
\* no early return of processTicketSync leaves a row open or analyzing, the
\* defect escalate was written against.
FinishedRunIsDecided ==
    \A t \in Ticket : pc[t] = "done" => row[t].status \notin {"none", "open", "analyzing"}

\* Once the run has reloaded a ticket that was not closed, no statement of the
\* run reopens a resolution that lands later: the guards on fromStatus.
NoReopenAfterReload ==
    [][\A t \in Ticket :
         IsClosed(t) /\ mem[t].status \notin Closed /\ pc[t] \in Active \ {"start", "publish", "reload"}
           => row'[t].status \in Closed]_pipelineVars

\* mctl-api is never told about a status the store did not take, whatever calls
\* are lost and however the ResolveAlert goroutines are ordered.
MirrorNeverAhead ==
    \A t \in Ticket : mirror[t] \in row[t].took \cup {"absent"}

\* A pull request CreatePR reported is recorded in the row, also when the
\* ticket was resolved while GitHub was answering.
PRNeverForgotten ==
    "answer" \notin Faults =>
      \A t \in Ticket : pc[t] = "done" /\ HasPR(t) => row[t].pr

\* The agent merges only what auto-merge, the skill and dry run allow, and only
\* on top of a fix_proposed transition that the store took and that is linked.
MergeOnlyOnRecord ==
    \A t \in Ticket : github[t] = "automerged" =>
        AutoMerge /\ ~DryRun /\ safe[t] /\ row[t].pr /\ "fix_proposed" \in row[t].took

\* The limit is read before the pull request exists, so concurrent runs can
\* pass it together; of the pull requests whose runs go on or wrote their
\* linkage, the excess stays below the number of slots.
PROvershootBounded ==
    Cardinality({t \in Ticket : HasPR(t) /\ (row[t].pr \/ pc[t] \in Active)})
      <= MaxPR + MaxConcurrent - 1

Holding == {t \in Ticket : pc[t] \in Active}

\* The semaphore is neither leaked by an early return nor released twice.
SlotsBalance == slots = MaxConcurrent - Cardinality(Holding)

-----------------------------------------------------------------------------
(* The inductive invariant behind the properties *)

Deciding == {"diagnose", "sync", "route", "fix", "limit", "branch", "openPR", "giveUp", "persist"}
Linked == {"mirrorPR", "merge"}
Decided == {"escalated", "fix_proposed", "fix_applied", "resolved"}

\* Nothing anywhere refers to a ticket that was not created.
Fresh(t) == t > created =>
    /\ pc[t] = "none" /\ row[t].status = "none" /\ row[t].took = {}
    /\ github[t] = "none" /\ mirror[t] = "absent" /\ resolving[t] = 0

\* Whatever refers to a status refers to one the row has held.
History(t) ==
    /\ row[t].status # "none" => row[t].status \in row[t].took
    /\ mirror[t] \in row[t].took \cup {"absent"}
    /\ resolving[t] > 0 => "resolved" \in row[t].took
    /\ pc[t] \in {"publish", "mirrorPR"} \cup Deciding => mem[t].status \in row[t].took
    /\ pc[t] = "mirror" => goal[t] \in row[t].took

\* The run and the resolvers are the row's only writers, so that a row the run
\* believes unresolved holds the status of its copy or is resolved.
Follows(t, s) == /\ mem[t].status = s
                 /\ row[t].status \in {s, "resolved"}

Progress(t) ==
    /\ pc[t] = "publish" => Follows(t, "analyzing")
    /\ pc[t] = "reload" => row[t].status \in {"analyzing", "resolved"}
    /\ pc[t] \in Deciding \/ (pc[t] = "link" /\ goal[t] = "fix_proposed") =>
         \/ Follows(t, "analyzing")
         \/ mem[t].status = "resolved" /\ row[t].status = "resolved"
    /\ pc[t] \in {"persist", "giveUp", "mirror"} => goal[t] \in {"escalated", "fix_proposed"}
    /\ pc[t] \in {"link", "linkOnly"} \cup Linked => goal[t] \in {"fix_proposed", "fix_applied"}
    /\ pc[t] = "link" /\ goal[t] = "fix_applied" => Follows(t, "fix_proposed")
    /\ pc[t] \in Linked => Follows(t, goal[t])
    /\ pc[t] \in {"linkOnly", "mirror", "done"} => row[t].status \in Decided

\* The pull request is in the copy from the moment GitHub reports it and in the
\* row from the moment the linkage was written.
Linkage(t) ==
    /\ pc[t] \in {"branch", "openPR"} => ~DryRun
    /\ ~DryRun /\ pc[t] \in {"link", "linkOnly"} \cup Linked => mem[t].pr
    /\ pc[t] \in Linked => row[t].pr = mem[t].pr
    /\ HasPR(t) => /\ ~DryRun
                   /\ pc[t] \in {"link", "linkOnly", "aborted", "lost", "done",
                                 "giveUp", "mirror"} \cup Linked
                   /\ "answer" \notin Faults => pc[t] \notin {"giveUp", "mirror"}
                   /\ "answer" \notin Faults /\ pc[t] = "done" => row[t].pr

Merged(t) ==
    /\ pc[t] = "merge" => WantsMerge(t) /\ "fix_proposed" \in row[t].took
    /\ pc[t] = "link" => (goal[t] = "fix_applied" <=> github[t] = "automerged")
    /\ github[t] = "automerged" =>
         /\ AutoMerge /\ ~DryRun /\ safe[t] /\ row[t].pr /\ "fix_proposed" \in row[t].took
         /\ pc[t] \in {"link", "linkOnly", "mirrorPR", "aborted", "lost", "done"}
         /\ pc[t] \in {"link", "linkOnly", "mirrorPR"} => goal[t] = "fix_applied"

TicketInv(t) == Fresh(t) /\ History(t) /\ Progress(t) /\ Linkage(t) /\ Merged(t)

PipelineInv ==
    /\ PipelineTypeOK
    /\ SlotsBalance
    /\ \A t \in Ticket : TicketInv(t)

\* The pull requests that are recorded, or that a run may still record.
Counted(t) ==
    row[t].pr \/ pc[t] \in {"branch", "openPR"} \/ (HasPR(t) /\ pc[t] \in Active)

\* A run that takes a pull request from its copy writes no new one.
CopyBacked(t) == mem[t].pr => row[t].pr \/ (HasPR(t) /\ pc[t] \in Active)

OvershootInv ==
    /\ \A t \in Ticket : CopyBacked(t) /\ (Counted(t) => t \in Existing)
    /\ Cardinality({t \in Ticket : Counted(t)}) <= MaxPR + MaxConcurrent - 1

-----------------------------------------------------------------------------
(* A claim of a test that the code does not keep *)

\* "a resolution that landed first must stand" (processticket_test.go): no
\* step of the pipeline takes a resolved row to another status.
ResolutionStands ==
    [][\A t \in Ticket : row[t].status = "resolved" => row'[t].status = "resolved"]_pipelineVars
=============================================================================
