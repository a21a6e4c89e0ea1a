-------------------------- MODULE Notifier_proofs --------------------------
(***************************************************************************)
(* Proofs about Operator and Notifier: the pipeline beside the Telegram    *)
(* commands, for any number of tickets, slots and commands at a time and   *)
(* any faults.  PipelineInv does not hold here: a command writes a whole   *)
(* row back whatever the run of the ticket did meanwhile.                  *)
(***************************************************************************)
EXTENDS Notifier, Pipeline_proofs

-----------------------------------------------------------------------------
(* What one step of a run does to its ticket *)

StepTo(t, from, to) == pc[t] = from /\ pc'[t] = to

RowStays(t) == row'[t] = row[t]
RestStays(t) == mem'[t] = mem[t] /\ github'[t] = github[t]
Stays(t) == RowStays(t) /\ RestStays(t) /\ goal'[t] = goal[t]

Enters(t) ==
    /\ StepTo(t, "created", "skipped") \/ StepTo(t, "created", "queued") \/ StepTo(t, "queued", "start")
    /\ Stays(t)

Fails(t) ==
    /\ pc[t] \in {"start", "reload", "link", "linkOnly", "persist", "giveUp"} /\ pc'[t] = "aborted"
    /\ RowStays(t) /\ goal'[t] = goal[t] /\ github'[t] = github[t]

Marks(t) ==
    /\ StepTo(t, "start", "publish")
    /\ row'[t].status = "analyzing" /\ row'[t].pr = mem[t].pr
    /\ mem'[t].status = "analyzing" /\ mem'[t].pr = mem[t].pr
    /\ goal'[t] = goal[t] /\ github'[t] = github[t]

Reloads(t) ==
    /\ StepTo(t, "reload", "diagnose")
    /\ RowStays(t) /\ goal'[t] = goal[t] /\ github'[t] = github[t]
    /\ mem'[t].status = row[t].status /\ mem'[t].pr = row[t].pr

\* Between two decisions, or with a decision that persists or gives up.
Thinks(t) ==
    /\ \/ /\ \/ StepTo(t, "publish", "reload") \/ StepTo(t, "diagnose", "sync") \/ StepTo(t, "sync", "route")
             \/ StepTo(t, "route", "fix") \/ StepTo(t, "fix", "limit")
             \/ StepTo(t, "limit", "branch") /\ ~DryRun
          /\ goal'[t] = goal[t]
       \/ /\ pc[t] \in {"diagnose", "route", "fix"} /\ pc'[t] = "persist"
          /\ goal'[t] \in {"escalated", "fix_proposed"}
       \/ StepTo(t, "limit", "giveUp") /\ goal'[t] = "escalated"
       \/ StepTo(t, "limit", "link") /\ goal'[t] = "fix_proposed" /\ DryRun
    /\ RowStays(t) /\ RestStays(t)

Pushes(t) ==
    /\ \/ StepTo(t, "branch", "openPR") /\ goal'[t] = goal[t]
       \/ StepTo(t, "branch", "giveUp") /\ goal'[t] = "escalated"
    /\ github'[t] \in {github[t], "branch"}
    /\ RowStays(t) /\ mem'[t] = mem[t]

Opens(t) ==
    /\ RowStays(t)
    /\ \/ /\ StepTo(t, "openPR", "link") /\ goal'[t] = "fix_proposed" /\ github'[t] = "open"
          /\ mem'[t].status = mem[t].status /\ mem'[t].pr
       \/ /\ StepTo(t, "openPR", "giveUp") /\ goal'[t] = "escalated" /\ github'[t] \in {github[t], "open"}
          /\ mem'[t] = mem[t]

Links(t) ==
    /\ goal'[t] = goal[t] /\ github'[t] = github[t] /\ mem'[t].status = goal[t] /\ mem'[t].pr = mem[t].pr
    /\ \/ /\ StepTo(t, "link", "mirrorPR") /\ row[t].status = mem[t].status
          /\ row'[t].status = goal[t] /\ row'[t].pr = mem[t].pr
       \/ StepTo(t, "link", "linkOnly") /\ row[t].status # mem[t].status /\ RowStays(t)

LinksOnly(t) ==
    /\ StepTo(t, "linkOnly", "done")
    /\ row'[t].status = row[t].status /\ row'[t].pr = mem[t].pr
    /\ goal'[t] = goal[t] /\ github'[t] = github[t]

Persists(t) ==
    /\ pc[t] \in {"persist", "giveUp"} /\ goal'[t] = goal[t] /\ github'[t] = github[t]
    /\ \/ /\ pc'[t] = "mirror" /\ row[t].status = mem[t].status
          /\ row'[t].status = goal[t] /\ row'[t].pr = row[t].pr /\ mem'[t] = mem[t]
       \/ pc'[t] = "done" /\ row[t].status # mem[t].status /\ RowStays(t)

Mirrors(t) ==
    /\ \/ StepTo(t, "mirrorPR", "merge") /\ goal[t] = "fix_proposed" /\ mem'[t] = mem[t]
       \/ pc[t] \in {"mirrorPR", "mirror"} /\ pc'[t] = "done"
    /\ RowStays(t) /\ goal'[t] = goal[t] /\ github'[t] = github[t]

Merges(t) ==
    /\ RowStays(t)
    /\ \/ /\ StepTo(t, "merge", "link") /\ goal'[t] = "fix_applied"
          /\ github[t] = "open" /\ github'[t] = "automerged" /\ mem'[t] = mem[t]
       \/ /\ StepTo(t, "merge", "done") /\ goal'[t] = goal[t]
          /\ github'[t] = github[t] \/ (github[t] = "open" /\ github'[t] = "automerged")

Turn(t) ==
    \/ Enters(t) \/ Fails(t) \/ Marks(t) \/ Reloads(t) \/ Thinks(t) \/ Pushes(t) \/ Opens(t)
    \/ Links(t) \/ LinksOnly(t) \/ Persists(t) \/ Mirrors(t) \/ Merges(t)

Sound == PipelineTypeOK /\ SlotsBalance

Turned(t) == Sound' /\ Local(t) /\ Turn(t)

LEMMA EntersTurns ==
    ASSUME Sound, NEW t \in Ticket, ProcessTicket(t) \/ AcquireSem(t)
    PROVE  Turned(t)
<1>1. CASE ProcessTicket(t)
  <2>1. PICK to \in {"skipped", "queued"} : pc' = [pc EXCEPT ![t] = to]
    BY <1>1 DEF ProcessTicket, Move
  <2>2. /\ pc[t] = "created"
        /\ UNCHANGED <<row, created, mem, goal, safe, slots, paused, github, mirror, resolving>>
    BY <1>1 DEF ProcessTicket, Move, storeVars, outsideVars
  <2>3. to \in Pc /\ pc \in [Ticket -> Pc]
    BY DEF Pc, Waiting, Ended, Sound, PipelineTypeOK
  <2>4. pc' \in [Ticket -> Pc] /\ pc'[t] = to /\ \A u \in Ticket \ {t} : pc'[u] = pc[u]
    BY <2>1, <2>3
  <2>5. SlotsBalance'
    BY <2>2, <2>4, SlotsKept DEF Sound, Active
  <2>6. PipelineTypeOK' /\ Local(t)
    BY <2>2, <2>4 DEF Sound, PipelineTypeOK, StoreTypeOK, Local, Same
  <2> QED BY <2>2, <2>4, <2>5, <2>6 DEF Turned, Sound, Turn, Enters, StepTo, Stays, RowStays, RestStays
<1>2. CASE AcquireSem(t)
  <2>1. /\ pc[t] = "queued" /\ pc' = [pc EXCEPT ![t] = "start"]
        /\ slots > 0 /\ slots' = slots - 1
        /\ UNCHANGED <<row, created, mem, goal, safe, paused, github, mirror, resolving>>
    BY <1>2 DEF AcquireSem, Move, storeVars, outsideVars
  <2>2. pc \in [Ticket -> Pc] /\ slots \in 0..MaxConcurrent /\ "start" \in Active /\ "start" \in Pc
        /\ "queued" \notin Active
    BY DEF Sound, PipelineTypeOK, Active, Pc
  <2>3. SlotsBalance' /\ slots' \in 0..MaxConcurrent
    BY <2>1, <2>2, SlotTaken DEF Sound
  <2>4. pc' \in [Ticket -> Pc] /\ pc'[t] = "start" /\ \A u \in Ticket \ {t} : pc'[u] = pc[u]
    BY <2>1, <2>2
  <2>5. PipelineTypeOK' /\ Local(t)
    BY <2>1, <2>3, <2>4 DEF Sound, PipelineTypeOK, StoreTypeOK, Local, Same
  <2> QED BY <2>1, <2>3, <2>4, <2>5 DEF Turned, Sound, Turn, Enters, StepTo, Stays, RowStays, RestStays
<1> QED BY <1>1, <1>2

LEMMA FailsTurns ==
    ASSUME Sound, NEW t \in Ticket, pc[t] \in {"start", "reload", "link", "linkOnly", "persist", "giveUp"},
           StoreFails(t), UNCHANGED <<goal, safe, paused, outsideVars>>
    PROVE  Turned(t)
<1>1. /\ Return(t, "aborted")
      /\ UNCHANGED <<row, created, goal, safe, paused, github, mirror, resolving>>
  BY DEF StoreFails, storeVars, outsideVars
<1>2. "aborted" \in Ended /\ pc[t] \in Active
  BY DEF Ended, Active
<1>3. PipelineTypeOK' /\ SlotsBalance' /\ pc'[t] = "aborted" /\ Local(t)
  BY <1>1, <1>2, Returning DEF Sound, PipelineTypeOK, StoreTypeOK, Local, Same
<1> QED BY <1>1, <1>3 DEF Turned, Sound, Turn, Fails, RowStays

\* A run goes on and leaves the store and GitHub alone.
LEMMA GoesOn ==
    ASSUME Sound, NEW t \in Ticket, pc[t] \in Active, NEW to \in Active,
           pc' = [pc EXCEPT ![t] = to],
           UNCHANGED <<row, created, mem, slots, paused, github, resolving>>,
           goal' \in [Ticket -> Status], safe' \in [Ticket -> BOOLEAN],
           mirror' \in [Ticket -> Status \cup {"absent"}],
           \A u \in Ticket \ {t} : goal'[u] = goal[u] /\ safe'[u] = safe[u] /\ mirror'[u] = mirror[u]
    PROVE  Sound' /\ Local(t) /\ pc'[t] = to /\ RowStays(t) /\ RestStays(t)
<1>1. pc' \in [Ticket -> Pc] /\ slots' \in 0..MaxConcurrent /\ SlotsBalance' /\ pc'[t] = to
      /\ \A u \in Ticket \ {t} : pc'[u] = pc[u]
  BY Continues DEF Sound
<1>2. PipelineTypeOK' /\ Local(t)
  BY <1>1 DEF Sound, PipelineTypeOK, StoreTypeOK, Local, Same
<1> QED BY <1>1, <1>2 DEF Sound, RowStays, RestStays

\* mctl-api is told a status.
LEMMA Tells ==
    ASSUME Sound, NEW t \in Ticket, NEW s \in Status, ApiCall(t, s) \/ UpdateAlert(t, s)
    PROVE  mirror' \in [Ticket -> Status \cup {"absent"}] /\ \A u \in Ticket \ {t} : mirror'[u] = mirror[u]
<1>1. PICK m \in Status \cup {"absent"} : mirror' = [mirror EXCEPT ![t] = m] \/ mirror' = mirror
  BY DEF ApiCall, UpdateAlert, Known
<1>2. mirror \in [Ticket -> Status \cup {"absent"}]
  BY DEF Sound, PipelineTypeOK
<1> QED BY <1>1, <1>2

\* A run sets its goal.
LEMMA Wants ==
    ASSUME Sound, NEW t \in Ticket, NEW s \in {"escalated", "fix_proposed", "fix_applied"},
           goal' = [goal EXCEPT ![t] = s]
    PROVE  goal' \in [Ticket -> Status] /\ goal'[t] = s /\ \A u \in Ticket \ {t} : goal'[u] = goal[u]
<1>1. s \in Status /\ goal \in [Ticket -> Status]
  BY DEF Sound, PipelineTypeOK, Status, OpenStatus
<1> QED BY <1>1

LEMMA ThinksTurns ==
    ASSUME Sound, NEW t \in Ticket,
           \/ NoDiagnosis(t) \/ Diagnosed(t) \/ Advise(t) \/ Suggest(t) \/ StartFix(t)
           \/ FixStops(t) \/ FixReady(t)
    PROVE  Turned(t)
<1>0. goal \in [Ticket -> Status] /\ safe \in [Ticket -> BOOLEAN] /\ mirror \in [Ticket -> Status \cup {"absent"}]
  BY DEF Sound, PipelineTypeOK
<1>1. ASSUME NEW s \in {"escalated", "fix_proposed"}, pc[t] \in {"diagnose", "route", "fix"},
             pc' = [pc EXCEPT ![t] = "persist"], goal' = [goal EXCEPT ![t] = s],
             UNCHANGED <<storeVars, mem, safe, slots, paused, outsideVars>>
      PROVE  Turned(t)
  <2>1. UNCHANGED <<row, created, mem, safe, slots, paused, github, mirror, resolving>>
    BY <1>1 DEF storeVars, outsideVars
  <2>2. goal' \in [Ticket -> Status] /\ goal'[t] = s /\ \A u \in Ticket \ {t} : goal'[u] = goal[u]
    BY <1>1, Wants
  <2>3. pc[t] \in Active /\ "persist" \in Active
    BY <1>1 DEF Active
  <2>4. Sound' /\ Local(t) /\ pc'[t] = "persist" /\ RowStays(t) /\ RestStays(t)
    BY <1>0, <1>1, <2>1, <2>2, <2>3, GoesOn
  <2> QED BY <1>1, <2>2, <2>4 DEF Turned, Turn, Thinks
<1>2. ASSUME NEW to \in {"sync", "fix", "limit"}, pc' = [pc EXCEPT ![t] = to],
             StepTo(t, "diagnose", "sync") \/ StepTo(t, "route", "fix") \/ StepTo(t, "fix", "limit"),
             safe' \in [Ticket -> BOOLEAN], \A u \in Ticket \ {t} : safe'[u] = safe[u],
             UNCHANGED <<storeVars, mem, goal, slots, paused, outsideVars>>
      PROVE  Turned(t)
  <2>1. UNCHANGED <<row, created, mem, goal, slots, paused, github, mirror, resolving>>
    BY <1>2 DEF storeVars, outsideVars
  <2>2. pc[t] \in Active /\ to \in Active
    BY <1>2 DEF Active, StepTo
  <2>3. Sound' /\ Local(t) /\ pc'[t] = to /\ RowStays(t) /\ RestStays(t)
    BY <1>0, <1>2, <2>1, <2>2, GoesOn
  <2> QED BY <1>2, <2>1, <2>3 DEF Turned, Turn, Thinks
<1>3. pc \in [Ticket -> Pc]
  BY DEF Sound, PipelineTypeOK
<1>4. CASE Diagnosed(t) \/ FixReady(t)
  <2>1. safe' = safe
    BY <1>4 DEF Diagnosed, FixReady
  <2> QED BY <1>0, <1>2, <1>3, <1>4, <2>1 DEF Diagnosed, FixReady, Move, StepTo
<1>5. CASE StartFix(t)
  <2>1. PICK s \in BOOLEAN : safe' = [safe EXCEPT ![t] = s]
    BY <1>5 DEF StartFix
  <2>2. safe' \in [Ticket -> BOOLEAN] /\ \A u \in Ticket \ {t} : safe'[u] = safe[u]
    BY <1>0, <2>1
  <2> QED BY <1>2, <1>3, <1>5, <2>2 DEF StartFix, Move, StepTo
<1>6. CASE NoDiagnosis(t) \/ Advise(t) \/ Suggest(t) \/ FixStops(t)
  BY <1>1, <1>6 DEF NoDiagnosis, Advise, Suggest, FixStops, Move
<1> QED BY <1>4, <1>5, <1>6

LEMMA TellsTurns ==
    ASSUME Sound, NEW t \in Ticket, mem[t].status \in Status, PublishAlert(t) \/ SyncDiagnosis(t)
    PROVE  Turned(t)
<1>0. goal \in [Ticket -> Status] /\ safe \in [Ticket -> BOOLEAN] /\ pc \in [Ticket -> Pc]
  BY DEF Sound, PipelineTypeOK
<1>1. UNCHANGED <<row, created, mem, goal, safe, slots, paused, github, resolving>>
  BY DEF PublishAlert, SyncDiagnosis, storeVars
<1>2. mirror' \in [Ticket -> Status \cup {"absent"}] /\ \A u \in Ticket \ {t} : mirror'[u] = mirror[u]
  BY Tells DEF PublishAlert, SyncDiagnosis
<1>3. PICK to \in {"reload", "route"} : pc' = [pc EXCEPT ![t] = to] /\ <<pc[t], to>> \in {<<"publish", "reload">>, <<"sync", "route">>}
  BY DEF PublishAlert, SyncDiagnosis, Move
<1>4. pc[t] \in Active /\ to \in Active
  BY <1>3 DEF Active
<1>5. Sound' /\ Local(t) /\ pc'[t] = to /\ RowStays(t) /\ RestStays(t)
  BY <1>0, <1>1, <1>2, <1>3, <1>4, GoesOn
<1> QED BY <1>1, <1>3, <1>5 DEF Turned, Turn, Thinks, StepTo

LEMMA LimitsTurns == ASSUME Sound, NEW t \in Ticket, CheckLimits(t) PROVE Turned(t)
<1>0. goal \in [Ticket -> Status] /\ safe \in [Ticket -> BOOLEAN] /\ mirror \in [Ticket -> Status \cup {"absent"}]
  BY DEF Sound, PipelineTypeOK
<1>1. PICK to \in {"link", "branch", "giveUp"} :
         /\ pc' = [pc EXCEPT ![t] = to]
         /\ to = "link" => DryRun /\ goal' = [goal EXCEPT ![t] = "fix_proposed"]
         /\ to = "branch" => ~DryRun /\ goal' = goal
         /\ to = "giveUp" => goal' = [goal EXCEPT ![t] = "escalated"]
  BY DEF CheckLimits, Continue
<1>2. pc[t] = "limit" /\ UNCHANGED <<row, created, mem, safe, slots, paused, github, mirror, resolving>>
  BY DEF CheckLimits, Continue, storeVars, outsideVars
<1>3. /\ goal' \in [Ticket -> Status] /\ \A u \in Ticket \ {t} : goal'[u] = goal[u]
      /\ to = "link" => DryRun /\ goal'[t] = "fix_proposed"
      /\ to = "branch" => ~DryRun /\ goal'[t] = goal[t]
      /\ to = "giveUp" => goal'[t] = "escalated"
  BY <1>0, <1>1, Wants
<1>4. pc[t] \in Active /\ to \in Active
  BY <1>1, <1>2 DEF Active
<1>5. Sound' /\ Local(t) /\ pc'[t] = to /\ RowStays(t) /\ RestStays(t)
  BY <1>0, <1>1, <1>2, <1>3, <1>4, GoesOn
<1> QED BY <1>2, <1>3, <1>5 DEF Turned, Turn, Thinks, StepTo

\* A change of what GitHub shows of one ticket.
LEMMA GitHubShows ==
    ASSUME Sound, NEW t \in Ticket, NEW s \in {"branch", "open", "automerged", "merged", "closed"},
           github' = [github EXCEPT ![t] = s] \/ GitHubFails(t, s)
    PROVE  /\ github' \in [Ticket -> {"none", "branch", "open", "automerged", "merged", "closed"}]
           /\ github'[t] \in {github[t], s}
           /\ github' = [github EXCEPT ![t] = s] => github'[t] = s
           /\ \A u \in Ticket \ {t} : github'[u] = github[u]
<1>1. github \in [Ticket -> {"none", "branch", "open", "automerged", "merged", "closed"}]
  BY DEF Sound, PipelineTypeOK
<1> QED BY <1>1 DEF GitHubFails

\* A run goes on with a call to GitHub and leaves the store alone.
LEMMA GoesOnGitHub ==
    ASSUME Sound, NEW t \in Ticket, pc[t] \in Active, NEW to \in Active,
           pc' = [pc EXCEPT ![t] = to],
           UNCHANGED <<row, created, safe, slots, paused, mirror, resolving>>,
           goal' \in [Ticket -> Status], mem' \in [Ticket -> Copy],
           github' \in [Ticket -> {"none", "branch", "open", "automerged", "merged", "closed"}],
           \A u \in Ticket \ {t} : goal'[u] = goal[u] /\ mem'[u] = mem[u] /\ github'[u] = github[u]
    PROVE  Sound' /\ Local(t) /\ pc'[t] = to /\ RowStays(t)
<1>1. pc' \in [Ticket -> Pc] /\ slots' \in 0..MaxConcurrent /\ SlotsBalance' /\ pc'[t] = to
      /\ \A u \in Ticket \ {t} : pc'[u] = pc[u]
  BY Continues DEF Sound
<1>2. PipelineTypeOK' /\ Local(t)
  BY <1>1 DEF Sound, PipelineTypeOK, StoreTypeOK, Local, Same
<1> QED BY <1>1, <1>2 DEF Sound, RowStays

LEMMA PushTurns == ASSUME Sound, NEW t \in Ticket, PushBranch(t) PROVE Turned(t)
<1>0. goal \in [Ticket -> Status] /\ mem \in [Ticket -> Copy]
  BY DEF Sound, PipelineTypeOK
<1>1. PICK to \in {"openPR", "giveUp"} :
         /\ pc' = [pc EXCEPT ![t] = to]
         /\ to = "openPR" => goal' = goal
         /\ to = "giveUp" => goal' = [goal EXCEPT ![t] = "escalated"]
         /\ github' = [github EXCEPT ![t] = "branch"] \/ GitHubFails(t, "branch")
  BY DEF PushBranch, Continue
<1>2. pc[t] = "branch" /\ UNCHANGED <<row, created, mem, safe, slots, paused, mirror, resolving>>
  BY DEF PushBranch, Continue, storeVars
<1>3. /\ goal' \in [Ticket -> Status] /\ \A u \in Ticket \ {t} : goal'[u] = goal[u]
      /\ to = "openPR" => goal'[t] = goal[t]
      /\ to = "giveUp" => goal'[t] = "escalated"
  BY <1>0, <1>1, Wants
<1>4. /\ github' \in [Ticket -> {"none", "branch", "open", "automerged", "merged", "closed"}]
      /\ github'[t] \in {github[t], "branch"} /\ \A u \in Ticket \ {t} : github'[u] = github[u]
  BY <1>1, GitHubShows
<1>5. pc[t] \in Active /\ to \in Active
  BY <1>2 DEF Active
<1>6. Sound' /\ Local(t) /\ pc'[t] = to /\ RowStays(t)
  BY <1>0, <1>1, <1>2, <1>3, <1>4, <1>5, GoesOnGitHub
<1> QED BY <1>2, <1>3, <1>4, <1>6 DEF Turned, Turn, Pushes, StepTo

LEMMA OpenTurns == ASSUME Sound, NEW t \in Ticket, OpenPR(t) PROVE Turned(t)
<1>0. goal \in [Ticket -> Status] /\ mem \in [Ticket -> Copy] /\ mem[t] \in Copy
  BY DEF Sound, PipelineTypeOK
<1>1. pc[t] = "openPR" /\ pc[t] \in Active /\ UNCHANGED <<row, created, safe, slots, paused, mirror, resolving>>
  BY DEF OpenPR, Continue, storeVars, Active
<1>2. CASE /\ github' = [github EXCEPT ![t] = "open"] /\ mem' = [mem EXCEPT ![t].pr = TRUE]
           /\ goal' = [goal EXCEPT ![t] = "fix_proposed"] /\ pc' = [pc EXCEPT ![t] = "link"]
  <2>1. goal' \in [Ticket -> Status] /\ goal'[t] = "fix_proposed" /\ \A u \in Ticket \ {t} : goal'[u] = goal[u]
    BY <1>2, Wants
  <2>2. /\ github' \in [Ticket -> {"none", "branch", "open", "automerged", "merged", "closed"}]
        /\ github'[t] = "open" /\ \A u \in Ticket \ {t} : github'[u] = github[u]
    BY <1>2, GitHubShows
  <2>3. /\ mem' \in [Ticket -> Copy] /\ mem'[t].status = mem[t].status /\ mem'[t].pr = TRUE
        /\ \A u \in Ticket \ {t} : mem'[u] = mem[u]
    BY <1>0, <1>2 DEF Copy
  <2>4. "link" \in Active
    BY DEF Active
  <2>5. Sound' /\ Local(t) /\ pc'[t] = "link" /\ RowStays(t)
    BY <1>1, <1>2, <2>1, <2>2, <2>3, <2>4, GoesOnGitHub
  <2> QED BY <1>1, <2>1, <2>2, <2>3, <2>5 DEF Turned, Turn, Opens, StepTo
<1>3. CASE /\ GitHubFails(t, "open") /\ Continue(t, "giveUp") /\ goal' = [goal EXCEPT ![t] = "escalated"]
  <2>1. goal' \in [Ticket -> Status] /\ goal'[t] = "escalated" /\ \A u \in Ticket \ {t} : goal'[u] = goal[u]
    BY <1>3, Wants
  <2>2. /\ github' \in [Ticket -> {"none", "branch", "open", "automerged", "merged", "closed"}]
        /\ github'[t] \in {github[t], "open"} /\ \A u \in Ticket \ {t} : github'[u] = github[u]
    BY <1>3, GitHubShows
  <2>3. pc' = [pc EXCEPT ![t] = "giveUp"] /\ mem' = mem /\ "giveUp" \in Active
    BY <1>3 DEF Continue, Active
  <2>4. Sound' /\ Local(t) /\ pc'[t] = "giveUp" /\ RowStays(t)
    BY <1>0, <1>1, <2>1, <2>2, <2>3, GoesOnGitHub
  <2> QED BY <1>1, <2>1, <2>2, <2>3, <2>4 DEF Turned, Turn, Opens, StepTo
<1> QED BY <1>2, <1>3 DEF OpenPR

LEMMA MarkTurns == ASSUME Sound, NEW t \in Ticket, MarkAnalyzing(t) PROVE Turned(t)
<1> DEFINE m == [mem[t] EXCEPT !.status = "analyzing"]
<1>0. pc[t] = "start" /\ pc[t] \in Active
  BY DEF MarkAnalyzing, Active
<1>1. CASE StoreFails(t)
  BY <1>0, <1>1, FailsTurns DEF MarkAnalyzing
<1>2. CASE /\ Update(t, m) /\ mem' = [mem EXCEPT ![t] = m] /\ pc' = [pc EXCEPT ![t] = "publish"]
           /\ UNCHANGED <<created, slots, goal, safe, paused, outsideVars>>
  <2>1. m \in Copy /\ m.status = "analyzing" /\ m.pr = mem[t].pr /\ m.status \in Status
    BY DEF Sound, PipelineTypeOK, Copy, Status, OpenStatus
  <2>2. Writes(t, m.status, m.pr, row[t].took \cup {m.status})
    BY <1>2, <2>1, UpdateWrites DEF Sound, PipelineTypeOK
  <2> HIDE DEF m
  <2>3. UNCHANGED <<created, slots, goal, safe, paused, github, mirror, resolving>>
    BY <1>2 DEF outsideVars
  <2>4. pc' \in [Ticket -> Pc] /\ slots' \in 0..MaxConcurrent /\ SlotsBalance'
        /\ pc'[t] = "publish" /\ \A u \in Ticket \ {t} : pc'[u] = pc[u]
    BY <1>0, <1>2, Continues DEF Active, Sound
  <2>5. PipelineTypeOK' /\ Local(t) /\ mem'[t] = m
    BY <1>2, <2>1, <2>2, <2>3, <2>4
       DEF Sound, PipelineTypeOK, StoreTypeOK, Writes, Local, Same
  <2> QED BY <1>0, <2>1, <2>2, <2>3, <2>4, <2>5 DEF Turned, Sound, Turn, Marks, StepTo, Writes
<1> QED BY <1>1, <1>2 DEF MarkAnalyzing

LEMMA ReloadTurns == ASSUME Sound, NEW t \in Ticket, Reload(t) PROVE Turned(t)
<1>0. pc[t] = "reload" /\ pc[t] \in Active
  BY DEF Reload, Active
<1>1. CASE StoreFails(t)
  BY <1>0, <1>1, FailsTurns DEF Reload
<1>2. CASE /\ mem' = [mem EXCEPT ![t] = Get(t)] /\ pc' = [pc EXCEPT ![t] = "diagnose"]
           /\ UNCHANGED <<storeVars, slots, goal, safe, paused, outsideVars>>
  <2>1. Get(t) \in Copy /\ Get(t).status = row[t].status /\ Get(t).pr = row[t].pr
    BY RowType DEF Sound, PipelineTypeOK, Get, Row, Copy
  <2>2. UNCHANGED <<row, created, slots, goal, safe, paused, github, mirror, resolving>>
    BY <1>2 DEF outsideVars, storeVars
  <2>3. pc' \in [Ticket -> Pc] /\ slots' \in 0..MaxConcurrent /\ SlotsBalance'
        /\ pc'[t] = "diagnose" /\ \A u \in Ticket \ {t} : pc'[u] = pc[u]
    BY <1>0, <1>2, Continues DEF Active, Sound
  <2>4. mem \in [Ticket -> Copy]
    BY DEF Sound, PipelineTypeOK
  <2>5. mem' \in [Ticket -> Copy] /\ mem'[t] = Get(t) /\ \A u \in Ticket \ {t} : mem'[u] = mem[u]
    BY <1>2, <2>1, <2>4
  <2>6. PipelineTypeOK' /\ Local(t)
    BY <2>2, <2>3, <2>5 DEF Sound, PipelineTypeOK, StoreTypeOK, Local, Same
  <2> QED BY <1>0, <2>1, <2>2, <2>3, <2>5, <2>6 DEF Turned, Sound, Turn, Reloads, StepTo, RowStays
<1> QED BY <1>1, <1>2 DEF Reload

\* A run writes its row and goes on.
LEMMA GoesOnRow ==
    ASSUME Sound, NEW t \in Ticket, pc[t] \in Active, NEW to \in Active,
           pc' = [pc EXCEPT ![t] = to],
           row' \in [Ticket -> Row], \A u \in Ticket \ {t} : row'[u] = row[u],
           mem' \in [Ticket -> Copy], \A u \in Ticket \ {t} : mem'[u] = mem[u],
           UNCHANGED <<created, slots, goal, safe, paused, outsideVars>>
    PROVE  Sound' /\ Local(t) /\ pc'[t] = to /\ goal'[t] = goal[t] /\ github'[t] = github[t]
<1>1. UNCHANGED <<created, slots, goal, safe, paused, github, mirror, resolving>>
  BY DEF outsideVars
<1>2. pc' \in [Ticket -> Pc] /\ slots' \in 0..MaxConcurrent /\ SlotsBalance' /\ pc'[t] = to
      /\ \A u \in Ticket \ {t} : pc'[u] = pc[u]
  BY Continues DEF Sound
<1>3. PipelineTypeOK' /\ Local(t)
  BY <1>1, <1>2 DEF Sound, PipelineTypeOK, StoreTypeOK, Local, Same
<1> QED BY <1>1, <1>2, <1>3 DEF Sound

\* A run writes its row, or not, and returns.
LEMMA ReturnsRow ==
    ASSUME Sound, NEW t \in Ticket, pc[t] \in Active, Return(t, "done"),
           row' \in [Ticket -> Row], \A u \in Ticket \ {t} : row'[u] = row[u],
           github' \in [Ticket -> {"none", "branch", "open", "automerged", "merged", "closed"}],
           \A u \in Ticket \ {t} : github'[u] = github[u],
           mirror' \in [Ticket -> Status \cup {"absent"}], \A u \in Ticket \ {t} : mirror'[u] = mirror[u],
           UNCHANGED <<created, goal, safe, paused, resolving>>
    PROVE  Sound' /\ Local(t) /\ pc'[t] = "done" /\ goal'[t] = goal[t]
<1>1. "done" \in Ended
  BY DEF Ended
<1>2. /\ pc' \in [Ticket -> Pc] /\ slots' \in 0..MaxConcurrent /\ mem' \in [Ticket -> Copy]
      /\ pc'[t] = "done" /\ SlotsBalance'
      /\ \A u \in Ticket \ {t} : pc'[u] = pc[u] /\ mem'[u] = mem[u]
  BY <1>1, Returning DEF Sound
<1>3. PipelineTypeOK' /\ Local(t)
  BY <1>2 DEF Sound, PipelineTypeOK, StoreTypeOK, Local, Same
<1> QED BY <1>2, <1>3 DEF Sound

LEMMA LinkTurns == ASSUME Sound, NEW t \in Ticket, Link(t) PROVE Turned(t)
<1>0. /\ pc[t] = "link" /\ pc[t] \in Active /\ mem \in [Ticket -> Copy] /\ mem[t] \in Copy /\ goal[t] \in Status
      /\ UNCHANGED <<goal, safe, paused, outsideVars>>
  BY DEF Link, Active, Sound, PipelineTypeOK
<1>1. CASE StoreFails(t)
  BY <1>0, <1>1, FailsTurns
<1>2. CASE /\ RecordPRLinkage(t, mem[t].status, goal[t], mem[t].pr)
           /\ mem' = [mem EXCEPT ![t].status = goal[t]]
           /\ pc' = [pc EXCEPT ![t] = IF row[t].status = mem[t].status THEN "mirrorPR" ELSE "linkOnly"]
           /\ UNCHANGED <<created, slots>>
  <2> DEFINE to == IF row[t].status = mem[t].status THEN "mirrorPR" ELSE "linkOnly"
  <2>1. mem[t].pr \in BOOLEAN
    BY <1>0 DEF Copy
  <2>2. IF row[t].status = mem[t].status
        THEN Writes(t, goal[t], mem[t].pr, row[t].took \cup {goal[t]})
        ELSE row' = row
    BY <1>0, <1>2, <2>1, LinkageWrites DEF Sound, PipelineTypeOK
  <2>3. row' \in [Ticket -> Row] /\ \A u \in Ticket \ {t} : row'[u] = row[u]
    BY <2>2 DEF Writes, Sound, PipelineTypeOK, StoreTypeOK
  <2>4. /\ mem' \in [Ticket -> Copy] /\ \A u \in Ticket \ {t} : mem'[u] = mem[u]
        /\ mem'[t].status = goal[t] /\ mem'[t].pr = mem[t].pr
    BY <1>0, <1>2 DEF Copy
  <2>5. to \in Active /\ pc' = [pc EXCEPT ![t] = to]
    BY <1>2 DEF Active
  <2>6. row[t].status = mem[t].status => to = "mirrorPR"
    OBVIOUS
  <2>7. row[t].status # mem[t].status => to = "linkOnly"
    OBVIOUS
  <2> HIDE DEF to
  <2>8. Sound' /\ Local(t) /\ pc'[t] = to /\ goal'[t] = goal[t] /\ github'[t] = github[t]
    BY <1>0, <1>2, <2>3, <2>4, <2>5, GoesOnRow
  <2> QED BY <1>0, <2>2, <2>4, <2>6, <2>7, <2>8 DEF Turned, Turn, Links, StepTo, RowStays, Writes
<1> QED BY <1>1, <1>2 DEF Link

LEMMA LinkOnlyTurns == ASSUME Sound, NEW t \in Ticket, LinkOnly(t) PROVE Turned(t)
<1>0. /\ pc[t] = "linkOnly" /\ pc[t] \in Active /\ mem[t] \in Copy
      /\ UNCHANGED <<goal, safe, paused, outsideVars>>
  BY DEF LinkOnly, Active, Sound, PipelineTypeOK
<1>1. CASE StoreFails(t)
  BY <1>0, <1>1, FailsTurns
<1>2. CASE RecordPRCoordinates(t, mem[t].pr) /\ UNCHANGED created /\ Return(t, "done")
  <2>1. mem[t].pr \in BOOLEAN
    BY <1>0 DEF Copy
  <2>2. Writes(t, row[t].status, mem[t].pr, row[t].took)
    BY <1>2, <2>1, CoordinatesWrites DEF Sound, PipelineTypeOK
  <2>3. UNCHANGED <<goal, safe, paused, github, mirror, resolving>>
    BY <1>0 DEF outsideVars
  <2>4. Sound' /\ Local(t) /\ pc'[t] = "done" /\ goal'[t] = goal[t]
    BY <1>0, <1>2, <2>2, <2>3, ReturnsRow DEF Writes, Sound, PipelineTypeOK
  <2> QED BY <1>0, <2>2, <2>3, <2>4 DEF Turned, Turn, LinksOnly, StepTo, Writes
<1> QED BY <1>1, <1>2 DEF LinkOnly

LEMMA PersistTurns == ASSUME Sound, NEW t \in Ticket, Persist(t) PROVE Turned(t)
<1>0. /\ pc[t] \in {"persist", "giveUp"} /\ pc[t] \in Active /\ mem \in [Ticket -> Copy] /\ goal[t] \in Status
      /\ UNCHANGED <<goal, safe, paused, outsideVars>>
      /\ UNCHANGED <<goal, safe, paused, github, mirror, resolving>>
  BY DEF Persist, Active, Sound, PipelineTypeOK, outsideVars
<1>1. CASE StoreFails(t)
  BY <1>0, <1>1, FailsTurns
<1>2. CASE /\ SetDiagnosisFromStatus(t, mem[t].status, goal[t]) /\ UNCHANGED created
           /\ IF row[t].status = mem[t].status THEN Continue(t, "mirror") ELSE Return(t, "done")
  <2>1. IF row[t].status = mem[t].status
        THEN Writes(t, goal[t], row[t].pr, row[t].took \cup {goal[t]})
        ELSE row' = row
    BY <1>0, <1>2, DiagnosisWrites DEF Sound, PipelineTypeOK
  <2>2. row' \in [Ticket -> Row] /\ \A u \in Ticket \ {t} : row'[u] = row[u]
    BY <2>1 DEF Writes, Sound, PipelineTypeOK, StoreTypeOK
  <2>3. CASE row[t].status = mem[t].status
    <3>1. pc' = [pc EXCEPT ![t] = "mirror"] /\ mem' = mem /\ slots' = slots /\ "mirror" \in Active
      BY <1>2, <2>3 DEF Continue, Active
    <3>2. Sound' /\ Local(t) /\ pc'[t] = "mirror" /\ goal'[t] = goal[t] /\ github'[t] = github[t]
      BY <1>0, <1>2, <2>2, <3>1, GoesOnRow
    <3> QED BY <1>0, <2>1, <2>3, <3>1, <3>2 DEF Turned, Turn, Persists, Writes
  <2>4. CASE row[t].status # mem[t].status
    <3>1. Return(t, "done") /\ row' = row
      BY <1>2, <2>1, <2>4
    <3>2. Sound' /\ Local(t) /\ pc'[t] = "done" /\ goal'[t] = goal[t]
      BY <1>0, <1>2, <2>2, <3>1, ReturnsRow DEF Sound, PipelineTypeOK
    <3> QED BY <1>0, <2>4, <3>1, <3>2 DEF Turned, Turn, Persists, RowStays
  <2> QED BY <2>3, <2>4
<1> QED BY <1>1, <1>2 DEF Persist

LEMMA MirrorTurns ==
    ASSUME Sound, NEW t \in Ticket,
           Mirror(t) \/ (MirrorPR(t) /\ mem[t].status \in Status)
    PROVE  Turned(t)
<1>0. goal[t] \in Status /\ row \in [Ticket -> Row]
      /\ github \in [Ticket -> {"none", "branch", "open", "automerged", "merged", "closed"}]
  BY DEF Sound, PipelineTypeOK, StoreTypeOK
<1>1. UNCHANGED <<row, created, goal, safe, paused, github, resolving>> /\ pc[t] \in {"mirrorPR", "mirror"}
      /\ pc[t] \in Active
  BY DEF Mirror, MirrorPR, storeVars, Active
<1>2. mirror' \in [Ticket -> Status \cup {"absent"}] /\ \A u \in Ticket \ {t} : mirror'[u] = mirror[u]
  BY <1>0, Tells DEF Mirror, MirrorPR
<1>3. CASE Return(t, "done")
  <2>1. Sound' /\ Local(t) /\ pc'[t] = "done" /\ goal'[t] = goal[t]
    BY <1>0, <1>1, <1>2, <1>3, ReturnsRow
  <2> QED BY <1>1, <2>1 DEF Turned, Turn, Mirrors, RowStays
<1>4. CASE MirrorPR(t) /\ WantsMerge(t) /\ Continue(t, "merge")
  <2>1. pc' = [pc EXCEPT ![t] = "merge"] /\ UNCHANGED <<mem, slots>> /\ "merge" \in Active /\ pc[t] = "mirrorPR"
    BY <1>4 DEF Continue, Active, MirrorPR
  <2>2. goal' \in [Ticket -> Status] /\ safe' \in [Ticket -> BOOLEAN]
    BY <1>1 DEF Sound, PipelineTypeOK
  <2>3. Sound' /\ Local(t) /\ pc'[t] = "merge" /\ RowStays(t) /\ RestStays(t)
    BY <1>1, <1>2, <2>1, <2>2, GoesOn
  <2> QED BY <1>1, <1>4, <2>1, <2>3 DEF Turned, Turn, Mirrors, StepTo, RestStays, WantsMerge
<1> QED BY <1>3, <1>4 DEF Mirror, MirrorPR

LEMMA MergeTurns == ASSUME Sound, NEW t \in Ticket, MergePR(t) PROVE Turned(t)
<1>0. /\ pc[t] = "merge" /\ pc[t] \in Active
      /\ UNCHANGED <<row, created, safe, paused, mirror, resolving>>
      /\ row \in [Ticket -> Row] /\ mem \in [Ticket -> Copy]
      /\ mirror \in [Ticket -> Status \cup {"absent"}]
  BY DEF MergePR, Active, storeVars, Sound, PipelineTypeOK, StoreTypeOK
<1>1. CASE /\ github[t] = "open" /\ github' = [github EXCEPT ![t] = "automerged"]
           /\ goal' = [goal EXCEPT ![t] = "fix_applied"] /\ Continue(t, "link")
  <2>1. goal' \in [Ticket -> Status] /\ goal'[t] = "fix_applied" /\ \A u \in Ticket \ {t} : goal'[u] = goal[u]
    BY <1>1, Wants
  <2>2. /\ github' \in [Ticket -> {"none", "branch", "open", "automerged", "merged", "closed"}]
        /\ github'[t] = "automerged" /\ \A u \in Ticket \ {t} : github'[u] = github[u]
    BY <1>1, GitHubShows
  <2>3. pc' = [pc EXCEPT ![t] = "link"] /\ UNCHANGED <<mem, slots>> /\ "link" \in Active
    BY <1>1 DEF Continue, Active
  <2>4. Sound' /\ Local(t) /\ pc'[t] = "link" /\ RowStays(t)
    BY <1>0, <2>1, <2>2, <2>3, GoesOnGitHub
  <2> QED BY <1>0, <1>1, <2>1, <2>2, <2>3, <2>4 DEF Turned, Turn, Merges, StepTo
<1>2. CASE /\ IF github[t] = "open" THEN GitHubFails(t, "automerged") ELSE UNCHANGED github
           /\ UNCHANGED goal /\ Return(t, "done")
  <2>1. /\ github' \in [Ticket -> {"none", "branch", "open", "automerged", "merged", "closed"}]
        /\ github'[t] = github[t] \/ (github[t] = "open" /\ github'[t] = "automerged")
        /\ \A u \in Ticket \ {t} : github'[u] = github[u]
    <3>1. CASE github[t] = "open"
      <4>1. GitHubFails(t, "automerged")
        BY <1>2, <3>1
      <4> QED BY <3>1, <4>1, GitHubShows
    <3>2. CASE github[t] # "open"
      BY <1>2, <3>2 DEF Sound, PipelineTypeOK
    <3> QED BY <3>1, <3>2
  <2>2. Sound' /\ Local(t) /\ pc'[t] = "done" /\ goal'[t] = goal[t]
    BY <1>0, <1>2, <2>1, ReturnsRow
  <2> QED BY <1>0, <2>1, <2>2 DEF Turned, Turn, Merges, StepTo, RowStays
<1> QED BY <1>1, <1>2 DEF MergePR

\* Every step of a run is a turn, whatever the commands wrote.
LEMMA RunTurns ==
    ASSUME Sound, NEW t \in Ticket, Underway(t), PipelineStep(t)
    PROVE  Turned(t)
<1>1. goal[t] \in Status
  BY DEF Sound, PipelineTypeOK
<1>2. pc[t] \in {"publish", "sync", "mirrorPR"} => mem[t].status \in Status
  BY <1>1 DEF Underway, Deciding, Linked, Status, OpenStatus, Closed
<1>3. ASSUME ProcessTicket(t) \/ AcquireSem(t) PROVE Turned(t)
  BY <1>3, EntersTurns
<1>4. ASSUME PublishAlert(t) \/ SyncDiagnosis(t) PROVE Turned(t)
  BY <1>2, <1>4, TellsTurns DEF PublishAlert, SyncDiagnosis, Move
<1>5. ASSUME Mirror(t) \/ MirrorPR(t) PROVE Turned(t)
  BY <1>2, <1>5, MirrorTurns DEF MirrorPR
<1>6. ASSUME \/ NoDiagnosis(t) \/ Diagnosed(t) \/ Advise(t) \/ Suggest(t) \/ StartFix(t)
             \/ FixStops(t) \/ FixReady(t)
      PROVE  Turned(t)
  BY <1>6, ThinksTurns
<1> QED BY <1>3, <1>4, <1>5, <1>6, MarkTurns, ReloadTurns, LimitsTurns, PushTurns, OpenTurns, LinkTurns,
           LinkOnlyTurns, PersistTurns, MergeTurns DEF PipelineStep, RunStep

-----------------------------------------------------------------------------
(* What everything else does to a ticket *)

\* Resolvers, reviewers, the clock: the run is left alone.
Beside(t) ==
    /\ pc'[t] = pc[t] /\ mem'[t] = mem[t] /\ goal'[t] = goal[t]
    /\ row'[t].pr = row[t].pr
    /\ row'[t].status = row[t].status \/ (row[t].status \in OpenStatus /\ row'[t].status = "resolved")
    /\ github'[t] = github[t] \/ (github[t] = "open" /\ github'[t] \in {"merged", "closed"})

\* The ticket is opened.
Begins(t) ==
    /\ t > created
    /\ pc'[t] = "created" /\ mem'[t].pr = FALSE
    /\ row'[t].status = "open" /\ row'[t].pr = FALSE
    /\ goal'[t] = goal[t] /\ github'[t] = github[t]

\* The process dies.
Dies(t) ==
    /\ pc'[t] = IF Running(t) THEN "lost" ELSE pc[t]
    /\ row'[t] = row[t] /\ mem'[t] = Blank /\ goal'[t] = goal[t] /\ github'[t] = github[t]

FreshOnes == \A t \in Ticket : t > created => pc[t] = "none"

LEMMA SameIsBeside == ASSUME NEW t \in Ticket, Same(t) PROVE Beside(t)
BY DEF Same, Beside

\* One row is touched, aged or cooled.
LEMMA RowBeside ==
    ASSUME Sound, NEW t \in Ticket, Writes(t, row[t].status, row[t].pr, row[t].took),
           UNCHANGED <<created, runVars, outsideVars, paused>>
    PROVE  Sound' /\ created' = created /\ \A u \in Ticket : Beside(u)
<1>1. UNCHANGED <<created, pc, mem, goal, safe, slots, paused, github, mirror, resolving>>
  BY DEF runVars, outsideVars
<1>2. PipelineTypeOK'
  BY <1>1 DEF Sound, PipelineTypeOK, StoreTypeOK, Writes
<1>3. SlotsBalance'
  BY <1>1, SlotsKept DEF Sound
<1>4. \A u \in Ticket : Beside(u)
  BY <1>1 DEF Beside, Writes
<1> QED BY <1>1, <1>2, <1>3, <1>4 DEF Sound

LEMMA ExistingAreTickets == Sound => Existing \subseteq Ticket
BY StoreAssumption DEF Sound, PipelineTypeOK, StoreTypeOK, Existing, Ticket

LEMMA TouchedBeside == Sound /\ Touched => Sound' /\ created' = created /\ \A u \in Ticket : Beside(u)
<1> SUFFICES ASSUME Sound, Touched PROVE Sound' /\ created' = created /\ \A u \in Ticket : Beside(u)
  OBVIOUS
<1>1. PICK t \in Existing, F \in SUBSET Fp : TouchWithFingerprint(t, F)
  BY DEF Touched
<1>2. t \in Ticket /\ StoreTypeOK
  BY ExistingAreTickets DEF Sound, PipelineTypeOK
<1>3. Writes(t, row[t].status, row[t].pr, row[t].took)
  BY <1>1, <1>2, TouchWrites
<1>4. UNCHANGED <<created, runVars, outsideVars, paused>>
  BY DEF Touched, Others
<1> QED BY <1>2, <1>3, <1>4, RowBeside

LEMMA ClockBeside == Sound /\ Clock => Sound' /\ created' = created /\ \A u \in Ticket : Beside(u)
<1> SUFFICES ASSUME Sound, Clock PROVE Sound' /\ created' = created /\ \A u \in Ticket : Beside(u)
  OBVIOUS
<1>1. PICK t \in Existing : Grow(t, pc[t] \in Active) \/ CooldownEnds(t)
  BY DEF Clock
<1>2. t \in Ticket /\ StoreTypeOK
  BY ExistingAreTickets DEF Sound, PipelineTypeOK
<1> DEFINE b == pc[t] \in Active
<1>3. b \in BOOLEAN /\ (Grow(t, b) \/ CooldownEnds(t))
  BY <1>1
<1> HIDE DEF b
<1>4. Writes(t, row[t].status, row[t].pr, row[t].took)
  BY <1>2, <1>3, ClockWrites
<1>5. UNCHANGED <<created, runVars, outsideVars, paused>>
  BY DEF Clock, Others
<1> QED BY <1>2, <1>4, <1>5, RowBeside

LEMMA ResolvedBeside ==
    ASSUME Sound, NEW S \in SUBSET ListOpen, NEW told \in SUBSET S, Resolved(S, told)
    PROVE  Sound' /\ created' = created /\ \A u \in Ticket : Beside(u)
<1>1. /\ ResolveRows(S) /\ StoreTypeOK
      /\ resolving' = [t \in Ticket |-> IF t \in told THEN resolving[t] + 1 ELSE resolving[t]]
      /\ UNCHANGED <<created, pc, mem, goal, safe, slots, paused, github, mirror>>
  BY DEF Resolved, Others, runVars, Sound, PipelineTypeOK
<1>2. S \in SUBSET Ticket
  BY ExistingAreTickets DEF ListOpen
<1>3. /\ row' \in [Ticket -> Row]
      /\ \A t \in Ticket \ S : row'[t] = row[t]
      /\ \A t \in S : row'[t].status = "resolved" /\ row'[t].pr = row[t].pr
  BY <1>1, <1>2, ResolveWrites
<1>4. PipelineTypeOK'
  BY <1>1, <1>3 DEF Sound, PipelineTypeOK, StoreTypeOK
<1>5. SlotsBalance'
  BY <1>1, SlotsKept DEF Sound
<1>6. ASSUME NEW t \in Ticket PROVE Beside(t)
  <2>1. t \in S => row[t].status \in OpenStatus
    BY DEF ListOpen
  <2> QED BY <1>1, <1>3, <2>1 DEF Beside
<1> QED BY <1>1, <1>4, <1>5, <1>6 DEF Sound

LEMMA ReviewBeside ==
    ASSUME Sound, NEW t \in Ticket, Review(t)
    PROVE  Sound' /\ created' = created /\ \A u \in Ticket : Beside(u)
<1>1. PICK s \in {"merged", "closed"} : github' = [github EXCEPT ![t] = s]
  BY DEF Review
<1>2. /\ github[t] = "open"
      /\ UNCHANGED <<row, created, mirror, resolving, pc, mem, goal, safe, slots, paused>>
  BY DEF Review, Others, storeVars, runVars
<1>3. /\ github' \in [Ticket -> {"none", "branch", "open", "automerged", "merged", "closed"}]
      /\ github'[t] = s /\ \A u \in Ticket \ {t} : github'[u] = github[u]
  BY <1>1, GitHubShows
<1>4. PipelineTypeOK' /\ SlotsBalance'
  BY <1>2, <1>3, SlotsKept DEF Sound, PipelineTypeOK, StoreTypeOK
<1> QED BY <1>2, <1>3, <1>4 DEF Sound, Beside

LEMMA DeliverBeside ==
    ASSUME Sound, NEW t \in Ticket, DeliverResolve(t)
    PROVE  Sound' /\ created' = created /\ \A u \in Ticket : Beside(u)
<1>1. /\ resolving[t] > 0 /\ resolving' = [resolving EXCEPT ![t] = @ - 1]
      /\ UpdateAlert(t, "resolved")
      /\ UNCHANGED <<row, created, pc, mem, goal, safe, slots, paused, github>>
  BY DEF DeliverResolve, storeVars, runVars
<1>2. mirror' \in [Ticket -> Status \cup {"absent"}]
  BY <1>1, Tells DEF Status, Closed
<1>3. resolving' \in [Ticket -> Nat]
  BY <1>1 DEF Sound, PipelineTypeOK
<1>4. PipelineTypeOK' /\ SlotsBalance'
  BY <1>1, <1>2, <1>3, SlotsKept DEF Sound, PipelineTypeOK, StoreTypeOK
<1> QED BY <1>1, <1>4 DEF Sound, Beside

LEMMA NewTicketBegins ==
    ASSUME Sound, FreshOnes, NEW src \in Source, NEW k \in Key, NEW F \in SUBSET Fp, NewTicket(src, k, F)
    PROVE  /\ Sound'
           /\ \A u \in Ticket : (u > created' => u > created) /\ (Beside(u) \/ (Begins(u) /\ ~(u > created')))
<1> DEFINE m == [status |-> "open", fps |-> F, pr |-> FALSE]
<1>1. Insert(src, k, F) /\ StoreTypeOK
  BY DEF NewTicket, Sound, PipelineTypeOK
<1>2. PICK t \in Ticket : t = created + 1
  BY <1>1, InsertWrites
<1>3. created' = t /\ Writes(t, "open", FALSE, {"open"})
  BY <1>1, <1>2, InsertWrites
<1>4. /\ pc' = [pc EXCEPT ![t] = "created"] /\ mem' = [mem EXCEPT ![t] = m]
      /\ UNCHANGED <<goal, safe, slots, paused, github, mirror, resolving>>
  BY <1>2 DEF NewTicket, outsideVars
<1>5. m \in Copy /\ m.pr = FALSE
  BY DEF Copy, Status, OpenStatus
<1>6. created \in Nat /\ t > created /\ ~(t > created')
  BY <1>1, <1>2, <1>3, StoreAssumption DEF StoreTypeOK
<1> HIDE DEF m
<1>7. PipelineTypeOK' /\ pc'[t] = "created" /\ mem'[t] = m /\ \A u \in Ticket \ {t} : Same(u)
  BY <1>3, <1>4, <1>5 DEF Sound, PipelineTypeOK, StoreTypeOK, Writes, Same, Pc, Waiting, Ticket
<1>8. pc[t] = "none"
  BY <1>6 DEF FreshOnes
<1>9. SlotsBalance'
  BY <1>4, <1>7, <1>8, SlotsKept DEF Sound, PipelineTypeOK, Active
<1>10. Begins(t)
  BY <1>3, <1>4, <1>5, <1>6, <1>7 DEF Begins, Writes
<1>11. ASSUME NEW u \in Ticket \ {t} PROVE Beside(u) /\ (u > created' => u > created)
  BY <1>3, <1>6, <1>7, <1>2, SameIsBeside DEF Ticket
<1> QED BY <1>6, <1>7, <1>9, <1>10, <1>11 DEF Sound

LEMMA LoseRunsDies ==
    ASSUME Sound, LoseRuns
    PROVE  Sound' /\ created' = created /\ \A u \in Ticket : Dies(u)
<1>1. /\ pc' = [t \in Ticket |-> IF Running(t) THEN "lost" ELSE pc[t]]
      /\ mem' = [t \in Ticket |-> Blank] /\ slots' = MaxConcurrent /\ paused' = FALSE
      /\ resolving' = [t \in Ticket |-> 0]
      /\ UNCHANGED <<row, created, goal, safe, github, mirror>>
  BY DEF LoseRuns, storeVars
<1>2. PipelineTypeOK'
  <2>1. pc' \in [Ticket -> Pc]
    BY <1>1 DEF Sound, PipelineTypeOK, Pc, Ended
  <2>2. mem' \in [Ticket -> Copy] /\ resolving' \in [Ticket -> Nat]
    BY <1>1 DEF Blank, Copy
  <2>3. slots' \in 0..MaxConcurrent
    <3>1. slots' = MaxConcurrent /\ MaxConcurrent \in Nat
      BY <1>1, PipelineAssumption
    <3> QED BY <3>1
  <2>4. paused' \in BOOLEAN
    BY <1>1
  <2> QED BY <1>1, <2>1, <2>2, <2>3, <2>4 DEF Sound, PipelineTypeOK, StoreTypeOK
<1>3. SlotsBalance'
  <2>1. Holding' = {}
    BY <1>1 DEF Holding, Active, Running, Waiting
  <2> QED BY <2>1, <1>1, FS_EmptySet, PipelineAssumption DEF SlotsBalance
<1> QED BY <1>1, <1>2, <1>3 DEF Sound, Dies

LEMMA SurroundingsStep ==
    ASSUME Sound, FreshOnes, Surroundings
    PROVE  /\ Sound'
           /\ \A u \in Ticket : (u > created' => u > created) /\ (Beside(u) \/ (Begins(u) /\ ~(u > created')))
<1>1. CASE Pause \/ Resume
  <2>1. paused' \in BOOLEAN /\ UNCHANGED <<row, created, pc, mem, goal, safe, slots, github, mirror, resolving>>
    BY <1>1 DEF Pause, Resume, storeVars, runVars, outsideVars
  <2>2. PipelineTypeOK' /\ SlotsBalance'
    BY <2>1, SlotsKept DEF Sound, PipelineTypeOK, StoreTypeOK
  <2> QED BY <2>1, <2>2 DEF Sound, Beside
<1>2. ASSUME NEW src \in Source, NEW k \in Key, NEW F \in SUBSET Fp, NewTicket(src, k, F)
      PROVE  /\ Sound'
             /\ \A u \in Ticket : (u > created' => u > created) /\ (Beside(u) \/ (Begins(u) /\ ~(u > created')))
  BY <1>2, NewTicketBegins
<1>3. ASSUME NEW S \in SUBSET ListOpen, Resolved(S, S) \/ Resolved(S, {})
      PROVE  Sound' /\ created' = created /\ \A u \in Ticket : Beside(u)
  BY <1>3, ResolvedBeside
<1>4. ASSUME NEW t \in Ticket, DeliverResolve(t) \/ Review(t)
      PROVE  Sound' /\ created' = created /\ \A u \in Ticket : Beside(u)
  BY <1>4, DeliverBeside, ReviewBeside
<1> QED BY <1>1, <1>2, <1>3, <1>4, TouchedBeside, ClockBeside DEF Surroundings

-----------------------------------------------------------------------------
(* What a ticket and a command rely on survives every step *)

OpTicket(t) ==
    /\ t > created => pc[t] = "none"
    /\ Underway(t) /\ Records(t) /\ Applies(t)
    /\ row[t].status = "fix_applied" => github[t] \in {"merged", "automerged"}

\* What the commands under way rely on is not taken back.
Forward(t) ==
    /\ pc[t] \notin Unlinked => pc'[t] \notin Unlinked
    /\ github[t] \in {"merged", "automerged"} => github'[t] \in {"merged", "automerged"}

LEMMA BesideKeeps ==
    ASSUME NEW t \in Ticket, OpTicket(t), Beside(t), t > created' => t > created
    PROVE  OpTicket(t)' /\ Forward(t)
<1>1. HasPR(t)' <=> HasPR(t)
  BY DEF Beside, HasPR
<1>2. Underway(t)'
  BY DEF OpTicket, Underway, Beside, OpenStatus, Closed
<1>3. Records(t)'
  BY <1>1 DEF OpTicket, Records, Beside, OpenStatus, Closed
<1>4. Applies(t)'
  BY DEF OpTicket, Applies, Beside
<1> QED BY <1>2, <1>3, <1>4 DEF OpTicket, Beside, Forward

LEMMA BeginsKeeps ==
    ASSUME NEW t \in Ticket, OpTicket(t), Begins(t), ~(t > created')
    PROVE  OpTicket(t)' /\ Forward(t)
<1>1. pc[t] = "none" /\ pc'[t] = "created" /\ ~HasPR(t) /\ ~HasPR(t)'
  BY DEF OpTicket, Records, Early, Begins, HasPR
<1>2. Underway(t)'
  BY <1>1 DEF Underway, Deciding, Linked
<1>3. Records(t)'
  BY <1>1 DEF Records, Begins, Linked
<1>4. Applies(t)'
  BY <1>1 DEF OpTicket, Applies, Begins
<1> QED BY <1>1, <1>2, <1>3, <1>4 DEF OpTicket, Begins, Forward, Unlinked, Early

LEMMA DiesKeeps ==
    ASSUME NEW t \in Ticket, pc[t] \in Pc, OpTicket(t), Dies(t), created' = created
    PROVE  OpTicket(t)' /\ Forward(t)
<1>1. (HasPR(t)' <=> HasPR(t)) /\ mem'[t].pr = FALSE
  BY DEF Dies, HasPR, Blank
<1>2. pc'[t] \in {"none"} \cup Ended /\ (pc'[t] = "lost" \/ pc'[t] = pc[t])
  BY DEF Dies, Running, Pc, Ended
<1>3. Underway(t)'
  BY <1>2 DEF Underway, Deciding, Linked, Ended
<1>4. Records(t)'
  BY <1>1, <1>2 DEF OpTicket, Records, Dies, Ended, Linked, Early, Unlinked, Waiting, Deciding
<1>5. Applies(t)'
  BY <1>2 DEF OpTicket, Applies, Dies, Ended
<1>6. t > created' => pc'[t] = "none"
  BY <1>2 DEF OpTicket, Dies, Running, Waiting, Active
<1> QED BY <1>2, <1>3, <1>4, <1>5, <1>6 DEF OpTicket, Dies, Forward, Unlinked, Early, Waiting, Deciding, Ended

\* The turns that leave the row and GitHub alone.
LEMMA QuietTurnKeeps ==
    ASSUME NEW t \in Ticket, OpTicket(t), created' = created, pc[t] # "none",
           Enters(t) \/ Fails(t) \/ Reloads(t) \/ Thinks(t) \/ Mirrors(t)
    PROVE  OpTicket(t)' /\ Forward(t)
<1>1. /\ row'[t] = row[t] /\ github'[t] = github[t] /\ (HasPR(t)' <=> HasPR(t))
      /\ ~(t > created')
  BY DEF OpTicket, Enters, Stays, RowStays, RestStays, Fails, Reloads, Thinks, Mirrors, HasPR
<1>2. Underway(t)'
  BY <1>1 DEF OpTicket, Underway, Enters, Stays, RestStays, Fails, Reloads, Thinks, Mirrors, StepTo,
              Deciding, Linked, Closed
<1>3. Records(t)'
  BY <1>1 DEF OpTicket, Records, Enters, Stays, RestStays, Fails, Reloads, Thinks, Mirrors, StepTo,
              Early, Unlinked, Waiting, Deciding, Linked
<1>4. Applies(t)'
  BY <1>1 DEF OpTicket, Applies, Records, Early, Waiting, Deciding, HasPR,
              Enters, Stays, Fails, Reloads, Thinks, Mirrors, StepTo
<1>5. Forward(t)
  BY <1>1 DEF Forward, Enters, Fails, Reloads, Thinks, Mirrors, StepTo, Early, Unlinked, Waiting, Deciding
<1> QED BY <1>1, <1>2, <1>3, <1>4, <1>5 DEF OpTicket

\* The turns that write the row.
LEMMA WritingTurnKeeps ==
    ASSUME NEW t \in Ticket, OpTicket(t), created' = created, pc[t] # "none",
           Marks(t) \/ Links(t) \/ LinksOnly(t) \/ Persists(t)
    PROVE  OpTicket(t)' /\ Forward(t)
<1>1. /\ github'[t] = github[t] /\ (HasPR(t)' <=> HasPR(t)) /\ goal'[t] = goal[t]
      /\ ~(t > created')
  BY DEF OpTicket, Marks, Links, LinksOnly, Persists, HasPR
<1>2. Underway(t)'
  BY <1>1 DEF OpTicket, Underway, Marks, Links, LinksOnly, Persists, StepTo, RowStays, Deciding, Linked, Closed
<1>3. Records(t)'
  BY <1>1 DEF OpTicket, Records, Underway, Marks, Links, LinksOnly, Persists, StepTo, RowStays,
              Early, Unlinked, Waiting, Deciding, Linked, Closed
<1>4. Applies(t)'
  BY <1>1 DEF OpTicket, Applies, Marks, Links, LinksOnly, Persists, StepTo
<1>5. row'[t].status = "fix_applied" => github'[t] \in {"merged", "automerged"}
  BY <1>1 DEF OpTicket, Applies, Marks, Links, LinksOnly, Persists, RowStays
<1>6. Forward(t)
  BY <1>1 DEF Forward, Marks, Links, LinksOnly, Persists, StepTo, Early, Unlinked, Waiting, Deciding
<1> QED BY <1>1, <1>2, <1>3, <1>4, <1>5, <1>6 DEF OpTicket

\* The turns that call GitHub.
LEMMA GitHubTurnKeeps ==
    ASSUME NEW t \in Ticket, OpTicket(t), created' = created, pc[t] # "none",
           Pushes(t) \/ Opens(t) \/ Merges(t)
    PROVE  OpTicket(t)' /\ Forward(t)
<1>1. row'[t] = row[t] /\ ~(t > created')
  BY DEF OpTicket, Pushes, Opens, Merges, RowStays
<1>2. CASE Pushes(t) \/ Opens(t)
  <2>1. ~HasPR(t) /\ pc[t] \in {"branch", "openPR"}
    BY <1>2 DEF OpTicket, Records, Early, Deciding, Pushes, Opens, StepTo
  <2>2. Underway(t)'
    BY <1>1, <1>2 DEF OpTicket, Underway, Pushes, Opens, StepTo, Deciding, Linked
  <2>3. Records(t)'
    BY <1>1, <1>2, <2>1 DEF OpTicket, Records, Pushes, Opens, StepTo, HasPR,
                            Early, Unlinked, Waiting, Deciding, Linked
  <2>4. Applies(t)'
    BY <1>2, <2>1 DEF OpTicket, Applies, Pushes, Opens, StepTo, HasPR
  <2> QED BY <1>1, <1>2, <2>1, <2>2, <2>3, <2>4 DEF OpTicket, Forward, Pushes, Opens, StepTo, HasPR,
                                                    Unlinked, Early, Deciding
<1>3. CASE Merges(t)
  <2>1. (HasPR(t)' <=> HasPR(t)) /\ goal[t] = "fix_proposed"
    BY <1>3 DEF OpTicket, Applies, Merges, StepTo, HasPR
  <2>2. Underway(t)'
    BY <1>3 DEF Underway, Merges, StepTo, Deciding, Linked
  <2>3. Records(t)'
    BY <1>1, <1>3, <2>1 DEF OpTicket, Records, Merges, StepTo, Early, Unlinked, Waiting, Deciding, Linked
  <2>4. Applies(t)'
    BY <1>3, <2>1 DEF OpTicket, Applies, Merges, StepTo
  <2> QED BY <1>1, <1>3, <2>2, <2>3, <2>4 DEF OpTicket, Forward, Merges, StepTo, Unlinked, Early, Waiting, Deciding
<1> QED BY <1>2, <1>3

LEMMA TurnKeeps ==
    ASSUME NEW t \in Ticket, OpTicket(t), created' = created, Turn(t)
    PROVE  OpTicket(t)' /\ Forward(t)
<1>1. pc[t] # "none"
  BY DEF Turn, Enters, Fails, Marks, Reloads, Thinks, Pushes, Opens, Links, LinksOnly, Persists, Mirrors,
         Merges, StepTo
<1> QED BY <1>1, QuietTurnKeeps, WritingTurnKeeps, GitHubTurnKeeps DEF Turn

Standing == Sound /\ \A t \in Ticket : OpTicket(t)

LEMMA FreshTickets == Standing => FreshOnes
BY DEF Standing, OpTicket, FreshOnes

LEMMA SurroundingsStand ==
    ASSUME Standing, Surroundings PROVE Standing' /\ \A t \in Ticket : Forward(t)
<1>1. /\ Sound'
      /\ \A u \in Ticket : (u > created' => u > created) /\ (Beside(u) \/ (Begins(u) /\ ~(u > created')))
  BY FreshTickets, SurroundingsStep DEF Standing
<1>2. ASSUME NEW u \in Ticket PROVE OpTicket(u)' /\ Forward(u)
  BY <1>1, BesideKeeps, BeginsKeeps DEF Standing
<1> QED BY <1>1, <1>2 DEF Standing

LEMMA RunStands ==
    ASSUME Standing, NEW t \in Ticket, PipelineStep(t) PROVE Standing' /\ \A u \in Ticket : Forward(u)
<1>1. Turned(t)
  BY RunTurns DEF Standing, OpTicket
<1>2. ASSUME NEW u \in Ticket PROVE OpTicket(u)' /\ Forward(u)
  <2>1. created' = created /\ (u # t => Same(u))
    BY <1>1 DEF Turned, Local
  <2>2. CASE u = t
    BY <1>1, <2>1, <2>2, TurnKeeps DEF Turned, Standing
  <2>3. CASE u # t
    BY <2>1, <2>3, SameIsBeside, BesideKeeps DEF Standing
  <2> QED BY <2>2, <2>3
<1> QED BY <1>1, <1>2 DEF Turned, Standing

LEMMA CrashStands ==
    ASSUME Standing, Crash PROVE Standing' /\ \A u \in Ticket : Forward(u)
<1>1. Sound' /\ created' = created /\ \A u \in Ticket : Dies(u)
  BY LoseRunsDies DEF Standing, Crash
<1>2. ASSUME NEW u \in Ticket PROVE OpTicket(u)' /\ Forward(u)
  <2>1. pc[u] \in Pc
    BY DEF Standing, Sound, PipelineTypeOK
  <2> QED BY <1>1, <2>1, DiesKeeps DEF Standing
<1> QED BY <1>1, <1>2 DEF Standing

\* Nothing at all happens to the pipeline.
LEMMA NothingStands ==
    ASSUME Standing, UNCHANGED pipelineVars PROVE Standing' /\ \A u \in Ticket : Forward(u)
<1>1. UNCHANGED <<row, created, pc, mem, goal, safe, slots, github, mirror, resolving, paused>>
  BY DEF pipelineVars, storeVars, runVars, outsideVars
<1>2. Sound'
  BY <1>1, SlotsKept DEF Standing, Sound, PipelineTypeOK, StoreTypeOK
<1>3. ASSUME NEW u \in Ticket PROVE OpTicket(u)' /\ Forward(u)
  <2>1. Beside(u)
    BY <1>1 DEF Beside
  <2> QED BY <1>1, <2>1, BesideKeeps DEF Standing
<1> QED BY <1>2, <1>3 DEF Standing

\* A command merges or closes a pull request that is open, or fails to.
LEMMA CallStands ==
    ASSUME Standing, NEW t \in Ticket, NEW s \in {"merged", "closed"}, OnGitHub,
           \/ github' = github
           \/ github[t] = "open" /\ (github' = [github EXCEPT ![t] = s] \/ GitHubFails(t, s))
    PROVE  Standing' /\ \A u \in Ticket : Forward(u)
<1>1. UNCHANGED <<row, created, pc, mem, goal, safe, slots, mirror, resolving, paused>>
  BY DEF OnGitHub, storeVars, runVars
<1>2. /\ github' \in [Ticket -> {"none", "branch", "open", "automerged", "merged", "closed"}]
      /\ github'[t] = github[t] \/ (github[t] = "open" /\ github'[t] = s)
      /\ \A u \in Ticket \ {t} : github'[u] = github[u]
  <2>1. CASE github' = github
    BY <2>1 DEF Standing, Sound, PipelineTypeOK
  <2>2. CASE github[t] = "open" /\ (github' = [github EXCEPT ![t] = s] \/ GitHubFails(t, s))
    BY <2>2, GitHubShows DEF Standing
  <2> QED BY <2>1, <2>2
<1>3. Sound'
  BY <1>1, <1>2, SlotsKept DEF Standing, Sound, PipelineTypeOK, StoreTypeOK
<1>4. ASSUME NEW u \in Ticket PROVE OpTicket(u)' /\ Forward(u)
  <2>1. Beside(u)
    BY <1>1, <1>2 DEF Beside
  <2> QED BY <1>1, <2>1, BesideKeeps DEF Standing
<1> QED BY <1>3, <1>4 DEF Standing

\* A command writes its copy of a row back.
LEMMA WriteStands ==
    ASSUME Standing, NEW t \in Ticket, NEW m \in Copy, Update(t, m),
           UNCHANGED <<created, outsideVars>>, Others,
           m.pr => pc[t] \notin Unlinked,
           \/ m.status = "suppressed"
           \/ m.status = "fix_applied" /\ m.pr /\ github[t] \in {"merged", "automerged"}
    PROVE  Standing' /\ \A u \in Ticket : Forward(u)
<1>1. UNCHANGED <<created, pc, mem, goal, safe, slots, github, mirror, resolving, paused>>
  BY DEF outsideVars, Others, runVars
<1>2. Writes(t, m.status, m.pr, row[t].took \cup {m.status})
  BY UpdateWrites DEF Standing, Sound, PipelineTypeOK, Status, OpenStatus, Closed
<1>3. Sound'
  BY <1>1, <1>2, SlotsKept DEF Standing, Sound, PipelineTypeOK, StoreTypeOK, Writes
<1>4. OpTicket(t)' /\ Forward(t)
  <2>1. /\ row'[t].status = m.status /\ row'[t].pr = m.pr /\ (HasPR(t)' <=> HasPR(t))
        /\ OpTicket(t) /\ m.pr \in BOOLEAN
    BY <1>1, <1>2 DEF Writes, HasPR, Standing, Copy
  <2>2. Underway(t)'
    BY <1>1, <2>1 DEF OpTicket, Underway, Unlinked, Early, Deciding, Closed
  <2>3. Records(t)'
    BY <1>1, <2>1 DEF OpTicket, Records, Closed
  <2>4. Applies(t)'
    BY <1>1, <2>1 DEF OpTicket, Applies
  <2> QED BY <1>1, <2>1, <2>2, <2>3, <2>4 DEF OpTicket, Forward
<1>5. ASSUME NEW u \in Ticket \ {t} PROVE OpTicket(u)' /\ Forward(u)
  <2>1. Same(u)
    BY <1>1, <1>2 DEF Writes, Same
  <2> QED BY <1>1, <2>1, SameIsBeside, BesideKeeps DEF Standing
<1> QED BY <1>3, <1>4, <1>5 DEF Standing

-----------------------------------------------------------------------------
(* The commands *)

Commanded ==
    /\ cmd \in [Request -> Command]
    /\ \A q \in Request : CommandSound(q)

\* What a command relies on stays while it waits.
LEMMA CommandWaits ==
    ASSUME NEW q \in Request, CommandSound(q), cmd'[q] = cmd[q], \A t \in Ticket : Forward(t)
    PROVE  CommandSound(q)'
<1> DEFINE t == cmd[q].ticket
<1>1. cmd[q].step # "idle" \/ cmd[q].copy.pr => t \in Ticket /\ Forward(t)
  BY DEF CommandSound
<1> QED BY <1>1 DEF CommandSound, Forward

\* One command goes on, beside the others.
LEMMA OneCommand ==
    ASSUME Commanded, NEW q \in Request, NEW c \in Command, cmd' = [cmd EXCEPT ![q] = c],
           \A t \in Ticket : Forward(t),
           CommandSound(q)'
    PROVE  Commanded'
<1>1. cmd' \in [Request -> Command] /\ \A p \in Request \ {q} : cmd'[p] = cmd[p]
  BY DEF Commanded
<1>2. ASSUME NEW p \in Request \ {q} PROVE CommandSound(p)'
  BY <1>1, CommandWaits DEF Commanded
<1> QED BY <1>1, <1>2 DEF Commanded

LEMMA IdleSound == ASSUME NEW q \in Request, cmd'[q] = NoCommand PROVE CommandSound(q)'
BY DEF CommandSound, NoCommand, Blank

LEMMA BeginStep ==
    ASSUME Standing, Commanded, NEW q \in Request, NEW t \in Ticket, NEW step \in {"merge", "close", "persist"},
           NEW copy \in Copy, Begin(q, t, step, copy),
           copy.pr = row[t].pr,
           step = "merge" => copy.pr,
           step = "persist" => copy.status = "suppressed"
    PROVE  Standing' /\ Commanded'
<1> DEFINE c == [step |-> step, ticket |-> t, copy |-> copy]
<1>1. Standing' /\ \A u \in Ticket : Forward(u)
  BY NothingStands DEF Begin
<1>2. c \in Command /\ c.step = step /\ c.ticket = t /\ c.copy = copy
  BY DEF Command
<1>3. cmd' = [cmd EXCEPT ![q] = c] /\ pc' = pc
  BY DEF Begin, pipelineVars, runVars
<1> HIDE DEF c
<1>4. cmd'[q] = c
  BY <1>3 DEF Commanded
<1>5. row[t].pr => pc[t] \notin Unlinked
  BY DEF Standing, OpTicket, Records
<1>6. CommandSound(q)'
  BY <1>2, <1>3, <1>4, <1>5 DEF CommandSound
<1> QED BY <1>1, <1>2, <1>3, <1>6, OneCommand

\* GitHub answered: the command goes on to write the status.
LEMMA AnsweredStep ==
    ASSUME Commanded, NEW q \in Request, NEW s \in {"suppressed", "fix_applied"}, Answered(q, s),
           cmd[q].step \in {"merge", "close"}, \A u \in Ticket : Forward(u),
           s = "fix_applied" => cmd[q].copy.pr /\ github'[cmd[q].ticket] = "merged"
    PROVE  Commanded'
<1> DEFINE c == [cmd[q] EXCEPT !.step = "persist", !.copy.status = s]
<1>1. cmd[q] \in Command /\ cmd[q].copy \in Copy /\ cmd[q].ticket \in Ticket
  BY DEF Commanded, Command, CommandSound
<1>2. /\ c \in Command /\ c.step = "persist" /\ c.ticket = cmd[q].ticket
      /\ c.copy.status = s /\ c.copy.pr = cmd[q].copy.pr
  BY <1>1 DEF Command, Copy, Status, OpenStatus, Closed
<1>3. cmd' = [cmd EXCEPT ![q] = c]
  BY DEF Answered
<1> HIDE DEF c
<1>4. cmd'[q] = c
  BY <1>3 DEF Commanded
<1>5. cmd[q].copy.pr => pc'[cmd[q].ticket] \notin Unlinked
  BY <1>1 DEF Commanded, CommandSound, Forward
<1>6. CommandSound(q)'
  BY <1>1, <1>2, <1>4, <1>5 DEF CommandSound
<1> QED BY <1>2, <1>3, <1>6, OneCommand

LEMMA GivesUpStep ==
    ASSUME Commanded, NEW q \in Request, cmd' = [cmd EXCEPT ![q] = NoCommand],
           \A u \in Ticket : Forward(u)
    PROVE  Commanded'
<1>1. NoCommand \in Command
  BY DEF NoCommand, Command, NoTicket, Blank, Copy
<1>2. cmd'[q] = NoCommand
  BY DEF Commanded
<1> QED BY <1>1, <1>2, IdleSound, OneCommand

LEMMA CommandKeeps ==
    ASSUME Standing, Commanded, NEW q \in Request, CommandStep(q)
    PROVE  Standing' /\ Commanded'
<1>1. ASSUME NEW t \in Ticket, Approve(q, t) \/ Reject(q, t) \/ Ignore(q, t)
      PROVE  Standing' /\ Commanded'
  <2> DEFINE g == Get(t)
             h == [g EXCEPT !.status = "suppressed"]
  <2>1. row[t] \in Row
    BY DEF Standing, Sound, PipelineTypeOK, StoreTypeOK
  <2>2. g \in Copy /\ g.pr = row[t].pr
    BY <2>1 DEF Get, Copy, Row
  <2>3. Approve(q, t) => g.pr /\ Begin(q, t, "merge", g)
    BY DEF Approve
  <2>4. Reject(q, t) => Begin(q, t, "close", h) \/ Begin(q, t, "persist", h)
    BY DEF Reject
  <2>5. Ignore(q, t) => Begin(q, t, "persist", h)
    BY DEF Ignore
  <2> HIDE DEF g
  <2>6. h \in Copy /\ h.pr = g.pr /\ h.status = "suppressed"
    BY <2>2 DEF Copy, Status, Closed
  <2> HIDE DEF h
  <2> QED BY <1>1, <2>2, <2>3, <2>4, <2>5, <2>6, BeginStep
<1> DEFINE t == cmd[q].ticket
<1>2. cmd[q].step # "idle" => t \in Ticket /\ cmd[q].copy \in Copy
  BY DEF Commanded, CommandSound, Command
<1>3. CASE ApproveMerges(q)
  <2>1. t \in Ticket /\ cmd[q].step = "merge" /\ cmd[q].copy.pr /\ OnGitHub
    BY <1>2, <1>3 DEF ApproveMerges, Commanded, CommandSound
  <2>2. CASE github[t] = "open" /\ github' = [github EXCEPT ![t] = "merged"] /\ Answered(q, "fix_applied")
    <3>1. Standing' /\ \A u \in Ticket : Forward(u)
      BY <2>1, <2>2, CallStands
    <3>2. github'[t] = "merged"
      BY <2>1, <2>2 DEF Standing, Sound, PipelineTypeOK
    <3> QED BY <2>1, <2>2, <3>1, <3>2, AnsweredStep
  <2>3. CASE /\ IF github[t] = "open" THEN GitHubFails(t, "merged") ELSE UNCHANGED github
             /\ cmd' = [cmd EXCEPT ![q] = NoCommand]
    <3>1. Standing' /\ \A u \in Ticket : Forward(u)
      BY <2>1, <2>3, CallStands
    <3> QED BY <2>3, <3>1, GivesUpStep
  <2> QED BY <1>3, <2>2, <2>3 DEF ApproveMerges
<1>4. CASE RejectCloses(q)
  <2>1. t \in Ticket /\ cmd[q].step = "close" /\ Answered(q, "suppressed") /\ OnGitHub
    BY <1>2, <1>4 DEF RejectCloses
  <2>2. Standing' /\ \A u \in Ticket : Forward(u)
    BY <1>4, <2>1, CallStands DEF RejectCloses
  <2> QED BY <2>1, <2>2, AnsweredStep
<1>5. CASE PersistCommand(q)
  <2>1. /\ t \in Ticket /\ cmd[q].copy \in Copy /\ cmd' = [cmd EXCEPT ![q] = NoCommand]
        /\ UNCHANGED <<created, outsideVars>> /\ Others
        /\ Update(t, cmd[q].copy) \/ row' = row
    BY <1>2, <1>5 DEF PersistCommand
  <2>2. Standing' /\ \A u \in Ticket : Forward(u)
    <3>1. CASE Update(t, cmd[q].copy)
      <4>1. /\ cmd[q].copy.pr => pc[t] \notin Unlinked
            /\ \/ cmd[q].copy.status = "suppressed"
               \/ /\ cmd[q].copy.status = "fix_applied" /\ cmd[q].copy.pr
                  /\ github[t] \in {"merged", "automerged"}
        BY <1>5 DEF PersistCommand, Commanded, CommandSound
      <4> QED BY <2>1, <3>1, <4>1, WriteStands
    <3>2. CASE row' = row
      BY <2>1, <3>2, NothingStands DEF pipelineVars, storeVars, Others
    <3> QED BY <2>1, <3>1, <3>2
  <2> QED BY <2>1, <2>2, GivesUpStep
<1> QED BY <1>1, <1>3, <1>4, <1>5 DEF CommandStep

-----------------------------------------------------------------------------
(* The theorems about the commands *)

LEMMA OperatorParts == OperatorInv <=> Standing /\ Commanded
BY DEF OperatorInv, OperatorTypeOK, Standing, Sound, OpTicket, Commanded, AppliedMeansMerged

LEMMA OperatorInitInv == OperatorInit => OperatorInv
<1> SUFFICES ASSUME OperatorInit PROVE Standing /\ Commanded
  BY OperatorParts
<1>1. Sound
  BY InitInv DEF OperatorInit, PipelineInv, Sound
<1>2. ASSUME NEW t \in Ticket PROVE OpTicket(t)
  <2>1. /\ pc[t] = "none" /\ mem[t].pr = FALSE /\ goal[t] = "escalated" /\ github[t] = "none"
        /\ row[t].status = "none" /\ row[t].pr = FALSE
    BY DEF OperatorInit, PipelineInit, StoreInit, RunInit, NoRow, Blank
  <2> QED BY <2>1 DEF OpTicket, Underway, Records, Applies, Deciding, Linked, HasPR
<1>3. Commanded
  <2>1. NoCommand \in Command
    BY DEF NoCommand, Command, NoTicket, Blank, Copy
  <2>2. cmd \in [Request -> Command] /\ \A q \in Request : cmd[q] = NoCommand
    BY <2>1 DEF OperatorInit
  <2>3. \A q \in Request : CommandSound(q)
    BY <2>2 DEF CommandSound, NoCommand, Blank
  <2> QED BY <2>2, <2>3 DEF Commanded
<1> QED BY <1>1, <1>2, <1>3 DEF Standing

LEMMA OperatorStep == OperatorInv /\ [OperatorNext]_operatorVars => OperatorInv'
<1> SUFFICES ASSUME OperatorInv, [OperatorNext]_operatorVars PROVE OperatorInv'
  OBVIOUS
<1>0. Standing /\ Commanded
  BY OperatorParts
<1>1. ASSUME Standing', \A t \in Ticket : Forward(t), cmd' = cmd PROVE Commanded'
  BY <1>0, <1>1, CommandWaits DEF Commanded
<1>2. ASSUME \E q \in Request : CommandStep(q) PROVE Standing' /\ Commanded'
  BY <1>0, <1>2, CommandKeeps
<1>3. ASSUME Surroundings /\ UNCHANGED cmd PROVE Standing' /\ Commanded'
  BY <1>0, <1>1, <1>3, SurroundingsStand
<1>4. ASSUME \E t \in Ticket : PipelineStep(t) /\ UNCHANGED cmd PROVE Standing' /\ Commanded'
  BY <1>0, <1>1, <1>4, RunStands
<1>5. ASSUME Crash /\ cmd' = [q \in Request |-> NoCommand] PROVE Standing' /\ Commanded'
  <2>1. cmd' \in [Request -> Command]
    BY <1>5 DEF NoCommand, Command, NoTicket, Blank, Copy
  <2>2. \A q \in Request : CommandSound(q)'
    BY <1>5, IdleSound
  <2> QED BY <1>0, <1>5, <2>1, <2>2, CrashStands DEF Commanded
<1>6. ASSUME UNCHANGED operatorVars PROVE Standing' /\ Commanded'
  BY <1>0, <1>1, <1>6, NothingStands DEF operatorVars
<1>7. Standing' /\ Commanded'
  BY <1>2, <1>3, <1>4, <1>5, <1>6 DEF OperatorNext
<1> QED BY <1>7 DEF OperatorInv, OperatorTypeOK, Standing, Sound, OpTicket, Commanded, AppliedMeansMerged

\* The invariant of the run with the commands, for any number of them at a time.
THEOREM OperatorInvariance == OperatorSpec => []OperatorInv
BY OperatorInitInv, OperatorStep, PTL DEF OperatorSpec

\* A ticket that says the fix is applied has a merged pull request, whoever raced
\* whom to approve, reject, review or merge it.
THEOREM AppliedOnlyWhenMerged == OperatorSpec => []AppliedMeansMerged
<1>1. OperatorInv => AppliedMeansMerged
  BY DEF OperatorInv
<1> QED BY <1>1, OperatorInvariance, PTL

\* A finished run leaves no proposed or applied fix whose pull request the row does
\* not know; it is escalated or closed, and what the run gave up on is not merged.
THEOREM OrphansAreEscalated == OperatorSpec => []OrphanPRIsEscalated
<1>1. OperatorInv => OrphanPRIsEscalated
  BY DEF OperatorInv, OrphanPRIsEscalated, Records, Applies
<1> QED BY <1>1, OperatorInvariance, PTL

\* No command under way ends by doing nothing.
LEMMA CommandsMove ==
    ASSUME Commanded, NEW q \in Request, CommandStep(q)
    PROVE  cmd' # cmd
<1>1. cmd \in [Request -> Command]
  BY DEF Commanded
<1>2. ASSUME NEW t \in Ticket, Approve(q, t) \/ Reject(q, t) \/ Ignore(q, t)
      PROVE  cmd' # cmd
  <2>1. PICK step \in {"merge", "close", "persist"} : \E copy : Begin(q, t, step, copy)
    BY <1>2 DEF Approve, Reject, Ignore
  <2>2. cmd[q].step = "idle" /\ cmd'[q].step = step
    BY <1>1, <2>1 DEF Begin, NoCommand
  <2> QED BY <2>2
<1>3. ASSUME NEW s \in {"suppressed", "fix_applied"}, Answered(q, s), cmd[q].step \in {"merge", "close"}
      PROVE  cmd' # cmd
  <2>1. cmd[q] \in Command
    BY <1>1
  <2>2. cmd'[q].step = "persist"
    BY <1>1, <1>3, <2>1 DEF Answered, Command
  <2> QED BY <1>3, <2>2
<1>4. ASSUME cmd' = [cmd EXCEPT ![q] = NoCommand], cmd[q].step \in {"merge", "persist"}
      PROVE  cmd' # cmd
  <2>1. cmd'[q].step = "idle"
    BY <1>1, <1>4 DEF NoCommand
  <2> QED BY <1>4, <2>1
<1>5. ASSUME ApproveMerges(q) PROVE cmd' # cmd
  BY <1>3, <1>4, <1>5 DEF ApproveMerges
<1>6. ASSUME RejectCloses(q) PROVE cmd' # cmd
  BY <1>3, <1>6 DEF RejectCloses
<1>7. ASSUME PersistCommand(q) PROVE cmd' # cmd
  BY <1>4, <1>7 DEF PersistCommand
<1> QED BY <1>2, <1>5, <1>6, <1>7 DEF CommandStep

\* What an operator suppressed after the run reloaded the ticket is not taken back by
\* the run, nor by anything but another command.
THEOREM SuppressedStays == OperatorSpec => SuppressionStands
<1> DEFINE Told(t) == /\ row[t].status = "suppressed" /\ mem[t].status # "suppressed"
                      /\ pc[t] \in Active \ {"start", "publish", "reload"}
                      /\ cmd' = cmd
<1>1. ASSUME OperatorInv, [OperatorNext]_operatorVars, NEW t \in Ticket, Told(t)
      PROVE  row'[t].status = "suppressed"
  <2>0. Standing /\ Commanded /\ FreshOnes
    BY <1>1, OperatorParts, FreshTickets
  <2>1. ASSUME Beside(t) PROVE row'[t].status = "suppressed"
    BY <1>1, <2>1 DEF Beside, OpenStatus
  <2>2. CASE UNCHANGED operatorVars
    BY <1>1, <2>2 DEF operatorVars, pipelineVars, storeVars
  <2>3. CASE \E q \in Request : CommandStep(q)
    BY <1>1, <2>0, <2>3, CommandsMove
  <2>4. CASE Surroundings
    <3>1. Beside(t) \/ Begins(t)
      BY <2>0, <2>4, SurroundingsStep DEF Standing
    <3>2. ~Begins(t)
      BY <1>1, <2>0 DEF Begins, FreshOnes, Active
    <3> QED BY <2>1, <3>1, <3>2
  <2>5. ASSUME NEW u \in Ticket, PipelineStep(u) PROVE row'[t].status = "suppressed"
    <3>1. Turned(u)
      BY <2>0, <2>5, RunTurns DEF Standing, OpTicket
    <3>2. CASE u # t
      BY <2>1, <3>1, <3>2, SameIsBeside DEF Turned, Local
    <3>3. CASE u = t
      <4>1. Turn(t)
        BY <3>1, <3>3 DEF Turned
      <4>2. ~Enters(t) /\ ~Marks(t)
        BY <1>1 DEF Enters, Marks, StepTo, Active
      <4> QED BY <1>1, <4>1, <4>2 DEF Turn, Fails, Reloads, Thinks, Pushes, Opens, Links, LinksOnly,
                  Persists, Mirrors, Merges, RowStays
    <3> QED BY <3>2, <3>3
  <2>6. CASE Crash
    BY <1>1, <2>6 DEF Crash, LoseRuns, storeVars
  <2> QED BY <1>1, <2>2, <2>3, <2>4, <2>5, <2>6 DEF OperatorNext
<1>2. OperatorInv /\ [OperatorNext]_operatorVars => [\A t \in Ticket : Told(t) => row'[t].status = "suppressed"]_operatorVars
  BY <1>1
<1>3. [][\A t \in Ticket : Told(t) => row'[t].status = "suppressed"]_operatorVars => SuppressionStands
  BY DEF SuppressionStands
<1> HIDE DEF Told
<1> QED BY <1>2, <1>3, OperatorInvariance, PTL DEF OperatorSpec

-----------------------------------------------------------------------------
(* The notices *)

Unannounceable(n) == n.excuse \cap {"quiet", "paged", "lost"} # {}

\* Nothing was said of the header yet.
Unsaid(n) == n \in Notice /\ n.heard = 0 /\ (n.held \/ Unannounceable(n))

\* At most one message carried it; if it is held all the same, that one was reported
\* as failed.
SaidOnce(n) ==
    /\ n \in Notice
    /\ n.heard = 0 \/ (n.heard = 1 /\ (n.held => "unsure" \in n.excuse))
    /\ n.held \/ n.heard > 0 \/ Unannounceable(n)

Over(n) ==
    /\ n \in Notice /\ ~n.held
    /\ n.heard > 1 => "unsure" \in n.excuse
    /\ n.heard = 0 => Unannounceable(n)

LEMMA UnsaidOnce == ASSUME NEW n, Unsaid(n) PROVE SaidOnce(n)
BY DEF Unsaid, SaidOnce

\* The notice a call leads to.
Becomes(m, held, heard, excuse) ==
    m \in Notice /\ m.held = held /\ m.heard = heard /\ m.excuse = excuse

LEMMA NoNoticeIs == Becomes(NoNotice, FALSE, 0, {})
BY DEF Becomes, NoNotice, Notice

LEMMA SameNotice ==
    ASSUME NEW m \in Notice, NEW n \in Notice, m.held = n.held, m.heard = n.heard, m.excuse = n.excuse
    PROVE  m = n
BY DEF Notice

LEMMA HeldBecomes == ASSUME NEW n \in Notice PROVE Becomes(HoldNewTicket(n), TRUE, n.heard, n.excuse)
BY DEF Becomes, Notice, HoldNewTicket

LEMMA DroppedBecomes == ASSUME NEW n \in Notice PROVE Becomes(DropNewTicket(n), FALSE, n.heard, n.excuse)
BY DEF Becomes, Notice, DropNewTicket

LEMMA HeardBecomes ==
    ASSUME NEW n \in Notice, n.heard + 1 \in 0..2 PROVE Becomes(Heard(n), FALSE, n.heard + 1, n.excuse)
BY DEF Becomes, Notice, Heard

LEMMA ExcusedBecomes ==
    ASSUME NEW n \in Notice, NEW why \in Excuse
    PROVE  Becomes(Excused(n, why), n.held, n.heard, n.excuse \cup {why})
BY DEF Becomes, Notice, Excused

LEMMA UnsureBecomes ==
    ASSUME NEW n \in Notice, n.heard + 1 \in 0..2
    PROVE  Becomes(Excused([n EXCEPT !.heard = @ + 1], "unsure"), n.held, n.heard + 1, n.excuse \cup {"unsure"})
<1> DEFINE m == [n EXCEPT !.heard = @ + 1]
<1>1. Becomes(m, n.held, n.heard + 1, n.excuse)
  BY DEF Becomes, Notice
<1>2. "unsure" \in Excuse
  BY DEF Excuse
<1> HIDE DEF m
<1>3. Becomes(Excused(m, "unsure"), m.held, m.heard, m.excuse \cup {"unsure"})
  BY <1>1, <1>2, ExcusedBecomes DEF Becomes
<1>4. Becomes(Excused(m, "unsure"), n.held, n.heard + 1, n.excuse \cup {"unsure"})
  BY <1>1, <1>3 DEF Becomes
<1> QED BY <1>4 DEF m

LEMMA AnnounceUnsaid == \A m \in Announce(NoNotice) : Unsaid(m)
<1>1. NoNotice \in Notice /\ NoNotice.heard = 0 /\ "quiet" \in Excuse
  BY NoNoticeIs DEF Becomes, Excuse
<1>2. Becomes(HoldNewTicket(NoNotice), TRUE, NoNotice.heard, NoNotice.excuse)
  BY <1>1, HeldBecomes
<1>3. Becomes(Excused(NoNotice, "quiet"), NoNotice.held, NoNotice.heard, NoNotice.excuse \cup {"quiet"})
  BY <1>1, ExcusedBecomes
<1> QED BY <1>1, <1>2, <1>3 DEF Announce, Unsaid, Unannounceable, Becomes

LEMMA SendSaysOnce == ASSUME NEW n, Unsaid(n) PROVE \A m \in sendWithHeader(n) : SaidOnce(m)
<1>1. n \in Notice /\ n.heard = 0 /\ n.heard + 1 = 1 /\ n.heard + 1 \in 0..2
  BY DEF Unsaid
<1>2. SaidOnce(Heard(n))
  <2>1. Heard(n) \in Notice /\ ~Heard(n).held /\ Heard(n).heard = 1
    BY <1>1, HeardBecomes DEF Becomes
  <2> QED BY <2>1 DEF SaidOnce
<1>3. SaidOnce(Excused([n EXCEPT !.heard = @ + 1], "unsure"))
  BY <1>1, UnsureBecomes DEF SaidOnce, Becomes
<1> QED BY <1>2, <1>3, UnsaidOnce DEF sendWithHeader

LEMMA DiagnosisSaysOnce == ASSUME NEW n, Unsaid(n) PROVE \A m \in SendDiagnosis(n) : SaidOnce(m)
BY SendSaysOnce, UnsaidOnce DEF SendDiagnosis

LEMMA PagedSaysOnce == ASSUME NEW n, Unsaid(n) PROVE SaidOnce(Excused(DropNewTicket(n), "paged"))
<1> DEFINE d == DropNewTicket(n)
<1>1. n \in Notice /\ "paged" \in Excuse /\ n.heard = 0
  BY DEF Unsaid, Excuse
<1>2. Becomes(d, FALSE, n.heard, n.excuse)
  BY <1>1, DroppedBecomes
<1> HIDE DEF d
<1>3. d \in Notice
  BY <1>2 DEF Becomes
<1>4. Becomes(Excused(d, "paged"), d.held, d.heard, d.excuse \cup {"paged"})
  BY <1>1, <1>3, ExcusedBecomes
<1>5. SaidOnce(Excused(d, "paged"))
  BY <1>1, <1>2, <1>4 DEF SaidOnce, Unannounceable, Becomes
<1> QED BY <1>5 DEF d

LEMMA FlushIsOver == ASSUME NEW n, SaidOnce(n) PROVE \A m \in FlushNewTicket(n) : Over(m)
<1>1. n \in Notice /\ "lost" \in Excuse /\ n.heard \in {0, 1}
  BY DEF SaidOnce, Excuse
<1>2. CASE ~n.held
  BY <1>1, <1>2 DEF FlushNewTicket, SaidOnce, Over
<1>3. CASE n.held
  <2>1. /\ n.heard + 1 \in 0..2 /\ n.heard + 1 # 0 /\ ~(n.heard > 1)
        /\ (n.heard + 1 > 1 => "unsure" \in n.excuse)
    BY <1>1, <1>3 DEF SaidOnce
  <2>2. Over(Heard(n))
    BY <1>1, <2>1, HeardBecomes DEF Over, Becomes
  <2>3. Over(Excused(DropNewTicket(n), "lost"))
    <3> DEFINE d == DropNewTicket(n)
    <3>1. Becomes(d, FALSE, n.heard, n.excuse)
      BY <1>1, DroppedBecomes
    <3> HIDE DEF d
    <3>2. d \in Notice
      BY <3>1 DEF Becomes
    <3>3. Becomes(Excused(d, "lost"), d.held, d.heard, d.excuse \cup {"lost"})
      BY <1>1, <3>2, ExcusedBecomes
    <3>4. Over(Excused(d, "lost"))
      BY <1>1, <2>1, <3>1, <3>3 DEF Over, Unannounceable, Becomes
    <3> QED BY <3>4 DEF d
  <2> QED BY <1>3, <2>2, <2>3 DEF FlushNewTicket
<1> QED BY <1>2, <1>3

Heralded(t) ==
    /\ notice[t] \in Notice
    /\ pc[t] \in {"none", "start"} \cup Waiting => notice[t] = NoNotice
    /\ pc[t] \in Active \ {"start", "persist", "giveUp", "mirror"} => Unsaid(notice[t])
    /\ pc[t] \in {"persist", "giveUp", "mirror"} => SaidOnce(notice[t])
    /\ pc[t] \in Ended => ~notice[t].held
    /\ pc[t] \in {"done", "aborted"} => Over(notice[t])
    /\ notice[t].heard > 1 => "unsure" \in notice[t].excuse

AllHeralded ==
    /\ OperatorTypeOK /\ notice \in [Ticket -> Notice]
    /\ \A t \in Ticket : t > created => pc[t] = "none"
    /\ \A t \in Ticket : Heralded(t)

LEMMA NotifierParts == NotifierInv <=> AllHeralded
<1>1. ASSUME NEW n \in Notice PROVE n.heard \in {0, 1, 2} /\ (n.heard > 0 <=> n.heard # 0)
                                   /\ (n.heard > 1 <=> n.heard = 2)
  BY DEF Notice
<1>2. ASSUME notice \in [Ticket -> Notice], NEW t \in Ticket
      PROVE  Heralded(t) <=> /\ Spoken(t)
                             /\ pc[t] \in Ended => ~notice[t].held
                             /\ pc[t] \in {"done", "aborted"} /\ notice[t].heard = 0
                                  => notice[t].excuse \cap {"quiet", "paged", "lost"} # {}
                             /\ notice[t].heard > 1 => "unsure" \in notice[t].excuse
  <2> DEFINE n == notice[t]
  <2>1. n \in Notice
    BY <1>2
  <2>2. n.heard \in {0, 1, 2} /\ (n.heard > 0 <=> n.heard # 0) /\ (n.heard > 1 <=> n.heard = 2)
    BY <1>1, <2>1
  <2> HIDE DEF n
  <2>3. pc[t] \in {"done", "aborted"} => pc[t] \in Ended /\ pc[t] \notin Active
    BY DEF Ended, Active
  <2>4. {"persist", "giveUp", "mirror"} \subseteq Active \ {"start"}
    BY DEF Active
  <2> QED BY <2>1, <2>2, <2>3, <2>4 DEF n, Heralded, Spoken, Unsaid, SaidOnce, Over, Unannounceable
<1> QED BY <1>2 DEF AllHeralded, NotifierInv, NotifierTypeOK, EveryRunIsAnnounced, AnnouncedOnce

LEMMA NotifierPartsNext == NotifierInv' <=> AllHeralded'
BY NotifierParts, PTL

\* What the run says in a step keeps the account of what it said.
LEMMA SpeakHeralds ==
    ASSUME NEW t \in Ticket, notice \in [Ticket -> Notice], Heralded(t), Turn(t), Speak(t)
    PROVE  /\ notice' \in [Ticket -> Notice] /\ Heralded(t)'
           /\ \A u \in Ticket \ {t} : notice'[u] = notice[u]
<1> DEFINE n == notice[t]
<1>1. PICK said \in Said(t, n) :
         \E m \in IF Returns(t) THEN FlushNewTicket(said) ELSE {said} : notice' = [notice EXCEPT ![t] = m]
  BY DEF Speak
<1>2. PICK m \in IF Returns(t) THEN FlushNewTicket(said) ELSE {said} : notice' = [notice EXCEPT ![t] = m]
  BY <1>1
<1>3. /\ pc[t] \in Active \ {"start"} => SaidOnce(n)
      /\ pc[t] \in Active \ {"start", "persist", "giveUp", "mirror"} => Unsaid(n)
      /\ pc[t] \in {"none", "start"} \cup Waiting => n = NoNotice
  BY UnsaidOnce DEF Heralded
<1>4. CASE Enters(t)
  <2>1. pc[t] \in {"created", "queued"} /\ pc'[t] \in {"skipped", "queued", "start"} /\ ~Returns(t)
    BY <1>4 DEF Enters, StepTo, Returns, Active
  <2>2. m = n /\ n = NoNotice
    BY <1>1, <1>2, <1>3, <2>1 DEF Said, Waiting
  <2>3. notice' = notice
    BY <1>2, <2>2
  <2>4. NoNotice.held = FALSE /\ NoNotice.heard = 0 /\ ~(0 > 1)
    BY DEF NoNotice
  <2> QED BY <2>1, <2>2, <2>3, <2>4 DEF Heralded, Waiting, Ended, Active
<1>5. ASSUME ~Enters(t)
      PROVE  /\ pc[t] \in Active
             /\ \/ pc'[t] \in Active \ {"start", "persist", "giveUp", "mirror"}
                  /\ pc[t] \notin {"persist", "giveUp", "mirror"}
                \/ pc'[t] \in {"persist", "giveUp"} /\ pc[t] \notin {"start", "persist", "giveUp", "mirror"}
                \/ pc'[t] = "mirror" /\ pc[t] \in {"persist", "giveUp"}
                \/ pc'[t] \in {"done", "aborted"}
  BY <1>5 DEF Turn, Fails, Marks, Reloads, Thinks, Pushes, Opens, Links, LinksOnly, Persists, Mirrors, Merges,
              StepTo, Active
<1>6. CASE ~Enters(t)
  <2>1. SaidOnce(said)
    <3>1. CASE pc[t] = "start"
      BY <1>1, <1>3, <3>1, AnnounceUnsaid, UnsaidOnce DEF Said
    <3>2. CASE pc[t] # "start"
      BY <1>1, <1>3, <1>5, <1>6, <3>2, SendSaysOnce, DiagnosisSaysOnce, PagedSaysOnce DEF Said, Active
    <3> QED BY <3>1, <3>2
  <2>2. CASE pc'[t] \in Active \ {"start", "persist", "giveUp", "mirror"}
    <3>1. pc[t] \notin {"persist", "giveUp", "mirror"} /\ ~Returns(t)
      BY <1>5, <1>6, <2>2 DEF Returns, Ended, Active
    <3>2. m = said /\ Unsaid(said)
      <4>1. CASE pc[t] = "start"
        BY <1>1, <1>2, <1>3, <3>1, <4>1, AnnounceUnsaid DEF Said
      <4>2. CASE pc[t] # "start"
        BY <1>1, <1>2, <1>3, <1>5, <1>6, <2>2, <3>1, <4>2 DEF Said, Active
      <4> QED BY <4>1, <4>2
    <3> QED BY <1>2, <2>2, <3>2 DEF Heralded, Unsaid, Waiting, Active, Ended
  <2>3. CASE pc'[t] \in {"persist", "giveUp", "mirror"}
    <3>1. m = said /\ m \in Notice /\ m.heard \in 0..1
      BY <1>2, <2>1, <2>3 DEF Returns, Ended, SaidOnce
    <3>2. notice'[t] = m /\ notice' \in [Ticket -> Notice] /\ ~(m.heard > 1)
      BY <1>2, <3>1
    <3> QED BY <1>2, <2>1, <2>3, <3>1, <3>2 DEF Heralded, Waiting, Active, Ended
  <2>4. CASE pc'[t] \in {"done", "aborted"}
    <3>1. Over(m) /\ m \in Notice
      BY <1>2, <1>5, <1>6, <2>1, <2>4, FlushIsOver DEF Returns, Ended, Over
    <3>2. notice'[t] = m /\ notice' \in [Ticket -> Notice]
      BY <1>2, <3>1
    <3> QED BY <1>2, <2>4, <3>1, <3>2 DEF Heralded, Over, Waiting, Active, Ended
  <2> QED BY <1>5, <1>6, <2>2, <2>3, <2>4 DEF Active
<1> QED BY <1>4, <1>6

\* Where the run of a ticket stays, so does the account.
LEMMA HeraldsStay ==
    ASSUME NEW t \in Ticket, Heralded(t), notice'[t] = notice[t],
           pc'[t] = pc[t] \/ (pc[t] = "none" /\ pc'[t] = "created")
    PROVE  Heralded(t)'
BY DEF Heralded, Waiting, Active, Ended

LEMMA HeadersLost ==
    ASSUME NEW t \in Ticket, notice \in [Ticket -> Notice], Heralded(t), Dies(t), pc[t] \in Pc, LoseHeaders
    PROVE  Heralded(t)'
<1> DEFINE n == notice[t]
           m == notice'[t]
<1>1. n \in Notice /\ m = DropNewTicket(n)
  BY DEF LoseHeaders
<1>2. m \in Notice /\ ~m.held /\ m.heard = n.heard /\ m.excuse = n.excuse
  BY <1>1, DroppedBecomes DEF Becomes
<1>3. n = NoNotice => m = NoNotice
  <2>1. NoNotice \in Notice /\ NoNotice.held = FALSE /\ m.held = FALSE
    BY <1>1, NoNoticeIs, DroppedBecomes DEF Becomes
  <2> QED BY <1>2, <2>1, SameNotice
<1>4. pc'[t] \in {"none"} \cup Ended /\ (pc'[t] = "lost" \/ pc'[t] = pc[t])
  BY DEF Dies, Running, Pc, Ended
<1>5. Over(n) => Over(m)
  BY <1>2 DEF Over, Unannounceable
<1>6. /\ n.heard > 1 => "unsure" \in n.excuse
      /\ pc[t] = "none" => n = NoNotice
      /\ pc[t] \in {"done", "aborted"} => Over(n)
  BY DEF Heralded
<1> HIDE DEF m, n
<1>7. /\ pc'[t] = "none" => m = NoNotice
      /\ pc'[t] \in {"done", "aborted"} => Over(m)
  BY <1>3, <1>4, <1>5, <1>6
<1>8. pc'[t] \notin {"start"} \cup Waiting \cup Active
  BY <1>4 DEF Ended, Waiting, Active
<1>9. m.heard > 1 => "unsure" \in m.excuse
  BY <1>2, <1>6
<1>10. Heralded(t)' <=>
         /\ m \in Notice
         /\ pc'[t] \in {"none", "start"} \cup Waiting => m = NoNotice
         /\ pc'[t] \in Active \ {"start", "persist", "giveUp", "mirror"} => Unsaid(m)
         /\ pc'[t] \in {"persist", "giveUp", "mirror"} => SaidOnce(m)
         /\ pc'[t] \in Ended => ~m.held
         /\ pc'[t] \in {"done", "aborted"} => Over(m)
         /\ m.heard > 1 => "unsure" \in m.excuse
  BY DEF m, Heralded
<1> QED BY <1>2, <1>7, <1>8, <1>9, <1>10 DEF Active

LEMMA NotifierStep == OperatorInv /\ NotifierInv /\ OperatorInv' /\ [NotifierNext]_notifierVars => NotifierInv'
<1> SUFFICES ASSUME OperatorInv, NotifierInv, OperatorInv', [NotifierNext]_notifierVars PROVE NotifierInv'
  OBVIOUS
<1>1. /\ Standing /\ notice \in [Ticket -> Notice] /\ \A t \in Ticket : Heralded(t)
      /\ pc \in [Ticket -> Pc]
  BY OperatorParts, NotifierParts DEF AllHeralded, Standing, Sound, PipelineTypeOK
<1> DEFINE Announced == notice' \in [Ticket -> Notice] /\ \A t \in Ticket : Heralded(t)'
<1>2. ASSUME notice' = notice, \A t \in Ticket : pc'[t] = pc[t] \/ (pc[t] = "none" /\ pc'[t] = "created")
      PROVE  Announced
  BY <1>1, <1>2, HeraldsStay
<1>3. ASSUME \E q \in Request : CommandStep(q) /\ UNCHANGED notice PROVE Announced
  <2>1. pc' = pc /\ notice' = notice
    BY <1>3 DEF CommandStep, Approve, Reject, Ignore, Begin, pipelineVars, runVars,
                ApproveMerges, RejectCloses, OnGitHub, PersistCommand, Others
  <2> QED BY <1>2, <2>1
<1>4. ASSUME Surroundings /\ UNCHANGED <<cmd, notice>> PROVE Announced
  <2>1. \A u \in Ticket : Beside(u) \/ Begins(u)
    BY <1>1, <1>4, FreshTickets, SurroundingsStep DEF Standing
  <2>2. \A u \in Ticket : pc'[u] = pc[u] \/ (pc[u] = "none" /\ pc'[u] = "created")
    BY <1>1, <2>1 DEF Beside, Begins, Standing, OpTicket
  <2> QED BY <1>2, <1>4, <2>2
<1>5. ASSUME NEW t \in Ticket, PipelineStep(t), Speak(t) PROVE Announced
  <2>1. Turned(t)
    BY <1>1, <1>5, RunTurns DEF Standing, OpTicket
  <2>2. /\ notice' \in [Ticket -> Notice] /\ Heralded(t)'
        /\ \A u \in Ticket \ {t} : notice'[u] = notice[u]
    BY <1>1, <1>5, <2>1, SpeakHeralds DEF Turned
  <2>3. ASSUME NEW u \in Ticket \ {t} PROVE Heralded(u)'
    <3>1. pc'[u] = pc[u]
      BY <2>1 DEF Turned, Local, Same
    <3> QED BY <1>1, <2>2, <3>1, HeraldsStay
  <2> QED BY <2>2, <2>3
<1>6. ASSUME Crash, LoseHeaders PROVE Announced
  <2>1. \A u \in Ticket : Dies(u)
    BY <1>1, <1>6, LoseRunsDies DEF Standing, Crash
  <2>2. \A u \in Ticket : Heralded(u)'
    BY <1>1, <1>6, <2>1, HeadersLost
  <2> QED BY <1>6, <2>2 DEF LoseHeaders, Heralded
<1>7. ASSUME UNCHANGED notifierVars PROVE Announced
  BY <1>2, <1>7 DEF notifierVars, operatorVars, pipelineVars, runVars
<1>8. Announced
  BY <1>3, <1>4, <1>5, <1>6, <1>7 DEF NotifierNext
<1>9. OperatorTypeOK' /\ \A t \in Ticket : (t > created => pc[t] = "none")'
  BY DEF OperatorInv
<1> QED BY <1>8, <1>9, NotifierPartsNext DEF AllHeralded

LEMMA NotifierInitInv == NotifierInit => NotifierInv
<1> SUFFICES ASSUME NotifierInit PROVE AllHeralded
  BY NotifierParts
<1>1. OperatorInv
  BY OperatorInitInv DEF NotifierInit
<1>2. NoNotice \in Notice /\ ~(NoNotice.heard > 1)
  BY DEF NoNotice, Notice
<1>3. \A t \in Ticket : pc[t] = "none" /\ notice[t] = NoNotice
  BY DEF NotifierInit, OperatorInit, PipelineInit, RunInit
<1> QED BY <1>1, <1>2, <1>3 DEF AllHeralded, OperatorInv, NotifierInit, Heralded, Active, Ended

LEMMA NotifierRefines == [NotifierNext]_notifierVars => [OperatorNext]_operatorVars
BY DEF NotifierNext, OperatorNext, notifierVars

\* The notifier reads the run and changes nothing of it: what is proved of the runs
\* beside the commands holds of the agent that also speaks.
THEOREM SpeakingChangesNothing == NotifierSpec => OperatorSpec
BY NotifierRefines, PTL DEF NotifierSpec, OperatorSpec, NotifierInit

THEOREM NotifierInvariance == NotifierSpec => []NotifierInv
BY NotifierInitInv, NotifierStep, SpeakingChangesNothing, OperatorInvariance, PTL DEF NotifierSpec

\* A run that returned holds no header back, and a ticket nobody heard of is one not
\* to be announced or one whose flush failed too, whatever calls fail and wherever
\* the run returned.
THEOREM AllAnnounced == NotifierSpec => []EveryRunIsAnnounced
<1>1. NotifierInv => EveryRunIsAnnounced
  BY DEF NotifierInv
<1> QED BY <1>1, NotifierInvariance, PTL

\* Only a send that arrived although it was reported as failed is repeated.
THEOREM NoneAnnouncedTwice == NotifierSpec => []AnnouncedOnce
<1>1. NotifierInv => AnnouncedOnce
  BY DEF NotifierInv
<1> QED BY <1>1, NotifierInvariance, PTL
=============================================================================
