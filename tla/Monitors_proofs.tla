--------------------------- MODULE Monitors_proofs ---------------------------
(***************************************************************************)
(* Proofs about AlertHandler and Poller: for any number of tickets, alerts *)
(* and workloads, and whatever the runs of Pipeline do meanwhile.          *)
(***************************************************************************)
EXTENDS Poller, Pipeline_proofs

-----------------------------------------------------------------------------
(* What each statement leaves of a row *)

\* The columns no statement changes, and what the others may become.
Keeps(t) ==
    /\ row'[t].key = row[t].key /\ row'[t].source = row[t].source
    /\ row[t].took \subseteq row'[t].took

LEMMA TakesFields ==
    ASSUME NEW r \in Row, NEW s \in Status
    PROVE  /\ Takes(r, s) \in Row
           /\ Takes(r, s).key = r.key /\ Takes(r, s).source = r.source
           /\ Takes(r, s).fps = r.fps /\ Takes(r, s).age = 0
           /\ Takes(r, s).status = s
           /\ Takes(r, s).took = r.took \cup {s}
<1> DEFINE T == r.took \cup {s}
<1>1. Takes(r, s) = [r EXCEPT !.status = s, !.age = 0, !.took = T]
  BY DEF Takes
<1>2. T \in SUBSET Status
  BY DEF Row
<1> HIDE DEF T
<1>3. LET q == [r EXCEPT !.status = s, !.age = 0, !.took = T]
      IN  /\ q \in Row /\ q.key = r.key /\ q.source = r.source /\ q.fps = r.fps
          /\ q.age = 0 /\ q.status = s /\ q.took = T
  BY <1>2, ZeroAge DEF Row
<1> QED BY <1>1, <1>3 DEF T

\* What a statement of a run does to the row of its ticket.
RunWrites(t) ==
    /\ \A u \in Ticket \ {t} : row'[u] = row[u]
    /\ Keeps(t) /\ row'[t].age = 0
    /\ row'[t].status \in {row[t].status, "analyzing", "escalated", "fix_proposed", "fix_applied"}
    /\ pc[t] # "start" => row'[t].fps = row[t].fps

LEMMA WriteOfRun ==
    ASSUME StoreTypeOK, NEW t \in Ticket, NEW r \in Row, Write(t, r),
           r.key = row[t].key, r.source = row[t].source, r.age = 0,
           row[t].took \subseteq r.took, pc[t] # "start" => r.fps = row[t].fps,
           r.status \in {row[t].status, "analyzing", "escalated", "fix_proposed", "fix_applied"}
    PROVE  RunWrites(t)
BY DEF StoreTypeOK, Write, RunWrites, Keeps

\* Every step of a run writes its own row or none, and never closes it.
LEMMA RunStepRow ==
    ASSUME PipelineInv, NEW t \in Ticket, RunStep(t)
    PROVE  created' = created /\ (row' = row \/ RunWrites(t))
<1>0. StoreTypeOK /\ row[t] \in Row /\ TicketInv(t) /\ mem[t] \in Copy /\ goal[t] \in Status
  BY DEF PipelineInv, PipelineTypeOK, StoreTypeOK
<1>1. CASE MarkAnalyzing(t) /\ ~StoreFails(t)
  <2> DEFINE m == [mem[t] EXCEPT !.status = "analyzing"]
             q == Takes(row[t], m.status)
             r == [q EXCEPT !.fps = m.fps, !.pr = m.pr, !.cooling = FALSE]
  <2>1. m \in Copy /\ m.status = "analyzing" /\ m.status \in Status
    BY <1>0 DEF Copy, Status, OpenStatus
  <2>2. Write(t, r) /\ created' = created /\ pc[t] = "start"
    BY <1>1 DEF MarkAnalyzing, Update
  <2> HIDE DEF m
  <2>3. /\ q \in Row /\ q.key = row[t].key /\ q.source = row[t].source /\ q.age = 0
        /\ q.status = "analyzing" /\ row[t].took \subseteq q.took
    BY <1>0, <2>1, TakesFields
  <2> HIDE DEF q
  <2>4. /\ r \in Row /\ r.key = row[t].key /\ r.source = row[t].source /\ r.age = 0
        /\ r.status = "analyzing" /\ row[t].took \subseteq r.took
    BY <2>1, <2>3 DEF Row, Copy
  <2> HIDE DEF r
  <2> QED BY <1>0, <2>2, <2>4, WriteOfRun
<1>2. CASE Link(t) /\ ~StoreFails(t)
  <2>1. /\ RecordPRLinkage(t, mem[t].status, goal[t], mem[t].pr) /\ created' = created
        /\ pc[t] = "link"
    BY <1>2 DEF Link
  <2>2. goal[t] \in {"fix_proposed", "fix_applied"}
    BY <1>0, <2>1 DEF TicketInv, Progress
  <2> DEFINE q == Takes(row[t], goal[t])
             r == [q EXCEPT !.pr = mem[t].pr]
  <2>3. /\ q \in Row /\ q.key = row[t].key /\ q.source = row[t].source /\ q.age = 0
        /\ q.fps = row[t].fps /\ q.status = goal[t] /\ row[t].took \subseteq q.took
    BY <1>0, TakesFields
  <2> HIDE DEF q
  <2>4. mem[t].pr \in BOOLEAN
    BY <1>0 DEF Copy
  <2>5. /\ r \in Row /\ r.key = row[t].key /\ r.source = row[t].source /\ r.age = 0
        /\ r.fps = row[t].fps /\ r.status = goal[t] /\ row[t].took \subseteq r.took
    BY <2>3, <2>4 DEF Row
  <2>6. row' = row \/ Write(t, r)
    BY <2>1 DEF RecordPRLinkage, q
  <2> HIDE DEF r
  <2> QED BY <1>0, <2>1, <2>2, <2>5, <2>6, WriteOfRun
<1>3. CASE LinkOnly(t) /\ ~StoreFails(t)
  <2>1. RecordPRCoordinates(t, mem[t].pr) /\ created' = created
    BY <1>3 DEF LinkOnly
  <2> DEFINE r == [row[t] EXCEPT !.pr = mem[t].pr, !.age = 0]
  <2>2. Write(t, r)
    BY <2>1 DEF RecordPRCoordinates
  <2>3. mem[t].pr \in BOOLEAN
    BY <1>0 DEF Copy
  <2>4. /\ r \in Row /\ r.key = row[t].key /\ r.source = row[t].source /\ r.age = 0
        /\ r.fps = row[t].fps /\ r.status = row[t].status /\ r.took = row[t].took
    BY <1>0, <2>3, ZeroAge DEF Row
  <2> HIDE DEF r
  <2> QED BY <1>0, <2>1, <2>2, <2>4, WriteOfRun
<1>4. CASE Persist(t) /\ ~StoreFails(t)
  <2>1. /\ SetDiagnosisFromStatus(t, mem[t].status, goal[t]) /\ created' = created
        /\ pc[t] \in {"persist", "giveUp"}
    BY <1>4 DEF Persist
  <2>2. goal[t] \in {"escalated", "fix_proposed"}
    BY <1>0, <2>1 DEF TicketInv, Progress
  <2> DEFINE q == Takes(row[t], goal[t])
  <2>3. /\ q \in Row /\ q.key = row[t].key /\ q.source = row[t].source /\ q.age = 0
        /\ q.fps = row[t].fps /\ q.status = goal[t] /\ row[t].took \subseteq q.took
    BY <1>0, TakesFields
  <2>4. row' = row \/ Write(t, q)
    BY <2>1 DEF SetDiagnosisFromStatus
  <2> HIDE DEF q
  <2> QED BY <1>0, <2>1, <2>2, <2>3, <2>4, WriteOfRun
<1>5. CASE StoreFails(t)
  BY <1>5 DEF StoreFails, storeVars
<1>6. \/ row' = row /\ created' = created
      \/ MarkAnalyzing(t) \/ Link(t) \/ LinkOnly(t) \/ Persist(t)
  BY Zenon DEF RunStep, PublishAlert, Reload, StoreFails, NoDiagnosis, Diagnosed, SyncDiagnosis, Advise,
         Suggest, StartFix, FixStops, FixReady, CheckLimits, PushBranch, OpenPR, MirrorPR, MergePR,
         Mirror, storeVars
<1> QED BY <1>1, <1>2, <1>3, <1>4, <1>5, <1>6

\* A resolve statement.
LEMMA ResolveKeeps ==
    ASSUME StoreTypeOK, NEW S \in SUBSET Ticket, ResolveRows(S)
    PROVE  /\ \A t \in Ticket \ S : row'[t] = row[t]
           /\ \A t \in S : Keeps(t) /\ row'[t].fps = row[t].fps /\ row'[t].age = 0
                           /\ row'[t].status = "resolved" /\ "resolved" \in row'[t].took
<1>1. ASSUME NEW t \in Ticket
      PROVE LET r == [Takes(row[t], "resolved") EXCEPT !.cooling = FlapCooldown] IN
             /\ r.key = row[t].key /\ r.source = row[t].source /\ r.fps = row[t].fps /\ r.age = 0
             /\ r.status = "resolved" /\ r.took = row[t].took \cup {"resolved"}
  <2> DEFINE q == Takes(row[t], "resolved")
  <2>1. /\ q \in Row /\ q.key = row[t].key /\ q.source = row[t].source /\ q.fps = row[t].fps
        /\ q.age = 0 /\ q.status = "resolved" /\ q.took = row[t].took \cup {"resolved"}
    BY TakesFields DEF StoreTypeOK, Status, Closed
  <2> HIDE DEF q
  <2>2. LET r == [q EXCEPT !.cooling = FlapCooldown] IN
         /\ r.key = q.key /\ r.source = q.source /\ r.fps = q.fps /\ r.age = q.age
         /\ r.status = q.status /\ r.took = q.took
    BY <2>1 DEF Row
  <2> QED BY <2>1, <2>2 DEF q
<1> DEFINE r(t) == [Takes(row[t], "resolved") EXCEPT !.cooling = FlapCooldown]
<1>2. row' = [t \in Ticket |-> IF t \in S THEN r(t) ELSE row[t]]
  BY DEF ResolveRows
<1>3. ASSUME NEW t \in Ticket
      PROVE /\ r(t).key = row[t].key /\ r(t).source = row[t].source /\ r(t).fps = row[t].fps
            /\ r(t).age = 0 /\ r(t).status = "resolved" /\ r(t).took = row[t].took \cup {"resolved"}
  BY <1>1
<1> HIDE DEF r
<1> QED BY <1>2, <1>3 DEF Keeps

\* The heartbeat.
LEMMA TouchKeeps ==
    ASSUME StoreTypeOK, NEW t \in Ticket, NEW F \in SUBSET Fp, TouchWithFingerprint(t, F)
    PROVE  /\ \A u \in Ticket \ {t} : row'[u] = row[u]
           /\ Keeps(t) /\ row'[t].status = row[t].status /\ row'[t].took = row[t].took
           /\ row'[t].age = 0 /\ row'[t].fps = row[t].fps \cup F
<1> DEFINE G == row[t].fps \cup F
           r == [row[t] EXCEPT !.age = 0, !.fps = G]
<1>1. /\ r.key = row[t].key /\ r.source = row[t].source /\ r.status = row[t].status
      /\ r.took = row[t].took /\ r.age = 0 /\ r.fps = G
  BY RowType DEF Row
<1>2. Write(t, r)
  BY DEF TouchWithFingerprint
<1> HIDE DEF r
<1> QED BY <1>1, <1>2 DEF Write, Keeps, StoreTypeOK

\* The columns that age.
LEMMA ClockKeeps ==
    ASSUME StoreTypeOK, NEW t \in Ticket, NEW pinned \in BOOLEAN,
           Grow(t, pinned) \/ CooldownEnds(t)
    PROVE  /\ \A u \in Ticket \ {t} : row'[u] = row[u]
           /\ Keeps(t) /\ row'[t].status = row[t].status /\ row'[t].took = row[t].took
           /\ row'[t].fps = row[t].fps
           /\ row'[t].age = row[t].age \/ ~pinned \/ row'[t].age <= Settled
<1>0. row[t] \in Row
  BY RowType
<1>1. CASE Grow(t, pinned)
  <2> DEFINE r == [row[t] EXCEPT !.age = @ + 1]
  <2>1. /\ r.key = row[t].key /\ r.source = row[t].source /\ r.status = row[t].status
        /\ r.took = row[t].took /\ r.age = row[t].age + 1 /\ r.fps = row[t].fps
    BY <1>0 DEF Row
  <2>2. ~pinned \/ row[t].age + 1 <= Settled
    BY <1>0, <1>1, StoreAssumption DEF Grow, Row, Age, Settled
  <2>3. Write(t, r)
    BY <1>1 DEF Grow
  <2> HIDE DEF r
  <2> QED BY <2>1, <2>2, <2>3 DEF Write, Keeps, StoreTypeOK
<1>2. CASE CooldownEnds(t)
  <2> DEFINE r == [row[t] EXCEPT !.cooling = FALSE]
  <2>1. /\ r.key = row[t].key /\ r.source = row[t].source /\ r.status = row[t].status
        /\ r.took = row[t].took /\ r.age = row[t].age /\ r.fps = row[t].fps
    BY <1>0 DEF Row
  <2>2. Write(t, r)
    BY <1>2 DEF CooldownEnds
  <2> HIDE DEF r
  <2> QED BY <2>1, <2>2 DEF Write, Keeps, StoreTypeOK
<1> QED BY <1>1, <1>2

\* Store.Create.
LEMMA InsertKeeps ==
    ASSUME PipelineInv, NEW src \in Source, NEW k \in Key, NEW F \in SUBSET Fp, NewTicket(src, k, F)
    PROVE  /\ created + 1 \in Ticket /\ created' = created + 1
           /\ Existing' = Existing \cup {created + 1} /\ created + 1 \notin Existing
           /\ \A t \in Ticket \ {created + 1} : row'[t] = row[t] /\ pc'[t] = pc[t]
           /\ pc'[created + 1] = "created"
           /\ row'[created + 1] = [status |-> "open", source |-> src, key |-> k, fps |-> F,
                                   pr |-> FALSE, age |-> 0, cooling |-> FALSE, took |-> {"open"}]
<1>1. StoreTypeOK /\ created \in 0..MaxTicket /\ pc \in [Ticket -> Pc] /\ MaxTicket \in Nat
  BY StoreAssumption DEF PipelineInv, PipelineTypeOK, StoreTypeOK
<1>2. Insert(src, k, F) /\ pc' = [pc EXCEPT ![created + 1] = "created"]
  BY DEF NewTicket
<1>3. created + 1 \in Ticket /\ created' = created + 1
  BY <1>1, <1>2, InsertWrites
<1>4. Existing' = Existing \cup {created + 1} /\ created + 1 \notin Existing
  BY <1>1, <1>3 DEF Existing
<1> QED BY <1>1, <1>2, <1>3, <1>4 DEF Insert, Write, StoreTypeOK

-----------------------------------------------------------------------------
(* What a step of the pipeline or of its environment leaves of the tickets *)

LEMMA OpenTickets == PipelineInv => ListOpen \subseteq Ticket /\ ListOpen \subseteq Existing
BY ExistingTickets DEF ListOpen

Survives(t) == Keeps(t) /\ Begun(t)' /\ (pc[t] # "start" => row[t].fps \subseteq row'[t].fps)

LEMMA Untouched ==
    ASSUME NEW t, Begun(t), row'[t] = row[t] PROVE Survives(t)
BY DEF Survives, Keeps, Begun

LEMMA StepKeeps ==
    ASSUME PipelineInv, \A t \in Existing : Begun(t), [PipelineNext]_pipelineVars
    PROVE  /\ created <= created' /\ Existing \subseteq Existing'
           /\ \A t \in Existing : Survives(t)
           /\ \A t \in Existing' : Begun(t)'
<1>0. /\ StoreTypeOK /\ created \in 0..MaxTicket /\ Existing \subseteq Ticket
  BY ExistingTickets DEF PipelineInv, PipelineTypeOK, StoreTypeOK
<1>1. ASSUME created' = created, \A t \in Existing : Survives(t)
      PROVE  /\ created <= created' /\ Existing \subseteq Existing'
             /\ \A t \in Existing' : Begun(t)'
  BY <1>0, <1>1 DEF Existing, Survives
<1>2. CASE row' = row /\ created' = created
  BY <1>1, <1>2, Untouched
<1>3. ASSUME NEW src \in Source, NEW k \in Key, NEW F \in SUBSET Fp, NewTicket(src, k, F)
      PROVE  /\ created <= created' /\ Existing \subseteq Existing'
             /\ \A t \in Existing : Survives(t)
             /\ \A t \in Existing' : Begun(t)'
  <2>1. PICK n \in Ticket : n = created + 1
    BY <1>3, InsertKeeps
  <2>2. /\ created' = n /\ Existing' = Existing \cup {n} /\ n \notin Existing
        /\ \A t \in Ticket \ {n} : row'[t] = row[t]
        /\ row'[n] = [status |-> "open", source |-> src, key |-> k, fps |-> F,
                      pr |-> FALSE, age |-> 0, cooling |-> FALSE, took |-> {"open"}]
    BY <1>3, <2>1, InsertKeeps
  <2>3. \A t \in Existing : Survives(t)
    BY <1>0, <2>2, Untouched
  <2>4. Begun(n)'
    BY <2>2 DEF Begun, OpenStatus
  <2> QED BY <1>0, <2>1, <2>2, <2>3, <2>4 DEF Survives
<1>4. CASE Touched
  <2>1. PICK u \in Existing, F \in SUBSET Fp : TouchWithFingerprint(u, F)
    BY <1>4 DEF Touched
  <2>2. /\ \A t \in Ticket \ {u} : row'[t] = row[t]
        /\ Keeps(u) /\ row'[u].status = row[u].status /\ row'[u].fps = row[u].fps \cup F
    BY <1>0, <2>1, TouchKeeps
  <2>3. Survives(u)
    BY <2>2 DEF Survives, Begun
  <2> QED BY <1>0, <1>1, <1>4, <2>2, <2>3, Untouched DEF Touched
<1>5. ASSUME NEW S \in SUBSET ListOpen, NEW ids, Resolved(S, ids)
      PROVE  created' = created /\ \A t \in Existing : Survives(t)
  <2>1. ResolveRows(S) /\ S \in SUBSET Ticket /\ created' = created
    BY <1>5, OpenTickets DEF Resolved
  <2>2. /\ \A t \in Ticket \ S : row'[t] = row[t]
        /\ \A t \in S : Keeps(t) /\ row'[t].fps = row[t].fps /\ row'[t].status = "resolved"
    BY <1>0, <2>1, ResolveKeeps
  <2>3. \A t \in S : Survives(t)
    BY <2>2 DEF Survives, Begun
  <2> QED BY <1>0, <2>1, <2>2, <2>3, Untouched
<1>6. CASE Clock
  <2>1. PICK u \in Existing : Grow(u, pc[u] \in Active) \/ CooldownEnds(u)
    BY <1>6 DEF Clock
  <2> DEFINE b == pc[u] \in Active
  <2>2. b \in BOOLEAN /\ (Grow(u, b) \/ CooldownEnds(u)) /\ u \in Ticket
    BY <1>0, <2>1
  <2> HIDE DEF b
  <2>3. /\ \A t \in Ticket \ {u} : row'[t] = row[t]
        /\ Keeps(u) /\ row'[u].status = row[u].status /\ row'[u].fps = row[u].fps
    BY <1>0, <2>2, ClockKeeps
  <2>4. Survives(u)
    BY <2>3 DEF Survives, Begun
  <2> QED BY <1>0, <1>1, <1>6, <2>3, <2>4, Untouched DEF Clock
<1>7. ASSUME NEW u \in Ticket, RunStep(u)
      PROVE  created' = created /\ \A t \in Existing : Survives(t)
  <2>1. CASE RunWrites(u)
    <3>1. ASSUME u \in Existing PROVE Survives(u)
      BY <2>1, <3>1 DEF RunWrites, Survives, Begun, OpenStatus
    <3> QED BY <1>0, <1>7, <2>1, <3>1, RunStepRow, Untouched DEF RunWrites
  <2> QED BY <1>7, <2>1, RunStepRow, Untouched
<1>8. CASE UNCHANGED pipelineVars \/ (\E t \in Ticket : DeliverResolve(t) \/ Review(t))
           \/ Pause \/ Resume \/ Crash
  <2>1. row' = row /\ created' = created
    BY <1>8 DEF pipelineVars, DeliverResolve, Review, Pause, Resume, Crash, LoseRuns, storeVars
  <2> QED BY <1>2, <2>1
<1>9. ASSUME NEW t \in Ticket, ProcessTicket(t) \/ AcquireSem(t) PROVE row' = row /\ created' = created
  BY <1>9 DEF ProcessTicket, AcquireSem, storeVars
<1> QED BY <1>1, <1>2, <1>3, <1>4, <1>5, <1>6, <1>7, <1>8, <1>9
        DEF PipelineNext, PipelineStep, Environment, Surroundings

-----------------------------------------------------------------------------
(* The webhook is an environment of the pipeline *)

LEMMA ResolvedIsPipeline ==
    ASSUME PipelineInv, NEW S \in SUBSET ListOpen, NEW ids, Resolved(S, ids),
           ids = S \/ ("store" \in Faults /\ ids = {})
    PROVE  [PipelineNext]_pipelineVars
<1>1. CASE S # {}
  BY <1>1 DEF PipelineNext, Environment, Surroundings
<1>2. CASE S = {}
  <2>1. row' = [t \in Ticket |-> row[t]]
    BY <1>2 DEF Resolved, ResolveRows
  <2>2. resolving' = [t \in Ticket |-> resolving[t]]
    BY <1>2 DEF Resolved
  <2>3. row' = row /\ resolving' = resolving
    BY <2>1, <2>2 DEF PipelineInv, PipelineTypeOK, StoreTypeOK
  <2> QED BY <2>3 DEF Resolved, Others, pipelineVars, storeVars, runVars, outsideVars
<1> QED BY <1>1, <1>2

\* What a goroutine past processAlert's look-up holds.
LEMMA CurIsAlert ==
    ASSUME AlertInv, NEW h \in Handler, job[h].step \in {"touch", "flap", "create", "handoff"}
    PROVE  /\ KeyOfCur(h) \in Key /\ job[h].cur \in SUBSET Fp
           /\ \E f \in Fp : job[h].cur = {f} /\ KeyOfCur(h) = KeyOf[f]
<1>1. PICK f \in Fp : job[h].cur = {f}
  BY DEF AlertInv, JobSound
<1>2. (CHOOSE g \in Fp : job[h].cur = {g}) = f
  BY <1>1
<1>3. KeyOf \in [Fp -> Key]
  BY AlertAssumption
<1> QED BY <1>1, <1>2, <1>3 DEF KeyOfCur

LEMMA ClosableTickets ==
    ASSUME PipelineInv, \A t \in Existing : Begun(t), NEW w, NEW f, NEW n
    PROVE  ResolveByTenantService(w, f, n) \in SUBSET ListOpen
BY DEF ResolveByTenantService, ListOpen, IsClosed, Begun, Closed

LEMMA HandlerIsPipeline ==
    ASSUME AlertInv, NEW h \in Handler, HandlerStep(h)
    PROVE  [PipelineNext]_pipelineVars
<1>0. PipelineInv /\ JobSound(h) /\ Existing \subseteq Ticket /\ \A t \in Existing : Begun(t)
  BY ExistingTickets DEF AlertInv
<1>1. CASE UNCHANGED pipelineVars
  BY <1>1
<1>2. ASSUME NEW a, ResolveTickets(h, a) PROVE [PipelineNext]_pipelineVars
  <2> DEFINE S == ResolveByTenantService(KeyOf[a.fp][1], a.fp, a.ends)
  <2>1. S \in SUBSET ListOpen
    BY <1>0, ClosableTickets
  <2>2. Resolved(S, S) \/ ("store" \in Faults /\ Resolved(S, {})) \/ NoStore
    BY <1>2 DEF ResolveTickets
  <2> HIDE DEF S
  <2> QED BY <1>0, <2>1, <2>2, ResolvedIsPipeline DEF NoStore
<1>3. CASE TouchDuplicate(h)
  <2>1. job[h].ticket \in Existing /\ job[h].cur \in SUBSET Fp
    BY <1>0, <1>3, CurIsAlert DEF TouchDuplicate, JobSound
  <2> QED BY <1>3, <2>1
          DEF TouchDuplicate, NoStore, Touched, PipelineNext, Environment, Surroundings
<1>4. CASE CreateTicket(h)
  <2>1. KeyOfCur(h) \in Key /\ job[h].cur \in SUBSET Fp
    BY <1>4, CurIsAlert DEF CreateTicket
  <2>2. NewTicket("alertmanager", KeyOfCur(h), job[h].cur) \/ NoStore
    BY <1>4 DEF CreateTicket
  <2> QED BY <2>1, <2>2, AlertAssumption DEF NoStore, PipelineNext, Environment, Surroundings
<1>5. CASE HandOff(h)
  <2>1. job[h].ticket \in Ticket
    BY <1>0, <1>5 DEF HandOff, JobSound
  <2> QED BY <1>5, <2>1 DEF HandOff, PipelineNext, PipelineStep
<1>6. ASSUME NEW a, Ignore(h, a) \/ LookUp(h, a) \/ CheckCooldown(h) \/ SpendBudget(h) \/ Answer(h)
      PROVE UNCHANGED pipelineVars
  BY <1>6 DEF Ignore, LookUp, CheckCooldown, SpendBudget, Answer, NoStore
<1> QED BY <1>2, <1>3, <1>4, <1>5, <1>6 DEF HandlerStep

LEMMA WorksIsPipeline ==
    ASSUME PipelineInv, PipelineWorks
    PROVE  [PipelineNext]_pipelineVars
<1>1. ASSUME NEW w \in Workload, "manual" \in Source, TriggerAnalysis(w)
      PROVE  PipelineNext
  <2>1. <<w, NoAlertName>> \in Key
    BY <1>1, AlertAssumption DEF Key
  <2>2. {} \in SUBSET Fp
    OBVIOUS
  <2> QED BY <1>1, <2>1, <2>2 DEF TriggerAnalysis, PipelineNext, Environment, Surroundings
<1>2. ASSUME NEW t \in Ticket,
             AcquireSem(t) \/ RunStep(t) \/ DeliverResolve(t) \/ Review(t) \/ ProcessTicket(t)
      PROVE  PipelineNext
  BY <1>2 DEF PipelineNext, PipelineStep, Environment, Surroundings
<1>3. CASE Pause \/ Resume
  BY <1>3 DEF PipelineNext, Environment, Surroundings
<1> QED BY <1>1, <1>2, <1>3 DEF PipelineWorks, Ask

LEMMA AlertIsPipeline ==
    ASSUME AlertInv, [AlertNext]_agentVars
    PROVE  [PipelineNext]_pipelineVars
<1>0. PipelineInv
  BY DEF AlertInv
<1>1. CASE Deliveries
  <2>1. ASSUME NEW h \in Handler, HandlerStep(h) PROVE [PipelineNext]_pipelineVars
    BY <2>1, HandlerIsPipeline
  <2> QED BY <1>1, <2>1 DEF Deliveries, Fire, Stop, Deliver, HangUp
<1>2. CASE Restart
  BY <1>2 DEF Restart, PipelineNext, Environment
<1>3. CASE Clock
  BY <1>3 DEF PipelineNext, Environment, Surroundings
<1> QED BY <1>0, <1>1, <1>2, <1>3, WorksIsPipeline DEF AlertNext, agentVars

-----------------------------------------------------------------------------
(* The goroutines *)

\* Goroutine h writes its own record, the other goroutines keep theirs.
Works(h) == /\ job' \in [Handler -> Job]
            /\ \A g \in Handler \ {h} : job'[g] = job[g]

LEMMA LeaveJob ==
    ASSUME AlertTypeOK, NEW h \in Handler, NEW ok \in BOOLEAN, Leave(h, ok)
    PROVE  /\ Works(h) /\ job'[h].step = "next" /\ job'[h].todo = job[h].todo
           /\ job'[h].cur = {} /\ job'[h].failed = (job[h].failed \/ ~ok)
           /\ job'[h].from = job[h].from
<1> DEFINE fail == job[h].failed \/ ~ok
           j == [job[h] EXCEPT !.step = "next", !.cur = {}, !.ticket = NoTicket, !.failed = fail]
<1>1. job \in [Handler -> Job] /\ job[h] \in Job
  BY DEF AlertTypeOK
<1>2. job' = [job EXCEPT ![h] = j]
  BY <1>1 DEF Leave
<1>3. fail \in BOOLEAN
  BY <1>1 DEF Job
<1> HIDE DEF fail
<1>4. /\ j \in Job /\ j.step = "next" /\ j.todo = job[h].todo /\ j.cur = {} /\ j.failed = fail
      /\ j.from = job[h].from
  BY <1>1, <1>3 DEF Job
<1> HIDE DEF j
<1> QED BY <1>1, <1>2, <1>4 DEF Works, fail

LEMMA LeaveAlertJob ==
    ASSUME AlertTypeOK, NEW h \in Handler, NEW a, NEW ok \in BOOLEAN, LeaveAlert(h, a, ok)
    PROVE  /\ Works(h) /\ job'[h].step = job[h].step /\ job'[h].todo \subseteq job[h].todo
           /\ job'[h].cur = job[h].cur /\ job'[h].failed = (job[h].failed \/ ~ok)
           /\ job'[h].todo = job[h].todo \ {a} /\ job'[h].from = job[h].from
<1> DEFINE fail == job[h].failed \/ ~ok
           rest == job[h].todo \ {a}
           j == [job[h] EXCEPT !.todo = rest, !.failed = fail]
<1>1. job \in [Handler -> Job] /\ job[h] \in Job
  BY DEF AlertTypeOK
<1>2. job' = [job EXCEPT ![h] = j]
  BY <1>1 DEF LeaveAlert
<1>3. fail \in BOOLEAN /\ rest \in SUBSET Alert /\ rest \subseteq job[h].todo
  BY <1>1 DEF Job
<1> HIDE DEF fail, rest
<1>4. /\ j \in Job /\ j.step = job[h].step /\ j.todo = rest /\ j.cur = job[h].cur
      /\ j.failed = fail /\ j.from = job[h].from
  BY <1>1, <1>3 DEF Job
<1> HIDE DEF j
<1> QED BY <1>1, <1>2, <1>3, <1>4 DEF Works, fail, rest

LEMMA TakeJob ==
    ASSUME AlertTypeOK, NEW h \in Handler, NEW a \in job[h].todo, NEW t \in Ticket \cup {NoTicket},
           NEW step \in {"touch", "flap", "create"}, Take(h, a, step, t)
    PROVE  /\ Works(h) /\ job'[h].step = step /\ job'[h].todo \subseteq job[h].todo
           /\ a.fp \in Fp /\ job'[h].cur = {a.fp} /\ job'[h].ticket = t
           /\ job'[h].failed = job[h].failed
           /\ job'[h].todo = job[h].todo \ {a} /\ job'[h].from = job[h].from
<1> DEFINE rest == job[h].todo \ {a}
           j == [job[h] EXCEPT !.step = step, !.todo = rest, !.cur = {a.fp}, !.ticket = t]
<1>1. job \in [Handler -> Job] /\ job[h] \in Job /\ a \in Alert
  BY DEF AlertTypeOK, Job
<1>2. job' = [job EXCEPT ![h] = j]
  BY <1>1 DEF Take
<1>3. rest \in SUBSET Alert /\ rest \subseteq job[h].todo /\ a.fp \in Fp
  BY <1>1 DEF Job, Alert
<1> HIDE DEF rest
<1>4. /\ j \in Job /\ j.step = step /\ j.todo = rest /\ j.cur = {a.fp} /\ j.ticket = t
      /\ j.failed = job[h].failed /\ j.from = job[h].from
  BY <1>1, <1>3 DEF Job
<1> HIDE DEF j
<1> QED BY <1>1, <1>2, <1>3, <1>4 DEF Works, rest

LEMMA CreatedJob ==
    ASSUME AlertTypeOK, NEW h \in Handler, NEW t \in Ticket,
           job' = [job EXCEPT ![h].step = "handoff", ![h].ticket = t]
    PROVE  /\ Works(h) /\ job'[h].step = "handoff" /\ job'[h].todo = job[h].todo
           /\ job'[h].cur = job[h].cur /\ job'[h].ticket = t /\ job'[h].failed = job[h].failed
           /\ job'[h].from = job[h].from
<1> DEFINE j == [job[h] EXCEPT !.step = "handoff", !.ticket = t]
<1>1. job \in [Handler -> Job] /\ job[h] \in Job
  BY DEF AlertTypeOK
<1>2. job' = [job EXCEPT ![h] = j]
  BY <1>1
<1>3. /\ j \in Job /\ j.step = "handoff" /\ j.todo = job[h].todo /\ j.cur = job[h].cur
      /\ j.ticket = t /\ j.failed = job[h].failed /\ j.from = job[h].from
  BY <1>1 DEF Job
<1> HIDE DEF j
<1> QED BY <1>1, <1>2, <1>3 DEF Works

-----------------------------------------------------------------------------
(* FindDuplicate *)

LEMMA NatOrder ==
    \E R : IsWellFoundedOn(R, Nat) /\ \A x, y \in Nat : y < x => <<y, x>> \in R
<1>1. \A x, y \in Nat : y < x => <<y, x>> \in OpToRel(<, Nat)
  BY Zenon DEF OpToRel
<1> QED BY <1>1, NatLessThanWellFounded, Zenon

\* A nonempty set of tickets has a newest one.
LEMMA NewestExists ==
    ASSUME NEW S \in SUBSET Ticket, S # {}
    PROVE  \E t \in S : \A u \in S : u <= t
<1> DEFINE T == {MaxTicket - t : t \in S}
<1>1. T \subseteq Nat /\ T # {}
  <2>1. ASSUME NEW t \in S PROVE MaxTicket - t \in Nat
    <3>1. t \in Ticket
      OBVIOUS
    <3> QED BY <3>1, StoreAssumption DEF Ticket
  <2>2. PICK t \in S : TRUE
    OBVIOUS
  <2>3. MaxTicket - t \in T
    BY <2>2
  <2> QED BY <2>1, <2>3
<1>2. PICK R : IsWellFoundedOn(R, Nat) /\ \A x, y \in Nat : y < x => <<y, x>> \in R
  BY NatOrder
<1> HIDE DEF T
<1>3. PICK x \in T : \A y \in T : ~ (<<y, x>> \in R)
  BY <1>1, <1>2, WFMin
<1>4. x \in Nat /\ \A y \in T : y \in Nat /\ ~(y < x)
  BY <1>1, <1>2, <1>3
<1>5. PICK t \in S : x = MaxTicket - t
  BY <1>3 DEF T
<1>6. \A u \in S : ~(MaxTicket - u < MaxTicket - t)
  BY <1>4, <1>5 DEF T
<1> QED BY <1>5, <1>6, StoreAssumption DEF Ticket

\* FindDuplicate and the other look-ups return the newest ticket or none.
LEMMA NewestOf ==
    ASSUME NEW S \in SUBSET Ticket
    PROVE  /\ Newest(S) = NoTicket => S = {}
           /\ S # {} => Newest(S) \in S /\ \A u \in S : u <= Newest(S)
<1>1. CASE S # {}
  <2>1. PICK t \in S : \A u \in S : u <= t
    BY <1>1, NewestExists
  <2>2. Newest(S) = CHOOSE s \in S : \A u \in S : u <= s
    BY <1>1 DEF Newest
  <2>3. Newest(S) \in S /\ \A u \in S : u <= Newest(S)
    BY <2>1, <2>2
  <2> QED BY <2>3 DEF Ticket, NoTicket
<1> QED BY <1>1

LEMMA DuplicateOf ==
    ASSUME PipelineInv, NEW k
    PROVE  /\ FindDuplicate(k) \in Ticket \cup {NoTicket}
           /\ FindDuplicate(k) = NoTicket => \A t \in Existing : row[t].key = k => IsClosed(t)
           /\ FindDuplicate(k) # NoTicket =>
                /\ FindDuplicate(k) \in Existing
                /\ row[FindDuplicate(k)].key = k /\ ~IsClosed(FindDuplicate(k))
<1> DEFINE S == {t \in Existing : row[t].key = k /\ ~IsClosed(t)}
<1>1. S \in SUBSET Ticket /\ FindDuplicate(k) = Newest(S)
  BY ExistingTickets DEF FindDuplicate
<1>2. CASE S = {}
  <2>1. FindDuplicate(k) = NoTicket
    BY <1>1, <1>2 DEF Newest
  <2>2. \A t \in Existing : row[t].key = k => IsClosed(t)
    BY <1>2
  <2> QED BY <2>1, <2>2
<1>3. CASE S # {}
  <2> HIDE DEF S
  <2>1. FindDuplicate(k) \in S
    BY <1>1, <1>3, NewestOf
  <2> QED BY <1>1, <2>1 DEF S, Ticket, NoTicket
<1> QED BY <1>2, <1>3

-----------------------------------------------------------------------------
(* The invariant, one goroutine's step *)

\* A goroutine whose record no step touches stays sound.
LEMMA OthersSound ==
    ASSUME AlertInv, [PipelineNext]_pipelineVars, NEW g \in Handler, job'[g] = job[g],
           \A f \in Fp : LastFired(f)' \in Nat /\ LastFired(f) <= LastFired(f)',
           job[g].step = "handoff" => pc'[job[g].ticket] = "created"
    PROVE  JobSound(g)'
<1>1. /\ JobSound(g) /\ job[g] \in Job /\ KeyOfCur(g)' = KeyOfCur(g)
      /\ since \in [Fp -> 0..MaxTicket] /\ ended \in [Fp -> 0..MaxTicket]
  BY DEF AlertInv, AlertTypeOK, KeyOfCur
<1>2. Existing \subseteq Existing' /\ \A t \in Existing : Survives(t)
  BY StepKeeps DEF AlertInv
<1>3. ASSUME job[g].step = "handoff"
      PROVE  /\ row'[job[g].ticket].source = "alertmanager"
             /\ job[g].cur \subseteq row'[job[g].ticket].fps
  <2>1. job[g].ticket \in Existing /\ pc[job[g].ticket] # "start"
    BY <1>1, <1>3 DEF JobSound
  <2> QED BY <1>1, <1>2, <1>3, <2>1 DEF JobSound, Survives, Keeps
<1>4. ASSUME NEW a \in job[g].todo, a.resolved PROVE a.ends <= LastFired(a.fp)'
  <2>1. a \in Alert /\ a.ends <= LastFired(a.fp)
    BY <1>1, <1>4 DEF Job, JobSound
  <2>2. a.fp \in Fp /\ a.ends \in Nat /\ LastFired(a.fp) \in Nat
    BY <1>1, <2>1, StoreAssumption DEF Alert, LastFired
  <2>3. LastFired(a.fp)' \in Nat /\ LastFired(a.fp) <= LastFired(a.fp)'
    BY <2>2
  <2>4. ASSUME NEW x \in Nat, NEW y \in Nat, NEW z \in Nat, x <= y, y <= z PROVE x <= z
    BY <2>4
  <2> QED BY <2>1, <2>2, <2>3, <2>4
<1> QED BY <1>1, <1>2, <1>3, <1>4 DEF JobSound

LEMMA GoroutineStep ==
    ASSUME AlertInv, NEW h \in Handler, [PipelineNext]_pipelineVars,
           UNCHANGED <<firing, fires, since, ended>>,
           told' \in [Fp -> {"firing", "resolved"}], sending' \in [Group -> SUBSET Alert],
           Works(h), JobSound(h)',
           \A g \in Handler \ {h} : job[g].step = "handoff" =>
             /\ pc'[job[g].ticket] = "created"
             /\ job'[h].step = "handoff" => job'[h].ticket # job[g].ticket
    PROVE  AlertInv'
<1>1. PipelineInv' /\ created <= created' /\ \A t \in Existing' : Begun(t)'
  BY NextInv, StepKeeps DEF AlertInv
<1>2. AlertTypeOK'
  BY <1>1 DEF PipelineInv, AlertInv, AlertTypeOK, Works
<1>3. \A f \in Fp : since'[f] <= created' /\ ended'[f] <= created'
  <2>1. created \in Nat /\ created' \in Nat
    BY <1>1, StoreAssumption DEF AlertInv, AlertTypeOK, PipelineInv, PipelineTypeOK, StoreTypeOK
  <2> QED BY <1>1, <2>1, StoreAssumption DEF AlertInv, AlertTypeOK
<1>4. \A f \in Fp : LastFired(f)' \in Nat /\ LastFired(f) <= LastFired(f)'
  BY StoreAssumption DEF AlertInv, AlertTypeOK, LastFired
<1>5. ASSUME NEW g \in Handler PROVE JobSound(g)'
  BY <1>4, OthersSound DEF Works
<1> QED BY <1>1, <1>2, <1>3, <1>5 DEF AlertInv, Works

\* The goroutine is between two alerts again.
LEMMA BetweenSound ==
    ASSUME AlertInv, NEW h \in Handler, UNCHANGED <<firing, since, ended>>,
           job'[h].step = "next", job'[h].todo \subseteq job[h].todo
    PROVE  JobSound(h)'
<1>1. JobSound(h)
  BY DEF AlertInv
<1> QED BY <1>1 DEF JobSound, LastFired

\* Its other goroutines, when the step creates no ticket and processes none.
LEMMA Undisturbed ==
    ASSUME AlertInv, NEW h \in Handler, pc' = pc, job'[h].step # "handoff"
    PROVE  \A g \in Handler \ {h} : job[g].step = "handoff" =>
             /\ pc'[job[g].ticket] = "created"
             /\ job'[h].step = "handoff" => job'[h].ticket # job[g].ticket
BY DEF AlertInv, JobSound

LEMMA HandlerInv ==
    ASSUME AlertInv, NEW h \in Handler, HandlerStep(h)
    PROVE  AlertInv'
<1>0. /\ [PipelineNext]_pipelineVars /\ PipelineInv /\ AlertTypeOK /\ JobSound(h)
      /\ told \in [Fp -> {"firing", "resolved"}] /\ sending \in [Group -> SUBSET Alert]
      /\ job[h] \in Job
  BY HandlerIsPipeline DEF AlertInv, AlertTypeOK
<1>1. ASSUME NEW a \in job[h].todo, NEW ok \in BOOLEAN, LeaveAlert(h, a, ok), pc' = pc,
             job[h].step = "next", UNCHANGED amVars
      PROVE  AlertInv'
  <2>1. Works(h) /\ job'[h].step = "next" /\ job'[h].todo \subseteq job[h].todo
    BY <1>0, <1>1, LeaveAlertJob
  <2>2. JobSound(h)'
    BY <1>1, <2>1, BetweenSound DEF amVars
  <2> QED BY <1>0, <1>1, <2>1, <2>2, GoroutineStep, Undisturbed DEF amVars
<1>2. ASSUME NEW ok \in BOOLEAN, Leave(h, ok), pc' = pc, UNCHANGED amVars
      PROVE  AlertInv'
  <2>1. Works(h) /\ job'[h].step = "next" /\ job'[h].todo = job[h].todo
    BY <1>0, <1>2, LeaveJob
  <2>2. JobSound(h)'
    BY <1>2, <2>1, BetweenSound DEF amVars
  <2> QED BY <1>0, <1>2, <2>1, <2>2, GoroutineStep, Undisturbed DEF amVars
<1>3. ASSUME NEW a \in job[h].todo, ResolveTickets(h, a) \/ Ignore(h, a) PROVE AlertInv'
  <2>1. pc' = pc
    BY <1>3 DEF ResolveTickets, Ignore, NoStore, Resolved, Others, runVars, pipelineVars
  <2>2. /\ job[h].step = "next" /\ UNCHANGED amVars
        /\ LeaveAlert(h, a, TRUE) \/ LeaveAlert(h, a, FALSE)
    BY <1>3 DEF ResolveTickets, Ignore, IsFiring
  <2> QED BY <1>1, <2>1, <2>2
<1>4. ASSUME NEW a \in job[h].todo, LookUp(h, a) PROVE AlertInv'
  <2> DEFINE k == KeyOf[a.fp]
  <2>1. UNCHANGED <<pc, amVars>> /\ job[h].step = "next"
    BY <1>4 DEF LookUp, NoStore, IsFiring, pipelineVars, runVars
  <2>2. \/ FindDuplicate(k) # NoTicket /\ Take(h, a, "touch", FindDuplicate(k))
        \/ HeldBack(k) /\ Take(h, a, "flap", NoTicket)
        \/ Take(h, a, "create", NoTicket)
        \/ LeaveAlert(h, a, FALSE)
    BY <1>4 DEF LookUp
  <2>3. CASE LeaveAlert(h, a, FALSE)
    BY <1>1, <2>1, <2>3
  <2>4. ASSUME NEW step \in {"touch", "flap", "create"}, NEW t \in Ticket \cup {NoTicket},
               Take(h, a, step, t), step = "touch" => t \in Existing, step = "flap" => HeldBack(k)
        PROVE  AlertInv'
    <3>1. /\ Works(h) /\ job'[h].step = step /\ job'[h].todo \subseteq job[h].todo
          /\ a.fp \in Fp /\ job'[h].cur = {a.fp} /\ job'[h].ticket = t
      BY <1>0, <2>4, TakeJob
    <3>2. KeyOfCur(h)' = k
      <4>1. (CHOOSE f \in Fp : {a.fp} = {f}) = a.fp
        BY <3>1
      <4> QED BY <3>1, <4>1 DEF KeyOfCur
    <3>3. Existing \subseteq Existing'
      BY <1>0, StepKeeps DEF AlertInv
    <3>4. \A b \in job'[h].todo : b.resolved => b.ends <= LastFired(b.fp)'
      BY <1>0, <2>1, <3>1 DEF JobSound, LastFired, amVars
    <3>5. JobSound(h)'
      BY <2>4, <3>1, <3>2, <3>3, <3>4 DEF JobSound, HeldBack
    <3> QED BY <1>0, <2>1, <3>1, <3>5, GoroutineStep, Undisturbed DEF amVars
  <2> HIDE DEF k
  <2>5. /\ FindDuplicate(k) \in Ticket \cup {NoTicket}
        /\ FindDuplicate(k) # NoTicket => FindDuplicate(k) \in Existing
    BY <1>0, DuplicateOf
  <2> QED BY <2>2, <2>3, <2>4, <2>5
<1>5. CASE TouchDuplicate(h)
  <2>1. UNCHANGED <<pc, amVars>> /\ (Leave(h, TRUE) \/ Leave(h, FALSE))
    BY <1>5 DEF TouchDuplicate, NoStore, Others, runVars, pipelineVars
  <2> QED BY <1>2, <2>1
<1>6. CASE CheckCooldown(h)
  <2>1. UNCHANGED <<pc, amVars>> /\ job[h].step = "flap"
    BY <1>6 DEF CheckCooldown, NoStore, pipelineVars, runVars
  <2>2. \/ Leave(h, TRUE) \/ Leave(h, FALSE) \/ job' = [job EXCEPT ![h].step = "create"]
    BY <1>6 DEF CheckCooldown
  <2>3. CASE job' = [job EXCEPT ![h].step = "create"]
    <3> DEFINE j == [job[h] EXCEPT !.step = "create"]
    <3>1. j \in Job /\ j.step = "create" /\ j.todo = job[h].todo /\ j.cur = job[h].cur
      BY <1>0 DEF Job
    <3>2. job' = [job EXCEPT ![h] = j] /\ job \in [Handler -> Job]
      BY <1>0, <2>3 DEF AlertTypeOK
    <3> HIDE DEF j
    <3>3. Works(h) /\ job'[h] = j
      BY <3>1, <3>2 DEF Works
    <3>4. \A b \in job'[h].todo : b.resolved => b.ends <= LastFired(b.fp)'
      BY <1>0, <2>1, <3>1, <3>3 DEF JobSound, LastFired, amVars
    <3>5. \E f \in Fp : job'[h].cur = {f}
      BY <1>0, <2>1, <3>1, <3>3 DEF JobSound
    <3>6. JobSound(h)'
      BY <3>1, <3>3, <3>4, <3>5 DEF JobSound
    <3> QED BY <1>0, <2>1, <3>1, <3>3, <3>6, GoroutineStep, Undisturbed DEF amVars
  <2> QED BY <1>2, <2>1, <2>2, <2>3
<1>7. CASE CreateTicket(h)
  <2>1. /\ UNCHANGED amVars /\ job[h].step = "create"
        /\ \/ /\ NewTicket("alertmanager", KeyOfCur(h), job[h].cur)
              /\ job' = [job EXCEPT ![h].step = "handoff", ![h].ticket = created + 1]
           \/ NoStore /\ Leave(h, FALSE)
    BY <1>7 DEF CreateTicket
  <2>2. CASE NoStore /\ Leave(h, FALSE)
    BY <1>2, <2>1, <2>2 DEF NoStore, pipelineVars, runVars
  <2>3. CASE /\ NewTicket("alertmanager", KeyOfCur(h), job[h].cur)
             /\ job' = [job EXCEPT ![h].step = "handoff", ![h].ticket = created + 1]
    <3>1. KeyOfCur(h) \in Key /\ job[h].cur \in SUBSET Fp /\ \E f \in Fp : job[h].cur = {f}
      BY <2>1, CurIsAlert
    <3>0. "alertmanager" \in Source /\ NewTicket("alertmanager", KeyOfCur(h), job[h].cur)
      BY <2>3, AlertAssumption
    <3>2. PICK n \in Ticket : n = created + 1
      BY <1>0, <3>0, <3>1, InsertKeeps
    <3>3. /\ n \in Existing' /\ n \notin Existing /\ pc'[n] = "created"
          /\ \A t \in Ticket \ {n} : pc'[t] = pc[t]
          /\ row'[n] = [status |-> "open", source |-> "alertmanager", key |-> KeyOfCur(h),
                        fps |-> job[h].cur, pr |-> FALSE, age |-> 0, cooling |-> FALSE,
                        took |-> {"open"}]
      BY <1>0, <3>0, <3>1, <3>2, InsertKeeps
    <3>4. /\ Works(h) /\ job'[h].step = "handoff" /\ job'[h].todo = job[h].todo
          /\ job'[h].cur = job[h].cur /\ job'[h].ticket = n
      BY <1>0, <2>3, <3>2, CreatedJob
    <3>5. \A b \in job'[h].todo : b.resolved => b.ends <= LastFired(b.fp)'
      BY <1>0, <2>1, <3>4 DEF JobSound, LastFired, amVars
    <3>6. JobSound(h)'
      BY <3>1, <3>3, <3>4, <3>5 DEF JobSound
    <3>7. ASSUME NEW g \in Handler \ {h}, job[g].step = "handoff"
          PROVE  pc'[job[g].ticket] = "created" /\ job'[h].ticket # job[g].ticket
      <4>1. job[g].ticket \in Existing /\ pc[job[g].ticket] = "created"
        BY <3>7 DEF AlertInv, JobSound
      <4> QED BY <1>0, <3>3, <3>4, <4>1, ExistingTickets
    <3> QED BY <1>0, <2>1, <3>4, <3>6, <3>7, GoroutineStep DEF amVars
  <2> QED BY <2>1, <2>2, <2>3
<1>8. CASE HandOff(h)
  <2>1. UNCHANGED amVars /\ Leave(h, TRUE) /\ job[h].step = "handoff" /\ ProcessTicket(job[h].ticket)
    BY <1>8 DEF HandOff
  <2>2. Works(h) /\ job'[h].step = "next" /\ job'[h].todo = job[h].todo
    BY <1>0, <2>1, LeaveJob
  <2>3. JobSound(h)'
    BY <2>1, <2>2, BetweenSound DEF amVars
  <2>4. ASSUME NEW g \in Handler \ {h}, job[g].step = "handoff" PROVE pc'[job[g].ticket] = "created"
    <3>1. /\ job[g].ticket \in Existing /\ pc[job[g].ticket] = "created"
          /\ job[g].ticket # job[h].ticket
      BY <2>1, <2>4 DEF AlertInv, JobSound
    <3>2. \A t \in Ticket : t # job[h].ticket => pc'[t] = pc[t]
      BY <1>0, <2>1 DEF ProcessTicket, Move, PipelineInv, PipelineTypeOK
    <3> QED BY <1>0, <3>1, <3>2, ExistingTickets
  <2> QED BY <1>0, <2>1, <2>2, <2>3, <2>4, GoroutineStep DEF amVars
<1>9. CASE SpendBudget(h)
  <2> DEFINE j == [job[h] EXCEPT !.todo = {}, !.failed = TRUE]
  <2>1. UNCHANGED <<pc, amVars>> /\ job[h].step = "next" /\ job' = [job EXCEPT ![h] = j]
    BY <1>9 DEF SpendBudget, pipelineVars, runVars
  <2>2. j \in Job /\ j.step = job[h].step /\ j.todo = {}
    BY <1>0 DEF Job
  <2> HIDE DEF j
  <2>3. Works(h) /\ job'[h] = j
    BY <1>0, <2>1, <2>2 DEF Works, AlertTypeOK
  <2>4. JobSound(h)'
    BY <2>1, <2>2, <2>3, BetweenSound DEF amVars
  <2> QED BY <1>0, <2>1, <2>2, <2>3, <2>4, GoroutineStep, Undisturbed DEF amVars
<1>10. CASE Answer(h)
  <2>1. UNCHANGED <<pc, firing, fires, since, ended>> /\ job' = [job EXCEPT ![h] = Idle]
    BY <1>10 DEF Answer, pipelineVars, runVars
  <2>2. Idle \in Job /\ Idle.step = "idle" /\ Idle.todo = {}
    BY DEF Idle, Job
  <2>3. Works(h) /\ job'[h] = Idle
    BY <1>0, <2>1, <2>2 DEF Works, AlertTypeOK
  <2>4. JobSound(h)'
    BY <2>2, <2>3 DEF JobSound
  <2>5. sending' \in [Group -> SUBSET Alert] /\ told' \in [Fp -> {"firing", "resolved"}]
    <3> DEFINE G == job[h].from
               sent(f) == CHOOSE a \in sending[G] : a.fp = f
    <3>1. CASE G = {}
      BY <1>0, <1>10, <3>1 DEF Answer
    <3>2. CASE G # {}
      <4>1. /\ sending' = [sending EXCEPT ![G] = {}]
            /\ told' = IF job[h].failed THEN told
                       ELSE [f \in Fp |-> IF f \in {a.fp : a \in sending[G]}
                                          THEN IF sent(f).resolved THEN "resolved" ELSE "firing"
                                          ELSE told[f]]
        BY <1>10, <3>2 DEF Answer
      <4> HIDE DEF G, sent
      <4> QED BY <1>0, <4>1
    <3> QED BY <3>1, <3>2
  <2> QED BY <1>0, <2>1, <2>2, <2>3, <2>4, <2>5, GoroutineStep, Undisturbed
<1> QED BY <1>3, <1>4, <1>5, <1>6, <1>7, <1>8, <1>9, <1>10 DEF HandlerStep

-----------------------------------------------------------------------------
(* The invariant, everybody else's steps *)

\* A step of a run is its own ticket's.
LEMMA RunStepPc ==
    ASSUME PipelineInv, NEW t \in Ticket, RunStep(t)
    PROVE  pc[t] \in Active /\ \A u \in Ticket \ {t} : pc'[u] = pc[u]
<1>1. pc \in [Ticket -> Pc]
  BY DEF PipelineInv, PipelineTypeOK
<1>2. pc[t] \in Active
  BY Zenon DEF RunStep, MarkAnalyzing, PublishAlert, Reload, NoDiagnosis, Diagnosed, SyncDiagnosis, Advise,
         Suggest, StartFix, FixStops, FixReady, CheckLimits, PushBranch, OpenPR, Link, LinkOnly,
         MirrorPR, MergePR, Persist, Mirror, Move, Active
<1>3. \E to : pc' = [pc EXCEPT ![t] = to]
  BY Zenon DEF RunStep, MarkAnalyzing, PublishAlert, Reload, NoDiagnosis, Diagnosed, SyncDiagnosis, Advise,
         Suggest, StartFix, FixStops, FixReady, CheckLimits, PushBranch, OpenPR, Link, LinkOnly,
         MirrorPR, MergePR, Persist, Mirror, Move, Continue, Return, StoreFails
<1> QED BY <1>1, <1>2, <1>3

\* Where a step leaves its run: never back at the start.
LEMMA RunTo ==
    ASSUME PipelineInv, NEW t \in Ticket, RunStep(t)
    PROVE  pc'[t] \in (Active \ {"start"}) \cup {"done", "aborted"}
<1>0. pc \in [Ticket -> Pc]
  BY DEF PipelineInv, PipelineTypeOK
<1>1. CASE MarkAnalyzing(t) \/ PublishAlert(t) \/ Reload(t) \/ NoDiagnosis(t) \/ Diagnosed(t)
  BY <1>0, <1>1 DEF MarkAnalyzing, PublishAlert, Reload, NoDiagnosis, Diagnosed, Move, Return, StoreFails,
                    Active
<1>2. CASE SyncDiagnosis(t) \/ Advise(t) \/ Suggest(t) \/ StartFix(t) \/ FixStops(t) \/ FixReady(t)
  BY <1>0, <1>2 DEF SyncDiagnosis, Advise, Suggest, StartFix, FixStops, FixReady, Move, Active
<1>3. CASE CheckLimits(t) \/ PushBranch(t) \/ OpenPR(t)
  BY <1>0, <1>3 DEF CheckLimits, PushBranch, OpenPR, Continue, Active
<1>4. CASE Link(t) \/ LinkOnly(t)
  BY <1>0, <1>4 DEF Link, LinkOnly, StoreFails, Return, Active
<1>5. CASE MirrorPR(t) \/ MergePR(t) \/ Persist(t) \/ Mirror(t)
  BY <1>0, <1>5 DEF MirrorPR, MergePR, Persist, Mirror, Continue, StoreFails, Return, Active
<1> QED BY <1>1, <1>2, <1>3, <1>4, <1>5 DEF RunStep

\* No ticket a delivery is about to hand over is touched by the step.
Waits == \A t \in Existing : row[t].source = "alertmanager" /\ pc[t] = "created" => pc'[t] = "created"

LEMMA RunsWait ==
    ASSUME PipelineInv, NEW t \in Ticket, RunStep(t) \/ AcquireSem(t)
    PROVE  Waits
<1>1. pc[t] # "created" /\ \A u \in Ticket \ {t} : pc'[u] = pc[u]
  <2>1. CASE RunStep(t)
    BY <2>1, RunStepPc DEF Active
  <2>2. CASE AcquireSem(t)
    BY <2>2 DEF AcquireSem, Move, PipelineInv, PipelineTypeOK
  <2> QED BY <2>1, <2>2
<1> QED BY <1>1, ExistingTickets DEF Waits

LEMMA CreationWaits ==
    ASSUME PipelineInv, NEW src \in Source, NEW k \in Key, NEW F \in SUBSET Fp, NewTicket(src, k, F)
    PROVE  Waits
<1>1. PICK n \in Ticket : n = created + 1
  BY InsertKeeps
<1>2. n \notin Existing /\ \A t \in Ticket \ {n} : pc'[t] = pc[t]
  BY <1>1, InsertKeeps
<1> QED BY <1>2, ExistingTickets DEF Waits

LEMMA EntryWaits ==
    ASSUME PipelineInv, NEW t \in Ticket, ProcessTicket(t), row[t].source # "alertmanager"
    PROVE  Waits
<1>1. \A u \in Ticket \ {t} : pc'[u] = pc[u]
  BY DEF ProcessTicket, Move, PipelineInv, PipelineTypeOK
<1> QED BY <1>1, ExistingTickets DEF Waits

\* The pipeline and the rest of the agent, beside the webhook.
LEMMA BesideInv ==
    ASSUME AlertInv, [PipelineNext]_pipelineVars, UNCHANGED alertVars, Waits
    PROVE  AlertInv'
<1>0. UNCHANGED <<firing, fires, since, ended, told, sending, job>>
  BY DEF alertVars, amVars
<1>1. PipelineInv' /\ created <= created' /\ \A t \in Existing' : Begun(t)'
  BY NextInv, StepKeeps DEF AlertInv
<1>2. AlertTypeOK'
  BY <1>0, <1>1 DEF PipelineInv, AlertInv, AlertTypeOK
<1>3. \A f \in Fp : since'[f] <= created' /\ ended'[f] <= created'
  <2>1. created \in Nat /\ created' \in Nat
    BY <1>1, StoreAssumption DEF AlertInv, AlertTypeOK, PipelineInv, PipelineTypeOK, StoreTypeOK
  <2> QED BY <1>0, <1>1, <2>1, StoreAssumption DEF AlertInv, AlertTypeOK
<1>4. \A f \in Fp : LastFired(f)' \in Nat /\ LastFired(f) <= LastFired(f)'
  BY <1>0, StoreAssumption DEF AlertInv, AlertTypeOK, LastFired
<1>5. ASSUME NEW g \in Handler PROVE JobSound(g)'
  <2>1. job[g].step = "handoff" => pc'[job[g].ticket] = "created"
    BY DEF Waits, AlertInv, JobSound
  <2> QED BY <1>0, <1>4, <2>1, OthersSound
<1> QED BY <1>0, <1>1, <1>2, <1>3, <1>5 DEF AlertInv

LEMMA WorksInv ==
    ASSUME AlertInv, PipelineWorks
    PROVE  AlertInv'
<1>0. PipelineInv /\ [PipelineNext]_pipelineVars /\ UNCHANGED alertVars
  BY WorksIsPipeline DEF AlertInv, PipelineWorks
<1>1. CASE pc' = pc
  BY <1>0, <1>1, BesideInv DEF Waits
<1>2. ASSUME NEW w \in Workload, "manual" \in Source, TriggerAnalysis(w) PROVE AlertInv'
  <2>1. <<w, NoAlertName>> \in Key /\ {} \in SUBSET Fp
    BY <1>2, AlertAssumption DEF Key
  <2>2. Waits
    BY <1>0, <1>2, <2>1, CreationWaits DEF TriggerAnalysis
  <2> QED BY <1>0, <2>2, BesideInv
<1>3. ASSUME NEW t \in Ticket, row[t].source = "manual", ProcessTicket(t) PROVE AlertInv'
  BY <1>0, <1>3, EntryWaits, BesideInv
<1>4. ASSUME NEW t \in Ticket, AcquireSem(t) \/ RunStep(t) PROVE AlertInv'
  BY <1>0, <1>4, RunsWait, BesideInv
<1>5. ASSUME NEW t \in Ticket, DeliverResolve(t) \/ Review(t) PROVE pc' = pc
  BY <1>5 DEF DeliverResolve, Review, Others, runVars
<1>6. CASE Pause \/ Resume
  BY <1>1, <1>6 DEF Pause, Resume, runVars
<1> QED BY <1>1, <1>2, <1>3, <1>4, <1>5, <1>6 DEF PipelineWorks, Ask

\* A step of AlertManager.
LEMMA OutsideInv ==
    ASSUME AlertInv, UNCHANGED pipelineVars,
           firing' \in [Fp -> BOOLEAN], fires' \in 0..MaxFires, told' = told,
           since' \in [Fp -> 0..MaxTicket], ended' \in [Fp -> 0..MaxTicket],
           sending' \in [Group -> SUBSET Alert],
           \A f \in Fp : since'[f] <= created /\ ended'[f] <= created /\ LastFired(f) <= LastFired(f)',
           job' \in [Handler -> Job],
           \A g \in Handler : \/ job'[g] = job[g]
                             \/ /\ job'[g].step \in {"next", job[g].step}
                                /\ job'[g].step # "next" => job'[g].cur = job[g].cur /\ job'[g].ticket = job[g].ticket
                                /\ \A a \in job'[g].todo : a.resolved => a.ends <= LastFired(a.fp)'
    PROVE  AlertInv'
<1>1. UNCHANGED <<row, created, pc>>
  BY DEF pipelineVars, storeVars, runVars
<1>2. PipelineInv' /\ \A t \in Existing' : Begun(t)'
  BY NextInv, StepKeeps DEF AlertInv
<1>3. AlertTypeOK'
  BY <1>2 DEF PipelineInv, AlertInv, AlertTypeOK
<1>4. \A f \in Fp : LastFired(f)' \in Nat
  BY StoreAssumption DEF LastFired
<1>5. ASSUME NEW g \in Handler PROVE JobSound(g)'
  <2>1. CASE job'[g] = job[g]
    <3>1. job[g].step = "handoff" => pc'[job[g].ticket] = "created"
      BY <1>1 DEF AlertInv, JobSound
    <3> QED BY <1>4, <2>1, <3>1, OthersSound
  <2>2. CASE job'[g] # job[g]
    <3>1. JobSound(g) /\ Existing' = Existing
      BY <1>1 DEF AlertInv, Existing
    <3>2. CASE job'[g].step = "next"
      BY <2>2, <3>2 DEF JobSound
    <3>3. CASE job'[g].step # "next"
      <4>1. job'[g].step = job[g].step /\ job'[g].cur = job[g].cur /\ job'[g].ticket = job[g].ticket
        BY <2>2, <3>3
      <4>2. KeyOfCur(g)' = KeyOfCur(g)
        BY <4>1 DEF KeyOfCur
      <4> QED BY <1>1, <2>2, <3>1, <4>1, <4>2 DEF JobSound
    <3> QED BY <3>2, <3>3
  <2> QED BY <2>1, <2>2
<1>6. ASSUME NEW g \in Handler, job'[g].step = "handoff"
      PROVE  job[g].step = "handoff" /\ job'[g].ticket = job[g].ticket
  BY <1>6
<1> QED BY <1>1, <1>2, <1>3, <1>5, <1>6 DEF AlertInv

LEMMA FireInv == ASSUME AlertInv, NEW f \in Fp, Fire(f) \/ Stop(f) PROVE AlertInv'
<1>0. /\ firing \in [Fp -> BOOLEAN] /\ fires \in 0..MaxFires /\ created \in 0..MaxTicket
      /\ since \in [Fp -> 0..MaxTicket] /\ ended \in [Fp -> 0..MaxTicket]
      /\ sending \in [Group -> SUBSET Alert] /\ job \in [Handler -> Job]
      /\ MaxTicket \in Nat /\ \A e \in Fp : since[e] <= created /\ ended[e] <= created
  BY StoreAssumption DEF AlertInv, AlertTypeOK, PipelineTypeOK, StoreTypeOK
<1>1. UNCHANGED <<pipelineVars, told, sending, job>>
  BY DEF Fire, Stop
<1>2. /\ firing' \in [Fp -> BOOLEAN] /\ since' \in [Fp -> 0..MaxTicket]
      /\ ended' \in [Fp -> 0..MaxTicket]
  BY <1>0 DEF Fire, Stop
<1>3. fires' \in 0..MaxFires
  BY <1>0, AlertAssumption DEF Fire, Stop
<1>4. ASSUME NEW e \in Fp
      PROVE  since'[e] <= created /\ ended'[e] <= created /\ LastFired(e) <= LastFired(e)'
  BY <1>0 DEF Fire, Stop, LastFired
<1> QED BY <1>0, <1>1, <1>2, <1>3, <1>4, OutsideInv

LEMMA DeliverInv == ASSUME AlertInv, NEW G \in Group, NEW h \in Handler, Deliver(G, h) PROVE AlertInv'
<1>0. /\ firing \in [Fp -> BOOLEAN] /\ fires \in 0..MaxFires
      /\ since \in [Fp -> 0..MaxTicket] /\ ended \in [Fp -> 0..MaxTicket]
      /\ sending \in [Group -> SUBSET Alert] /\ job \in [Handler -> Job]
      /\ MaxTicket \in Nat /\ \A e \in Fp : since[e] <= created /\ ended[e] <= created
  BY StoreAssumption DEF AlertInv, AlertTypeOK
<1> DEFINE B == Batch(G)
           j == [Idle EXCEPT !.step = "next", !.todo = B, !.from = G]
<1>1. /\ UNCHANGED <<pipelineVars, firing, fires, since, ended, told>>
      /\ sending' = [sending EXCEPT ![G] = B] /\ job' = [job EXCEPT ![h] = j]
  BY DEF Deliver
<1>2. ASSUME NEW a \in B
      PROVE  a \in Alert /\ a.fp \in Fp /\ (a.resolved => a.ends = LastFired(a.fp))
  <2>1. PICK f \in G : a = Current(f)
    BY DEF Batch
  <2>2. f \in Fp
    BY AlertAssumption
  <2>3. a.fp = f /\ a.resolved = ~firing[f] /\ a.ends = IF firing[f] THEN 0 ELSE ended[f]
    BY <2>1 DEF Current
  <2>4. a \in Alert
    BY <1>0, <2>1, <2>2 DEF Current, Alert
  <2> QED BY <1>0, <2>2, <2>3, <2>4 DEF LastFired
<1>3. B \in SUBSET Alert
  BY <1>2
<1> HIDE DEF B
<1>4. j \in Job /\ j.step = "next" /\ j.todo = B
  BY <1>3 DEF Idle, Job
<1> HIDE DEF j
<1>5. /\ sending' \in [Group -> SUBSET Alert] /\ job' \in [Handler -> Job]
      /\ job'[h] = j /\ \A g \in Handler \ {h} : job'[g] = job[g]
  BY <1>0, <1>1, <1>3, <1>4
<1>6. \A e \in Fp : LastFired(e)' = LastFired(e) /\ LastFired(e) \in 0..MaxTicket
  BY <1>0, <1>1 DEF LastFired
<1>7. \A e \in Fp : since'[e] <= created /\ ended'[e] <= created /\ LastFired(e) <= LastFired(e)'
  BY <1>0, <1>1, <1>6
<1>8. \A a \in job'[h].todo : a.resolved => a.ends <= LastFired(a.fp)'
  BY <1>0, <1>2, <1>4, <1>5, <1>6
<1>9. \A g \in Handler : \/ job'[g] = job[g]
                         \/ /\ job'[g].step \in {"next", job[g].step}
                            /\ job'[g].step # "next" => job'[g].cur = job[g].cur /\ job'[g].ticket = job[g].ticket
                            /\ \A a \in job'[g].todo : a.resolved => a.ends <= LastFired(a.fp)'
  BY <1>4, <1>5, <1>8
<1> QED BY <1>0, <1>1, <1>5, <1>7, <1>9, OutsideInv

LEMMA HangUpInv == ASSUME AlertInv, NEW h \in Handler, HangUp(h) PROVE AlertInv'
<1>0. /\ firing \in [Fp -> BOOLEAN] /\ fires \in 0..MaxFires
      /\ since \in [Fp -> 0..MaxTicket] /\ ended \in [Fp -> 0..MaxTicket]
      /\ sending \in [Group -> SUBSET Alert] /\ job \in [Handler -> Job] /\ job[h] \in Job
      /\ MaxTicket \in Nat /\ \A e \in Fp : since[e] <= created /\ ended[e] <= created
      /\ JobSound(h)
  BY StoreAssumption DEF AlertInv, AlertTypeOK
<1> DEFINE j == [job[h] EXCEPT !.from = {}]
<1>1. /\ UNCHANGED <<pipelineVars, firing, fires, since, ended, told>>
      /\ sending' = [sending EXCEPT ![job[h].from] = {}] /\ job' = [job EXCEPT ![h] = j]
  BY DEF HangUp
<1>2. /\ j \in Job /\ j.step = job[h].step /\ j.todo = job[h].todo /\ j.cur = job[h].cur
      /\ j.ticket = job[h].ticket
  BY <1>0 DEF Job
<1> HIDE DEF j
<1>3. /\ sending' \in [Group -> SUBSET Alert] /\ job' \in [Handler -> Job]
      /\ job'[h] = j /\ \A g \in Handler \ {h} : job'[g] = job[g]
  BY <1>0, <1>1, <1>2
<1>4. \A e \in Fp : since'[e] <= created /\ ended'[e] <= created /\ LastFired(e) <= LastFired(e)'
  BY <1>0, <1>1 DEF LastFired
<1>5. \A a \in job'[h].todo : a.resolved => a.ends <= LastFired(a.fp)'
  BY <1>0, <1>1, <1>2, <1>3 DEF JobSound, LastFired
<1>6. \A g \in Handler : \/ job'[g] = job[g]
                         \/ /\ job'[g].step \in {"next", job[g].step}
                            /\ job'[g].step # "next" => job'[g].cur = job[g].cur /\ job'[g].ticket = job[g].ticket
                            /\ \A a \in job'[g].todo : a.resolved => a.ends <= LastFired(a.fp)'
  BY <1>2, <1>3, <1>5
<1> QED BY <1>0, <1>1, <1>3, <1>4, <1>6, OutsideInv

LEMMA RestartInv == AlertInv /\ Restart => AlertInv'
<1> SUFFICES ASSUME AlertInv, Restart PROVE AlertInv'
  OBVIOUS
<1>1. /\ Crash /\ job' = [h \in Handler |-> Idle] /\ sending' = [G \in Group |-> {}]
      /\ UNCHANGED <<firing, fires, since, ended, told>>
  BY DEF Restart
<1>2. UNCHANGED <<row, created>>
  BY <1>1 DEF Crash, LoseRuns, storeVars
<1>3. [PipelineNext]_pipelineVars
  BY <1>1 DEF PipelineNext, Environment
<1>4. PipelineInv' /\ \A t \in Existing' : Begun(t)'
  BY <1>3, NextInv, StepKeeps DEF AlertInv
<1>5. Idle \in Job /\ Idle.step = "idle" /\ Idle.todo = {}
  BY DEF Idle, Job
<1>6. AlertTypeOK'
  BY <1>1, <1>4, <1>5 DEF PipelineInv, AlertInv, AlertTypeOK
<1>7. ASSUME NEW h \in Handler PROVE JobSound(h)' /\ job'[h].step = "idle"
  BY <1>1, <1>5 DEF JobSound
<1> QED BY <1>1, <1>2, <1>4, <1>6, <1>7 DEF AlertInv

LEMMA AlertNextInv == AlertInv /\ [AlertNext]_agentVars => AlertInv'
<1> SUFFICES ASSUME AlertInv, [AlertNext]_agentVars PROVE AlertInv'
  OBVIOUS
<1>1. CASE Deliveries
  BY <1>1, FireInv, DeliverInv, HangUpInv, HandlerInv DEF Deliveries
<1>2. CASE UNCHANGED alertVars /\ pc' = pc
  BY <1>2, AlertIsPipeline, BesideInv DEF Waits
<1>3. CASE Clock /\ UNCHANGED alertVars
  BY <1>2, <1>3 DEF Clock, Others, runVars
<1>4. CASE UNCHANGED agentVars
  BY <1>2, <1>4 DEF agentVars, pipelineVars, runVars
<1> QED BY <1>1, <1>3, <1>4, WorksInv, RestartInv DEF AlertNext

LEMMA AlertInitInv == AlertInit => AlertInv
<1> SUFFICES ASSUME AlertInit PROVE AlertInv
  OBVIOUS
<1>1. PipelineInv /\ created = 0 /\ MaxTicket \in Nat
  BY InitInv, StoreAssumption DEF AlertInit, PipelineInit, StoreInit
<1>2. Idle \in Job /\ Idle.step = "idle" /\ Idle.todo = {}
  BY DEF Idle, Job
<1>3. /\ firing = [f \in Fp |-> FALSE] /\ fires = 0 /\ since = [f \in Fp |-> 0]
      /\ ended = [f \in Fp |-> 0] /\ told = [f \in Fp |-> "resolved"]
      /\ sending = [G \in Group |-> {}] /\ job = [h \in Handler |-> Idle]
  BY DEF AlertInit
<1>4. AlertTypeOK
  <2>1. 0 \in 0..MaxTicket /\ 0 \in 0..MaxFires
    BY <1>1, AlertAssumption
  <2> QED BY <1>1, <1>2, <1>3, <2>1 DEF AlertTypeOK, PipelineInv
<1>5. Existing = {}
  BY <1>1 DEF Existing
<1>6. \A h \in Handler : JobSound(h) /\ job[h].step = "idle"
  BY <1>2, <1>3 DEF JobSound
<1>7. \A f \in Fp : since[f] <= created /\ ended[f] <= created
  BY <1>1, <1>3
<1> QED BY <1>1, <1>4, <1>5, <1>6, <1>7 DEF AlertInv

-----------------------------------------------------------------------------
(* What holds of every delivery *)

\* The types of the webhook's state, and what each goroutine holds in each step.
THEOREM AlertInvariance == AlertSpec => []AlertInv
BY AlertInitInv, AlertNextInv, PTL DEF AlertSpec

\* The webhook, AlertManager and a restart do to the tickets only what the
\* environment of Pipeline may do: each of their steps is one of its steps or
\* leaves the tickets and their runs alone.  Whatever is proved of Pipeline
\* beside any environment therefore holds beside the webhook.
THEOREM WebhookIsEnvironment == AlertSpec => PipelineSpec
<1>1. AlertInit => PipelineInit
  BY DEF AlertInit
<1>2. AlertInv /\ [AlertNext]_agentVars => [PipelineNext]_pipelineVars
  BY AlertIsPipeline
<1> QED BY <1>1, <1>2, AlertInvariance, PTL DEF AlertSpec, PipelineSpec

\* Only the webhook's resolve statement closes a ticket.
LEMMA PipelineCloses ==
    ASSUME AlertInv, PipelineWorks \/ Clock, NEW t \in Existing, row'[t].status = "resolved"
    PROVE  row[t].status = "resolved"
<1>0. PipelineInv /\ StoreTypeOK /\ t \in Ticket /\ Existing \subseteq Ticket
  BY ExistingTickets DEF AlertInv, PipelineInv, PipelineTypeOK
<1>1. CASE row' = row
  BY <1>1
<1>2. ASSUME NEW w \in Workload, "manual" \in Source, TriggerAnalysis(w)
      PROVE  row[t].status = "resolved"
  <2>1. <<w, NoAlertName>> \in Key /\ {} \in SUBSET Fp
    BY <1>2, AlertAssumption DEF Key
  <2>2. PICK n \in Ticket : n = created + 1
    BY <1>0, <1>2, <2>1, InsertKeeps DEF TriggerAnalysis
  <2>3. n \notin Existing /\ \A u \in Ticket \ {n} : row'[u] = row[u]
    BY <1>0, <1>2, <2>1, <2>2, InsertKeeps DEF TriggerAnalysis
  <2> QED BY <1>0, <2>3
<1>3. ASSUME NEW u \in Ticket, RunStep(u) PROVE row[t].status = "resolved"
  BY <1>0, <1>1, <1>3, RunStepRow DEF RunWrites
<1>4. CASE Clock
  <2>1. PICK u \in Existing : Grow(u, pc[u] \in Active) \/ CooldownEnds(u)
    BY <1>4 DEF Clock
  <2> DEFINE b == pc[u] \in Active
  <2>2. b \in BOOLEAN /\ (Grow(u, b) \/ CooldownEnds(u)) /\ u \in Ticket
    BY <1>0, <2>1
  <2> HIDE DEF b
  <2>3. row'[t].status = row[t].status
    BY <1>0, <2>2, ClockKeeps
  <2> QED BY <2>3
<1>5. ASSUME NEW u \in Ticket,
             ProcessTicket(u) \/ AcquireSem(u) \/ DeliverResolve(u) \/ Review(u) \/ Pause \/ Resume
      PROVE  row' = row
  BY <1>5 DEF ProcessTicket, AcquireSem, DeliverResolve, Review, Pause, Resume, storeVars
<1> QED BY <1>0, <1>1, <1>2, <1>3, <1>4, <1>5 DEF PipelineWorks, Ask

LEMMA HandlerCloses ==
    ASSUME AlertInv, NEW h \in Handler, HandlerStep(h), NEW t \in Existing,
           row[t].status # "resolved", row'[t].status = "resolved"
    PROVE  \E a \in job[h].todo :
             a.resolved /\ t \in ResolveByTenantService(KeyOf[a.fp][1], a.fp, a.ends)
<1>0. PipelineInv /\ StoreTypeOK /\ t \in Ticket /\ Existing \subseteq Ticket /\ JobSound(h)
  BY ExistingTickets DEF AlertInv, PipelineInv, PipelineTypeOK
<1>1. row' # row
  OBVIOUS
<1>2. ASSUME NEW a \in job[h].todo, ResolveTickets(h, a)
      PROVE  a.resolved /\ t \in ResolveByTenantService(KeyOf[a.fp][1], a.fp, a.ends)
  <2> DEFINE S == ResolveByTenantService(KeyOf[a.fp][1], a.fp, a.ends)
  <2>1. a.resolved /\ ResolveRows(S) /\ S \in SUBSET Ticket
    BY <1>0, <1>1, <1>2 DEF ResolveTickets, Resolved, NoStore, pipelineVars, storeVars, ResolveByTenantService
  <2> HIDE DEF S
  <2>2. t \in S
    BY <1>0, <2>1, ResolveKeeps
  <2> QED BY <2>1, <2>2 DEF S
<1>3. ~TouchDuplicate(h)
  <2> SUFFICES ASSUME TouchDuplicate(h) PROVE FALSE
    OBVIOUS
  <2>1. job[h].ticket \in Ticket /\ job[h].cur \in SUBSET Fp
    BY <1>0, CurIsAlert DEF TouchDuplicate, JobSound
  <2>2. TouchWithFingerprint(job[h].ticket, job[h].cur)
    BY <1>1 DEF TouchDuplicate, NoStore, pipelineVars, storeVars
  <2> QED BY <1>0, <2>1, <2>2, TouchKeeps
<1>4. ~CreateTicket(h)
  <2> SUFFICES ASSUME CreateTicket(h) PROVE FALSE
    OBVIOUS
  <2>1. KeyOfCur(h) \in Key /\ job[h].cur \in SUBSET Fp /\ "alertmanager" \in Source
    BY CurIsAlert, AlertAssumption DEF CreateTicket
  <2>2. NewTicket("alertmanager", KeyOfCur(h), job[h].cur)
    BY <1>1 DEF CreateTicket, NoStore, pipelineVars, storeVars
  <2>3. PICK n \in Ticket : n = created + 1
    BY <1>0, <2>1, <2>2, InsertKeeps
  <2>4. n \notin Existing /\ \A u \in Ticket \ {n} : row'[u] = row[u]
    BY <1>0, <2>1, <2>2, <2>3, InsertKeeps
  <2> QED BY <1>0, <2>4
<1>5. ASSUME NEW a \in job[h].todo
      PROVE  /\ ~Ignore(h, a) /\ ~LookUp(h, a) /\ ~CheckCooldown(h) /\ ~HandOff(h)
             /\ ~SpendBudget(h) /\ ~Answer(h)
  BY <1>1 DEF Ignore, LookUp, CheckCooldown, HandOff, ProcessTicket, SpendBudget, Answer, NoStore,
              pipelineVars, storeVars
<1>6. ~CheckCooldown(h) /\ ~HandOff(h) /\ ~SpendBudget(h) /\ ~Answer(h)
  BY <1>1 DEF CheckCooldown, HandOff, ProcessTicket, SpendBudget, Answer, NoStore,
              pipelineVars, storeVars
<1> QED BY <1>2, <1>3, <1>4, <1>5, <1>6 DEF HandlerStep

\* A delivery, however late or repeated, closes no ticket that is younger than the
\* last occurrence it can know of (fingerprint and endsAt of ResolveByTenantService).
THEOREM OccurrencesSpared == AlertSpec => NextOccurrenceSpared
<1> DEFINE Spared(t) == \E f \in Fp : /\ KeyOf[f][1] = row[t].key[1]
                                      /\ row[t].fps = {} \/ f \in row[t].fps
                                      /\ t <= (IF firing[f] THEN since[f] ELSE ended[f])
           Step == \A t \in Ticket : Unclosed(t) /\ row'[t].status = "resolved" => Spared(t)
<1>1. AlertInv /\ [AlertNext]_agentVars => Step \/ UNCHANGED agentVars
  <2> SUFFICES ASSUME AlertInv, AlertNext, NEW t \in Ticket, Unclosed(t), row'[t].status = "resolved"
               PROVE  Spared(t)
    OBVIOUS
  <2>0. t \in Existing /\ row[t].status # "resolved"
    BY DEF Unclosed, IsClosed, Closed
  <2>1. row' # row
    BY <2>0
  <2>2. PICK h \in Handler : HandlerStep(h)
    BY <2>0, <2>1, PipelineCloses
       DEF AlertNext, Deliveries, Fire, Stop, Deliver, HangUp, Restart, Crash, LoseRuns, pipelineVars, storeVars
  <2>3. PICK a \in job[h].todo :
            a.resolved /\ t \in ResolveByTenantService(KeyOf[a.fp][1], a.fp, a.ends)
    BY <2>0, <2>2, HandlerCloses
  <2>4. a.fp \in Fp /\ a.ends \in Nat /\ a.ends <= LastFired(a.fp)
    BY <2>3, StoreAssumption DEF AlertInv, AlertTypeOK, Job, Alert, JobSound
  <2>5. LastFired(a.fp) \in Nat
    BY <2>4, StoreAssumption DEF AlertInv, AlertTypeOK, LastFired
  <2>6. /\ row[t].key[1] = KeyOf[a.fp][1]
        /\ row[t].fps = {} \/ a.fp \in row[t].fps
        /\ t <= a.ends
    BY <2>3 DEF ResolveByTenantService
  <2>7. t <= LastFired(a.fp)
    BY <2>4, <2>5, <2>6 DEF Ticket
  <2> QED BY <2>4, <2>6, <2>7 DEF LastFired
<1>2. Step \/ UNCHANGED agentVars => [Step]_agentVars
  OBVIOUS
<1> QED BY <1>1, <1>2, AlertInvariance, PTL DEF AlertSpec, NextOccurrenceSpared

-----------------------------------------------------------------------------
(* What a delivery owes an alert *)

Tracked(h) ==
    \/ job[h].failed
    \/ job[h].ticket # NoTicket /\ job[h].cur \subseteq row'[job[h].ticket].fps
    \/ FindRecentlyResolved(KeyOfCur(h)) # {} /\ KeyOfCur(h)[2] \notin Critical

LEMMA HandlerTracks ==
    ASSUME AlertInv, NEW h \in Handler, HandlerStep(h),
           job[h].cur # {}, job'[h].cur = {}, job'[h].step = "next", job'[h].failed = job[h].failed
    PROVE  Tracked(h)
<1>0. AlertTypeOK /\ PipelineInv /\ StoreTypeOK /\ JobSound(h) /\ Existing \subseteq Ticket /\ job[h] \in Job
  BY ExistingTickets DEF AlertInv, AlertTypeOK, PipelineInv, PipelineTypeOK
<1>1. CASE Leave(h, FALSE)
  <2>1. job'[h].failed = (job[h].failed \/ ~FALSE)
    BY <1>0, <1>1, LeaveJob
  <2> QED BY <2>1 DEF Tracked
<1>2. CASE TouchDuplicate(h) /\ ~Leave(h, FALSE)
  <2>1. job[h].ticket \in Existing /\ job[h].cur \in SUBSET Fp
    BY <1>0, <1>2, CurIsAlert DEF TouchDuplicate, JobSound
  <2>2. TouchWithFingerprint(job[h].ticket, job[h].cur)
    BY <1>2 DEF TouchDuplicate
  <2>3. row'[job[h].ticket].fps = row[job[h].ticket].fps \cup job[h].cur
    BY <1>0, <2>1, <2>2, TouchKeeps
  <2> QED BY <1>0, <2>1, <2>3 DEF Tracked, Ticket, NoTicket
<1>3. CASE CheckCooldown(h) /\ ~Leave(h, FALSE)
  <2>1. \/ FindRecentlyResolved(KeyOfCur(h)) # {} \/ job' = [job EXCEPT ![h].step = "create"]
    BY <1>3 DEF CheckCooldown
  <2>2. job' # [job EXCEPT ![h].step = "create"]
    <3>1. job \in [Handler -> Job]
      BY <1>0 DEF AlertTypeOK
    <3> QED BY <3>1, <1>0 DEF Job
  <2>3. KeyOfCur(h)[2] \notin Critical
    BY <1>0, <1>3 DEF CheckCooldown, JobSound
  <2> QED BY <2>1, <2>2, <2>3 DEF Tracked
<1>4. CASE CreateTicket(h) /\ ~Leave(h, FALSE)
  <2>1. PICK t : job' = [job EXCEPT ![h].step = "handoff", ![h].ticket = t]
    BY <1>4 DEF CreateTicket
  <2>2. job'[h].step = "handoff"
    BY <1>0, <2>1 DEF AlertTypeOK, Job
  <2> QED BY <2>2
<1>5. CASE HandOff(h)
  <2>1. /\ job[h].ticket \in Existing /\ job[h].cur \subseteq row[job[h].ticket].fps /\ row' = row
    BY <1>0, <1>5 DEF HandOff, JobSound, ProcessTicket, storeVars
  <2> QED BY <1>0, <2>1 DEF Tracked, Ticket, NoTicket
<1>6. ASSUME NEW a \in job[h].todo, ResolveTickets(h, a) \/ Ignore(h, a) \/ LookUp(h, a)
      PROVE  Tracked(h)
  <2>1. CASE LeaveAlert(h, a, TRUE) \/ LeaveAlert(h, a, FALSE)
    <3>1. job'[h].cur = job[h].cur
      BY <1>0, <2>1, LeaveAlertJob
    <3> QED BY <3>1
  <2>2. CASE LookUp(h, a) /\ ~LeaveAlert(h, a, FALSE)
    <3>1. PICK step, t : Take(h, a, step, t)
      BY <2>2 DEF LookUp
    <3>2. job'[h].cur = {a.fp}
      BY <1>0, <3>1 DEF Take, AlertTypeOK, Job
    <3> QED BY <3>2
  <2> QED BY <1>6, <2>1, <2>2 DEF ResolveTickets, Ignore
<1>7. ~SpendBudget(h)
  <2> SUFFICES ASSUME SpendBudget(h) PROVE FALSE
    OBVIOUS
  <2>1. job'[h].cur = job[h].cur
    BY <1>0 DEF SpendBudget, AlertTypeOK, Job
  <2> QED BY <2>1
<1>8. ~Answer(h)
  <2> SUFFICES ASSUME Answer(h) PROVE FALSE
    OBVIOUS
  <2>1. job'[h] = Idle
    BY <1>0 DEF Answer, AlertTypeOK
  <2> QED BY <2>1 DEF Idle
<1>9. CASE \E a \in job[h].todo : ResolveTickets(h, a) \/ Ignore(h, a) \/ LookUp(h, a)
  BY <1>6, <1>9
<1> QED BY <1>1, <1>2, <1>3, <1>4, <1>5, <1>7, <1>8, <1>9 DEF HandlerStep

\* Whenever a goroutine goes on from a firing alert without reporting a failure, a
\* ticket carries the alert's fingerprint or the flap cooldown holds it back, and no
\* critical alert (processAlert: dedup, cooldown, Create, onTicket).
THEOREM AlertsTracked == AlertSpec => HandledAlertIsTracked
<1> DEFINE Leaves(h) == /\ job[h].cur # {} /\ job'[h].cur = {} /\ job'[h].step = "next"
                        /\ job'[h].failed = job[h].failed
           Step == \A h \in Handler : Leaves(h) => Tracked(h)
<1>1. AlertInv /\ [AlertNext]_agentVars => Step \/ UNCHANGED agentVars
  <2> SUFFICES ASSUME AlertInv, AlertNext, NEW h \in Handler, Leaves(h)
               PROVE  Tracked(h)
    OBVIOUS
  <2>0. job \in [Handler -> Job] /\ job[h] \in Job /\ job[h] # Idle /\ job'[h] # job[h] /\ AlertTypeOK
    BY DEF AlertInv, AlertTypeOK, Idle
  <2>1. job' # job
    BY <2>0
  <2>2. ASSUME NEW g \in Handler, HandlerStep(g) PROVE g = h
    <3>1. CASE \E a \in job[g].todo, ok \in BOOLEAN : LeaveAlert(g, a, ok)
      BY <2>0, <3>1, LeaveAlertJob DEF Works
    <3>2. CASE \E ok \in BOOLEAN : Leave(g, ok)
      BY <2>0, <3>2, LeaveJob DEF Works
    <3>3. CASE \E j : job' = [job EXCEPT ![g] = j]
      BY <2>0, <3>3
    <3>4. ASSUME NEW a \in job[g].todo, ResolveTickets(g, a) \/ Ignore(g, a)
          PROVE  \E ok \in BOOLEAN : LeaveAlert(g, a, ok)
      BY <3>4 DEF ResolveTickets, Ignore
    <3>5. ASSUME NEW a \in job[g].todo, LookUp(g, a)
          PROVE  (\E ok \in BOOLEAN : LeaveAlert(g, a, ok)) \/ \E j : job' = [job EXCEPT ![g] = j]
      BY <3>5, Zenon DEF LookUp, Take
    <3>6. ASSUME TouchDuplicate(g) \/ CheckCooldown(g) \/ CreateTicket(g) \/ HandOff(g)
                   \/ SpendBudget(g) \/ Answer(g)
          PROVE  (\E ok \in BOOLEAN : Leave(g, ok)) \/ \E j : job' = [job EXCEPT ![g] = j]
      BY <3>6, Zenon DEF TouchDuplicate, CheckCooldown, CreateTicket, HandOff, SpendBudget, Answer
    <3> QED BY <2>2, <3>1, <3>2, <3>3, <3>4, <3>5, <3>6 DEF HandlerStep
  <2>3. ASSUME NEW G \in Group, NEW g \in Handler, Deliver(G, g) PROVE FALSE
    <3>1. g # h
      BY <2>0, <2>3 DEF Deliver
    <3> QED BY <2>0, <2>3, <3>1 DEF Deliver
  <2>4. ASSUME NEW g \in Handler, HangUp(g) PROVE FALSE
    <3>1. job'[h].cur = job[h].cur
      BY <2>0, <2>4 DEF HangUp, Job
    <3> QED BY <3>1
  <2>5. ~Restart
    BY DEF Restart, Idle
  <2>6. PICK g \in Handler : HandlerStep(g)
    BY <2>1, <2>3, <2>4, <2>5 DEF AlertNext, Deliveries, Fire, Stop, PipelineWorks, alertVars
  <2> QED BY <2>2, <2>6, HandlerTracks
<1>2. Step \/ UNCHANGED agentVars
        => [\A h \in Handler :
              job[h].cur # {} /\ job'[h].cur = {} /\ job'[h].step = "next" /\ job'[h].failed = job[h].failed =>
                \/ job[h].failed
                \/ job[h].ticket # NoTicket /\ job[h].cur \subseteq row'[job[h].ticket].fps
                \/ FindRecentlyResolved(KeyOfCur(h)) # {} /\ KeyOfCur(h)[2] \notin Critical]_agentVars
  BY DEF Tracked
<1> QED BY <1>1, <1>2, AlertInvariance, PTL DEF AlertSpec, HandledAlertIsTracked

-----------------------------------------------------------------------------
(* Twins *)

\* The tickets and the goroutines that TwinsBounded counts.
LEMMA TwinSets ==
    ASSUME NEW k
    PROVE  /\ IsFiniteSet(Creating(k)) /\ Cardinality(Creating(k)) \in Nat
           /\ Cardinality(Creating(k)) <= Cardinality(Handler)
           /\ Cardinality(Handler) \in Nat
<1>1. Creating(k) \subseteq Handler /\ IsFiniteSet(Handler)
  BY AlertAssumption DEF Creating
<1> QED BY <1>1, FS_Subset, FS_CardinalityType

LEMMA TwinTickets ==
    ASSUME PipelineInv, NEW k
    PROVE  IsFiniteSet(Twins(k)) /\ Cardinality(Twins(k)) \in Nat
<1>1. Twins(k) \subseteq 1..MaxTicket
  BY ExistingTickets DEF Twins, Ticket
<1>2. IsFiniteSet(1..MaxTicket)
  BY FS_Interval, StoreAssumption
<1> QED BY <1>1, <1>2, FS_Subset, FS_CardinalityType

\* No step makes a twin of a ticket that was none.
LEMMA OldTwins ==
    ASSUME AlertInv, [PipelineNext]_pipelineVars, NEW k, NEW t \in Existing, t \in Twins(k)'
    PROVE  t \in Twins(k)
<1>1. PipelineInv /\ Existing \subseteq Ticket /\ Begun(t) /\ Survives(t) /\ t \in Ticket
  BY ExistingTickets, StepKeeps DEF AlertInv
<1>2. row[t].status # "none" /\ History(t)
  BY <1>1 DEF PipelineInv, TicketInv, Begun, OpenStatus
<1>3. /\ row'[t].key = k /\ row'[t].source = "alertmanager" /\ "resolved" \notin row'[t].took
  BY DEF Twins
<1>4. "resolved" \notin row[t].took /\ row[t].key = k /\ row[t].source = "alertmanager"
  BY <1>1, <1>3 DEF Survives, Keeps
<1>5. row[t].status # "resolved" /\ row[t].status # "suppressed"
  BY <1>1, <1>2, <1>4 DEF History, Begun, OpenStatus
<1> QED BY <1>4, <1>5 DEF Twins, IsClosed, Closed

\* A goroutine is about to create a ticket only when it found none of the key.
LEMMA CreatingGrows ==
    ASSUME AlertInv, AlertNext, NEW k, NEW g \in Creating(k)', g \notin Creating(k)
    PROVE  g \in Handler /\ UNCHANGED pipelineVars /\ FindDuplicate(k) = NoTicket
<1>0. /\ g \in Handler /\ job'[g].step \in {"flap", "create"} /\ KeyOfCur(g)' = k
      /\ AlertTypeOK /\ job \in [Handler -> Job] /\ job[g] \in Job
  BY DEF Creating, AlertInv, AlertTypeOK
<1>1. job[g].step \in {"flap", "create"} => job'[g].cur # job[g].cur
  BY <1>0 DEF Creating, KeyOfCur
<1>2. job' # job
  BY <1>0, <1>1
<1>3. ~Restart
  BY <1>0 DEF Restart, Idle
<1>4. ASSUME NEW G \in Group, NEW h \in Handler, Deliver(G, h) PROVE FALSE
  <2>1. job'[h].step = "next"
    BY <1>0, <1>4 DEF Deliver, Idle
  <2>2. g # h
    BY <1>0, <2>1
  <2>3. job'[g] = job[g]
    BY <1>0, <1>4, <2>2 DEF Deliver
  <2> QED BY <1>0, <1>1, <2>3
<1>5. ASSUME NEW h \in Handler, HangUp(h) PROVE FALSE
  <2>1. job'[g].step = job[g].step /\ job'[g].cur = job[g].cur
    BY <1>0, <1>5 DEF HangUp, Job
  <2> QED BY <1>0, <1>1, <2>1
<1>6. PICK h \in Handler : HandlerStep(h)
  BY <1>2, <1>3, <1>4, <1>5 DEF AlertNext, Deliveries, Fire, Stop, PipelineWorks, alertVars
<1>7. ~(Works(h) /\ job'[h].step \in {"next", "handoff", "idle", "touch"})
  BY <1>0, <1>1 DEF Works
<1>8. ~(Works(h) /\ job'[h].step = "create" /\ job[h].step = "flap" /\ job'[h].cur = job[h].cur)
  BY <1>0, <1>1 DEF Works
<1>9. ~Leave(h, TRUE) /\ ~Leave(h, FALSE)
  BY <1>0, <1>7, LeaveJob
<1>10. ASSUME NEW a, NEW ok \in BOOLEAN, LeaveAlert(h, a, ok), job[h].step = "next" PROVE FALSE
  BY <1>0, <1>7, <1>10, LeaveAlertJob
<1>11. job' # [job EXCEPT ![h].step = "create"] \/ job[h].step # "flap"
  <2> SUFFICES ASSUME job' = [job EXCEPT ![h].step = "create"], job[h].step = "flap" PROVE FALSE
    OBVIOUS
  <2> DEFINE j == [job[h] EXCEPT !.step = "create"]
  <2>1. j \in Job /\ j.step = "create" /\ j.cur = job[h].cur
    BY <1>0 DEF Job
  <2>2. job' = [job EXCEPT ![h] = j]
    BY <1>0
  <2> HIDE DEF j
  <2>3. Works(h) /\ job'[h] = j
    BY <1>0, <2>1, <2>2 DEF Works
  <2> QED BY <1>8, <2>1, <2>3
<1>12. ~SpendBudget(h) /\ ~Answer(h)
  <2>1. ASSUME SpendBudget(h) PROVE FALSE
    <3>1. \A f \in Handler : job'[f].step = job[f].step /\ job'[f].cur = job[f].cur
      BY <1>0, <2>1 DEF SpendBudget, Job
    <3> QED BY <1>0, <1>1, <3>1
  <2>2. ASSUME Answer(h) PROVE FALSE
    <3>1. job' = [job EXCEPT ![h] = Idle] /\ Idle.step = "idle"
      BY <2>2 DEF Answer, Idle
    <3>2. g # h
      BY <1>0, <3>1
    <3> QED BY <1>0, <1>1, <3>1, <3>2
  <2> QED BY <2>1, <2>2
<1>13. ~CreateTicket(h)
  <2> SUFFICES ASSUME job' = [job EXCEPT ![h].step = "handoff", ![h].ticket = created + 1] PROVE FALSE
    BY <1>9 DEF CreateTicket
  <2>1. job'[h].step = "handoff"
    BY <1>0 DEF Job
  <2>2. g # h
    BY <1>0, <2>1
  <2> QED BY <1>0, <1>1, <2>2
<1>14. PICK a \in job[h].todo : LookUp(h, a) /\ ~LeaveAlert(h, a, FALSE)
  BY <1>6, <1>9, <1>10, <1>11, <1>12, <1>13
     DEF HandlerStep, ResolveTickets, Ignore, IsFiring, LookUp, TouchDuplicate, CheckCooldown, HandOff
<1>15. ~Take(h, a, "touch", FindDuplicate(KeyOf[a.fp])) \/ FindDuplicate(KeyOf[a.fp]) \notin Ticket \cup {NoTicket}
  BY <1>0, <1>7, TakeJob
<1>16. FindDuplicate(KeyOf[a.fp]) \in Ticket \cup {NoTicket}
  BY DuplicateOf DEF AlertInv
<1>17. /\ UNCHANGED pipelineVars /\ FindDuplicate(KeyOf[a.fp]) = NoTicket
       /\ Take(h, a, "flap", NoTicket) \/ Take(h, a, "create", NoTicket)
  BY <1>14, <1>15, <1>16 DEF LookUp
<1>18. Works(h) /\ job'[h].cur = {a.fp} /\ a.fp \in Fp
  BY <1>0, <1>17, TakeJob
<1>19. h = g
  BY <1>0, <1>1, <1>18 DEF Works
<1>20. KeyOfCur(g)' = KeyOf[a.fp]
  <2>1. (CHOOSE f \in Fp : {a.fp} = {f}) = a.fp
    BY <1>18
  <2> QED BY <1>18, <1>19, <2>1 DEF KeyOfCur
<1> QED BY <1>0, <1>17, <1>20

\* Every new twin is the ticket of a goroutine that stops being about to create one.
LEMMA TwinsGrow ==
    ASSUME AlertInv, AlertNext, NEW k, NEW t \in Twins(k)', t \notin Twins(k)
    PROVE  t = created + 1 /\ \E h \in Creating(k) : h \notin Creating(k)'
<1>0. /\ PipelineInv /\ AlertTypeOK /\ [PipelineNext]_pipelineVars /\ Existing \subseteq Ticket
      /\ t \notin Existing
  BY AlertIsPipeline, OldTwins, ExistingTickets DEF AlertInv
<1>1. created' # created
  BY <1>0 DEF Twins, Existing
<1>2. ASSUME NEW w \in Workload, "manual" \in Source, TriggerAnalysis(w) PROVE FALSE
  <2>1. <<w, NoAlertName>> \in Key /\ {} \in SUBSET Fp
    BY <1>2, AlertAssumption DEF Key
  <2>0. "manual" \in Source /\ NewTicket("manual", <<w, NoAlertName>>, {})
    BY <1>2 DEF TriggerAnalysis
  <2>2. PICK n \in Ticket : n = created + 1
    BY <1>0, <2>0, <2>1, InsertKeeps
  <2>3. /\ Existing' = Existing \cup {n}
        /\ row'[n] = [status |-> "open", source |-> "manual", key |-> <<w, NoAlertName>>,
                      fps |-> {}, pr |-> FALSE, age |-> 0, cooling |-> FALSE, took |-> {"open"}]
    BY <1>0, <2>0, <2>1, <2>2, InsertKeeps
  <2> QED BY <1>0, <2>3 DEF Twins
<1>3. ASSUME NEW u \in Ticket, RunStep(u) PROVE FALSE
  BY <1>0, <1>1, <1>3, RunStepRow
<1>4. PICK h \in Handler : CreateTicket(h) /\ ~NoStore
  BY <1>0, <1>1, <1>2, <1>3, Zenon
     DEF AlertNext, Deliveries, Fire, Stop, Deliver, HangUp, HandlerStep, ResolveTickets, Resolved,
         Ignore, LookUp, TouchDuplicate, CheckCooldown, CreateTicket, HandOff, SpendBudget, Answer,
         NoStore, PipelineWorks, Ask, ProcessTicket, AcquireSem, DeliverResolve, Review, Pause, Resume,
         Restart, Crash, LoseRuns, Clock, pipelineVars, storeVars, agentVars
<1>5. /\ NewTicket("alertmanager", KeyOfCur(h), job[h].cur) /\ job[h].step = "create"
      /\ job' = [job EXCEPT ![h].step = "handoff", ![h].ticket = created + 1]
  BY <1>4 DEF CreateTicket
<1>6. KeyOfCur(h) \in Key /\ job[h].cur \in SUBSET Fp /\ "alertmanager" \in Source
  BY <1>5, CurIsAlert, AlertAssumption
<1>7. PICK n \in Ticket : n = created + 1
  BY <1>0, <1>5, <1>6, InsertKeeps
<1>8. /\ Existing' = Existing \cup {n}
      /\ row'[n] = [status |-> "open", source |-> "alertmanager", key |-> KeyOfCur(h),
                    fps |-> job[h].cur, pr |-> FALSE, age |-> 0, cooling |-> FALSE,
                    took |-> {"open"}]
  BY <1>0, <1>5, <1>6, <1>7, InsertKeeps
<1>9. t = n /\ k = KeyOfCur(h)
  BY <1>0, <1>8 DEF Twins
<1>10. job'[h].step = "handoff"
  BY <1>0, <1>5, <1>7, CreatedJob
<1>11. h \in Creating(k) /\ h \notin Creating(k)'
  BY <1>5, <1>9, <1>10 DEF Creating
<1> QED BY <1>7, <1>9, <1>11

LEMMA TwinsStep ==
    ASSUME AlertInv, [AlertNext]_agentVars, TwinsBounded PROVE TwinsBounded'
<1> SUFFICES ASSUME NEW k \in Key
             PROVE  Cardinality(Twins(k)') + Cardinality(Creating(k)') <= Cardinality(Handler)
  BY DEF TwinsBounded
<1> DEFINE T == Twins(k)
           C == Creating(k)
           N == Cardinality(Handler)
<1>0. /\ Cardinality(T) + Cardinality(C) <= N
      /\ IsFiniteSet(T) /\ IsFiniteSet(C) /\ N \in Nat
      /\ Cardinality(T) \in Nat /\ Cardinality(C) \in Nat
  BY TwinTickets, TwinSets DEF TwinsBounded, AlertInv
<1>1. AlertInv'
  BY AlertNextInv
<1>2. Cardinality(T') \in Nat /\ Cardinality(C') \in Nat /\ Cardinality(C') <= N
  <2>1. PipelineInv'
    BY <1>1 DEF AlertInv
  <2>2. IsFiniteSet(T') /\ Cardinality(T') \in Nat
    <3>1. T' \subseteq 1..MaxTicket
      BY <2>1, StoreAssumption DEF Twins, Existing, PipelineInv, PipelineTypeOK, StoreTypeOK
    <3>2. IsFiniteSet(1..MaxTicket)
      BY FS_Interval, StoreAssumption
    <3> QED BY <3>1, <3>2, FS_Subset, FS_CardinalityType
  <2>3. C' \subseteq Handler
    BY DEF Creating
  <2>4. IsFiniteSet(Handler)
    BY AlertAssumption
  <2> QED BY <2>2, <2>3, <2>4, FS_Subset, FS_CardinalityType
<1>3. CASE T' \subseteq T /\ C' \subseteq C
  <2>1. Cardinality(T') <= Cardinality(T) /\ Cardinality(C') <= Cardinality(C)
    BY <1>0, <1>3, FS_Subset
  <2> QED BY <1>0, <1>2, <2>1
<1>4. CASE UNCHANGED agentVars
  <2>1. T' = T /\ C' = C
    BY <1>4 DEF agentVars, pipelineVars, storeVars, alertVars, Twins, Creating, Existing, IsClosed, KeyOfCur
  <2> QED BY <1>3, <2>1
<1>5. ASSUME AlertNext, NEW g \in C', g \notin C
      PROVE  Cardinality(T') + Cardinality(C') <= N
  <2>1. UNCHANGED pipelineVars /\ FindDuplicate(k) = NoTicket
    BY <1>5, CreatingGrows
  <2>2. T' = T
    BY <2>1 DEF pipelineVars, storeVars, Twins, Existing, IsClosed
  <2>3. T = {}
    BY <2>1, DuplicateOf DEF AlertInv, Twins
  <2>4. Cardinality(T') = 0
    BY <2>2, <2>3, FS_EmptySet
  <2> QED BY <1>0, <1>2, <2>4
<1>6. ASSUME AlertNext, C' \subseteq C, NEW t \in T', t \notin T
      PROVE  Cardinality(T') + Cardinality(C') <= N
  <2>1. PICK h \in C : h \notin C'
    BY <1>6, TwinsGrow
  <2>2. T' \subseteq T \cup {t}
    BY <1>6, TwinsGrow
  <2> HIDE DEF T, C, N
  <2>3. Cardinality(T \cup {t}) = Cardinality(T) + 1 /\ IsFiniteSet(T \cup {t})
    BY <1>0, <1>6, FS_AddElement
  <2>4. Cardinality(T') <= Cardinality(T \cup {t})
    BY <2>2, <2>3, FS_Subset
  <2>5. Cardinality(C \ {h}) = Cardinality(C) - 1 /\ IsFiniteSet(C \ {h})
    BY <1>0, <2>1, FS_RemoveElement
  <2>6. C' \subseteq C \ {h}
    BY <1>6, <2>1
  <2>7. Cardinality(C') <= Cardinality(C \ {h})
    BY <2>5, <2>6, FS_Subset
  <2> QED BY <1>0, <1>2, <2>3, <2>4, <2>5, <2>7
<1> QED BY <1>3, <1>4, <1>5, <1>6

\* Overlapping deliveries of one key leave at most as many unclosed tickets of it as
\* there are deliveries at a time (the look-up and the insert of processAlert).
THEOREM TwinsStayBounded == AlertSpec => []TwinsBounded
<1>1. AlertInit => TwinsBounded
  <2> SUFFICES ASSUME AlertInit, NEW k \in Key
               PROVE  Cardinality(Twins(k)) + Cardinality(Creating(k)) <= Cardinality(Handler)
    BY DEF TwinsBounded
  <2>1. Twins(k) = {} /\ Creating(k) = {}
    BY StoreAssumption DEF AlertInit, PipelineInit, StoreInit, Twins, Existing, Creating, Idle
  <2>2. Cardinality({}) = 0 /\ Cardinality(Handler) \in Nat
    BY FS_EmptySet, TwinSets
  <2> QED BY <2>1, <2>2
<1> QED BY <1>1, TwinsStep, AlertInvariance, PTL DEF AlertSpec

-----------------------------------------------------------------------------
(* What 200 promises *)

\* Nothing cuts a delivery short, and a key that is owed a ticket is one alert's: the
\* heartbeat of another alert of the key could be overwritten by the run's full-row
\* write, and its resolve could close the ticket that both share.
PlainDeliveries ==
    /\ Faults \cap {"store", "hangup", "crash"} = {}
    /\ \A f, g \in Fp : Owed(f) /\ KeyOf[g] = KeyOf[f] => g = f
    /\ "manual" \in Source => NoAlertName \notin Critical

\* Ticket t carries the alert, in its row and in the copy that may overwrite it.
Sits(t, f) ==
    /\ row[t].fps = {f}
    /\ pc[t] \in Waiting \cup {"start"} => mem[t].fps = {f}

LEMMA SitsBeside ==
    ASSUME NEW t, NEW f, Sits(t, f), row'[t].fps = row[t].fps,
           pc'[t] \in Waiting \cup {"start"} =>
             pc[t] \in Waiting \cup {"start"} /\ mem'[t] = mem[t]
    PROVE  Sits(t, f)'
BY DEF Sits

LEMMA SitsRun ==
    ASSUME PipelineInv, NEW t \in Ticket, NEW f, Sits(t, f), NEW u \in Ticket, RunStep(u)
    PROVE  Sits(t, f)'
<1>0. /\ StoreTypeOK /\ row[u] \in Row /\ mem[u] \in Copy /\ pc \in [Ticket -> Pc]
      /\ mem \in [Ticket -> Copy]
  BY DEF PipelineInv, PipelineTypeOK, StoreTypeOK
<1>1. CASE t # u
  <2>1. row'[t] = row[t] /\ pc'[t] = pc[t]
    BY <1>1, RunStepRow, RunStepPc DEF RunWrites
  <2>2. mem' = mem \/ \E m : mem' = [mem EXCEPT ![u] = m]
    BY Zenon DEF RunStep, MarkAnalyzing, PublishAlert, Reload, NoDiagnosis, Diagnosed, SyncDiagnosis,
           Advise, Suggest, StartFix, FixStops, FixReady, CheckLimits, PushBranch, OpenPR, Link, LinkOnly,
           MirrorPR, MergePR, Persist, Mirror, Move, Continue, Return, StoreFails
  <2>3. mem'[t] = mem[t]
    BY <1>0, <1>1, <2>2
  <2> QED BY <2>1, <2>3, SitsBeside
<1>2. CASE t = u /\ pc[t] # "start"
  <2>1. pc[t] \in Active /\ row'[t].fps = row[t].fps
    BY <1>2, RunStepRow, RunStepPc DEF RunWrites
  <2>2. pc'[t] \notin Waiting \cup {"start"}
    BY <1>2, RunTo DEF Active, Waiting
  <2> QED BY <2>1, <2>2, SitsBeside
<1>3. CASE t = u /\ pc[t] = "start"
  <2>1. pc'[t] \notin Waiting \cup {"start"}
    BY <1>3, RunTo DEF Active, Waiting
  <2>2. MarkAnalyzing(t)
    BY <1>3, Zenon DEF RunStep, PublishAlert, Reload, NoDiagnosis, Diagnosed, SyncDiagnosis, Advise,
           Suggest, StartFix, FixStops, FixReady, CheckLimits, PushBranch, OpenPR, Link, LinkOnly,
           MirrorPR, MergePR, Persist, Mirror, Move
  <2>3. CASE StoreFails(t)
    BY <2>1, <2>3, SitsBeside DEF StoreFails, storeVars
  <2>4. CASE ~StoreFails(t)
    <3> DEFINE m == [mem[t] EXCEPT !.status = "analyzing"]
               q == Takes(row[t], m.status)
               r == [q EXCEPT !.fps = m.fps, !.pr = m.pr, !.cooling = FALSE]
    <3>1. m \in Copy /\ m.status \in Status /\ m.fps = mem[t].fps
      BY <1>0, <1>3 DEF Copy, Status, OpenStatus
    <3>2. Write(t, r)
      BY <2>2, <2>4 DEF MarkAnalyzing, Update
    <3>3. m.fps = {f}
      BY <1>3, <3>1 DEF Sits
    <3> HIDE DEF m
    <3>4. q \in Row
      BY <1>0, <1>3, <3>1, TakesFields
    <3> HIDE DEF q
    <3>5. r.fps = {f}
      BY <3>3, <3>4 DEF Row
    <3> HIDE DEF r
    <3>6. row'[t].fps = {f}
      BY <1>0, <3>2, <3>5 DEF Write, StoreTypeOK
    <3> QED BY <2>1, <3>6 DEF Sits
  <2> QED BY <2>3, <2>4
<1> QED BY <1>1, <1>2, <1>3

LEMMA SitsEntry ==
    ASSUME PipelineInv, NEW t \in Ticket, NEW f, Sits(t, f), NEW u \in Ticket,
           ProcessTicket(u) \/ AcquireSem(u)
    PROVE  Sits(t, f)'
<1>1. row' = row /\ mem' = mem /\ pc[u] \in Waiting
  BY DEF ProcessTicket, AcquireSem, Move, storeVars, Waiting
<1>2. \E to : pc' = [pc EXCEPT ![u] = to]
  BY DEF ProcessTicket, AcquireSem, Move
<1>3. pc'[t] = pc[t] \/ t = u
  BY <1>2 DEF PipelineInv, PipelineTypeOK
<1> QED BY <1>1, <1>3, SitsBeside

LEMMA InsertedAs ==
    ASSUME PipelineInv, NEW src \in Source, NEW k \in Key, NEW F \in SUBSET Fp, NewTicket(src, k, F),
           NEW n \in Ticket, n = created + 1
    PROVE  /\ n \in Existing' /\ n \notin Existing /\ Existing' = Existing \cup {n}
           /\ \A t \in Ticket \ {n} : row'[t] = row[t] /\ pc'[t] = pc[t]
           /\ row'[n].key = k /\ row'[n].fps = F /\ row'[n].status = "open"
<1>1. /\ Existing' = Existing \cup {n} /\ n \notin Existing
      /\ \A t \in Ticket \ {n} : row'[t] = row[t] /\ pc'[t] = pc[t]
  BY InsertKeeps
<1>2. row'[n] = [status |-> "open", source |-> src, key |-> k, fps |-> F,
                 pr |-> FALSE, age |-> 0, cooling |-> FALSE, took |-> {"open"}]
  BY InsertKeeps
<1>3. row'[n].key = k /\ row'[n].fps = F /\ row'[n].status = "open"
  BY <1>2
<1> QED BY <1>1, <1>3

LEMMA SitsCreation ==
    ASSUME PipelineInv, NEW src \in Source, NEW k \in Key, NEW F \in SUBSET Fp, NewTicket(src, k, F),
           NEW n \in Ticket, n = created + 1
    PROVE  /\ \A t \in Existing, f \in Fp : Sits(t, f) => Sits(t, f)'
           /\ \A f \in Fp : F = {f} => Sits(n, f)'
<1>1. /\ n \notin Existing /\ \A t \in Ticket \ {n} : row'[t] = row[t] /\ pc'[t] = pc[t]
      /\ row'[n].fps = F
  BY InsertedAs
<1>2. mem \in [Ticket -> Copy]
  BY DEF PipelineInv, PipelineTypeOK
<1>3. mem' = [mem EXCEPT ![n] = [status |-> "open", fps |-> F, pr |-> FALSE]]
  BY DEF NewTicket
<1>4. mem'[n].fps = F /\ \A t \in Ticket \ {n} : mem'[t] = mem[t]
  BY <1>2, <1>3
<1>5. ASSUME NEW t \in Existing, NEW f \in Fp, Sits(t, f) PROVE Sits(t, f)'
  <2>1. row'[t] = row[t] /\ pc'[t] = pc[t] /\ mem'[t] = mem[t]
    BY <1>1, <1>4, ExistingTickets
  <2> QED BY <1>5, <2>1, SitsBeside
<1>6. ASSUME NEW f \in Fp, F = {f} PROVE Sits(n, f)'
  BY <1>1, <1>4, <1>6 DEF Sits
<1> QED BY <1>5, <1>6

\* The tickets of a key, when each of them goes on carrying the key's alert.
LEMMA OwnStays ==
    ASSUME AlertInv, [PipelineNext]_pipelineVars, NEW f \in Fp, OwnTicket(f),
           \A t \in Existing : row[t].key = KeyOf[f] /\ Sits(t, f) => Sits(t, f)',
           \A t \in Existing' \ Existing : row'[t].key = KeyOf[f] => Sits(t, f)'
    PROVE  OwnTicket(f)'
<1>1. \A t \in Existing : row'[t].key = row[t].key
  BY StepKeeps DEF AlertInv, Survives, Keeps
<1>2. ASSUME NEW t \in Existing', row'[t].key = KeyOf[f] PROVE Sits(t, f)'
  BY <1>1, <1>2 DEF OwnTicket, Sits
<1> QED BY <1>2 DEF OwnTicket, Sits

\* An alert stays carried as long as no ticket of its key is closed.
LEMMA CarriedStays ==
    ASSUME AlertInv, [PipelineNext]_pipelineVars, NEW f \in Fp, Carried(f),
           \A t \in Existing : row[t].key = KeyOf[f] /\ row[t].status # "resolved" =>
                                row'[t].status # "resolved"
    PROVE  Carried(f)'
<1>1. PICK t \in Existing : ~IsClosed(t) /\ row[t].key = KeyOf[f]
  BY DEF Carried
<1>2. t \in Existing' /\ row'[t].key = KeyOf[f] /\ Begun(t)'
  BY <1>1, StepKeeps DEF AlertInv, Survives, Keeps
<1>3. row'[t].status # "resolved"
  BY <1>1 DEF IsClosed, Closed
<1>4. ~IsClosed(t)'
  BY <1>2, <1>3 DEF Begun, OpenStatus, IsClosed, Closed
<1> QED BY <1>2, <1>4 DEF Carried

\* The runs, the clock and whoever asks for an analysis.
LEMMA WorksOwn ==
    ASSUME AlertInv, PlainDeliveries, PipelineWorks \/ Clock, NEW f \in Fp, Owed(f), OwnTicket(f)
    PROVE  OwnTicket(f)'
<1>0. /\ PipelineInv /\ StoreTypeOK /\ Existing \subseteq Ticket /\ [PipelineNext]_pipelineVars
  BY ExistingTickets, WorksIsPipeline
     DEF AlertInv, PipelineInv, PipelineTypeOK, PipelineNext, Environment, Surroundings
<1>1. ASSUME created' = created, \A t \in Existing : Sits(t, f) => Sits(t, f)'
      PROVE  OwnTicket(f)'
  <2>1. Existing' = Existing
    BY <1>1 DEF Existing
  <2> QED BY <1>0, <1>1, <2>1, OwnStays
<1>2. ASSUME NEW u \in Ticket, RunStep(u) PROVE OwnTicket(f)'
  <2>1. created' = created
    BY <1>0, <1>2, RunStepRow
  <2>2. \A t \in Existing : Sits(t, f) => Sits(t, f)'
    BY <1>0, <1>2, SitsRun
  <2> QED BY <1>1, <2>1, <2>2
<1>3. ASSUME NEW u \in Ticket, ProcessTicket(u) \/ AcquireSem(u) PROVE OwnTicket(f)'
  <2>1. created' = created
    BY <1>3 DEF ProcessTicket, AcquireSem, storeVars
  <2>2. \A t \in Existing : Sits(t, f) => Sits(t, f)'
    BY <1>0, <1>3, SitsEntry
  <2> QED BY <1>1, <2>1, <2>2
<1>4. ASSUME NEW w \in Workload, "manual" \in Source, TriggerAnalysis(w) PROVE OwnTicket(f)'
  <2>1. <<w, NoAlertName>> \in Key /\ {} \in SUBSET Fp /\ KeyOf[f] \in Key
    BY <1>4, AlertAssumption DEF Key
  <2>2. PICK n \in Ticket : n = created + 1
    BY <1>0, <1>4, <2>1, InsertKeeps DEF TriggerAnalysis
  <2>0. NewTicket("manual", <<w, NoAlertName>>, {}) /\ "manual" \in Source
    BY <1>4 DEF TriggerAnalysis
  <2>3. /\ Existing' = Existing \cup {n} /\ row'[n].key = <<w, NoAlertName>>
        /\ \A t \in Existing : Sits(t, f) => Sits(t, f)'
    <3>1. Existing' = Existing \cup {n} /\ row'[n].key = <<w, NoAlertName>>
      BY <1>0, <2>0, <2>1, <2>2, InsertedAs
    <3>2. \A t \in Existing : Sits(t, f) => Sits(t, f)'
      BY <1>0, <2>0, <2>1, <2>2, SitsCreation
    <3> QED BY <3>1, <3>2
  <2>4. KeyOf[f] # <<w, NoAlertName>>
    BY <1>4 DEF PlainDeliveries, Owed
  <2> QED BY <1>0, <2>3, <2>4, OwnStays
<1>5. CASE Clock
  <2>1. PICK u \in Existing : Grow(u, pc[u] \in Active) \/ CooldownEnds(u)
    BY <1>5 DEF Clock
  <2> DEFINE b == pc[u] \in Active
  <2>2. b \in BOOLEAN /\ (Grow(u, b) \/ CooldownEnds(u)) /\ u \in Ticket
    BY <1>0, <2>1
  <2> HIDE DEF b
  <2>3. \A t \in Ticket : row'[t].fps = row[t].fps
    BY <1>0, <2>2, ClockKeeps
  <2>4. created' = created /\ pc' = pc /\ mem' = mem
    BY <1>5 DEF Clock, Others, runVars
  <2> QED BY <1>0, <1>1, <2>3, <2>4, SitsBeside
<1>6. ASSUME NEW u \in Ticket, DeliverResolve(u) \/ Review(u) \/ Pause \/ Resume PROVE OwnTicket(f)'
  <2>1. UNCHANGED <<row, created, pc, mem>>
    BY <1>6 DEF DeliverResolve, Review, Pause, Resume, storeVars, runVars, Others
  <2> QED BY <1>0, <1>1, <2>1, SitsBeside
<1>7. CASE Pause \/ Resume
  <2>1. UNCHANGED <<row, created, pc, mem>>
    BY <1>7 DEF Pause, Resume, storeVars, runVars
  <2> QED BY <1>0, <1>1, <2>1, SitsBeside
<1> QED BY <1>2, <1>3, <1>4, <1>5, <1>6, <1>7 DEF PipelineWorks, Ask

\* A delivery that does not move, while what it knows of its batch stays true.
LEMMA BatchStays ==
    ASSUME AlertInv, CarriedInv, [PipelineNext]_pipelineVars, NEW h \in Handler, job'[h] = job[h],
           job[h].from # {} => sending'[job[h].from] = sending[job[h].from],
           \A f \in job[h].from : told'[f] = told[f],
           \A f \in job[h].from : Owed(f) /\ Carried(f) => Carried(f)'
    PROVE  BatchSound(h)'
<1> DEFINE G == job[h].from
<1>0. BatchSound(h) /\ JobSound(h) /\ job[h] \in Job /\ KeyOfCur(h)' = KeyOfCur(h)
  BY DEF AlertInv, AlertTypeOK, CarriedInv, KeyOfCur
<1>1. job[h].step = "touch" => row'[job[h].ticket].key = KeyOfCur(h)
  <2>1. job[h].step = "touch" => job[h].ticket \in Existing
    BY <1>0 DEF JobSound
  <2> QED BY <1>0, <2>1, StepKeeps DEF BatchSound, AlertInv, Survives, Keeps
<1>2. job[h].step \in {"touch", "handoff"} => \A f \in job[h].cur : Owed(f) => Carried(f)'
  BY <1>0 DEF BatchSound
<1>3. G # {} => \A a \in sending[G] : a.fp \in G
  BY <1>0 DEF CarriedInv, Job
<1>4. ASSUME G # {}
      PROVE  /\ sending'[G] # {} /\ job[h].todo \subseteq sending'[G]
             /\ \A f \in G : told'[f] = "firing" => \E a \in sending'[G] : a.fp = f
             /\ \A a \in sending'[G] : ~a.resolved /\ Owed(a.fp) =>
                  a \in job[h].todo \/ a.fp \in job[h].cur \/ Carried(a.fp)'
  BY <1>0, <1>3, <1>4 DEF BatchSound
<1>5. /\ ~job'[h].failed /\ (job'[h].step = "idle" <=> job'[h].from = {})
      /\ job'[h].step \in {"idle", "next"} => job'[h].cur = {}
      /\ job'[h].cur \subseteq job'[h].from
  BY <1>0 DEF BatchSound
<1> QED BY <1>0, <1>1, <1>2, <1>4, <1>5 DEF BatchSound

LEMMA OneGroup ==
    ASSUME NEW G \in Group, NEW H \in Group, NEW f \in G, f \in H
    PROVE  G = H /\ f \in Fp
BY AlertAssumption

LEMMA WorksCarried ==
    ASSUME AlertInv, CarriedInv, PlainDeliveries, PipelineWorks \/ Clock, UNCHANGED alertVars
    PROVE  CarriedInv'
<1>0. /\ [PipelineNext]_pipelineVars /\ UNCHANGED <<told, sending, job>>
      /\ job \in [Handler -> Job]
  BY WorksIsPipeline
     DEF AlertInv, AlertTypeOK, PipelineNext, Environment, Surroundings, alertVars, amVars
<1>1. \A f \in Fp : Owed(f) => OwnTicket(f)'
  BY WorksOwn DEF CarriedInv
<1>2. ASSUME NEW f \in Fp, Carried(f) PROVE Carried(f)'
  <2>1. \A t \in Existing : row[t].status # "resolved" => row'[t].status # "resolved"
    BY PipelineCloses
  <2> QED BY <1>0, <1>2, <2>1, CarriedStays
<1>3. \A H \in Group : \A f \in H : f \in Fp
  BY OneGroup
<1>4. ASSUME NEW h \in Handler PROVE BatchSound(h)'
  <2>1. \A f \in job[h].from : f \in Fp
    BY <1>0, <1>3 DEF Job
  <2> QED BY <1>0, <1>2, <2>1, BatchStays
<1> QED BY <1>0, <1>1, <1>2, <1>3, <1>4 DEF CarriedInv

\* AlertManager decides, and sends a group.
LEMMA FireCarried ==
    ASSUME CarriedInv, UNCHANGED <<pipelineVars, told, sending, job>>
    PROVE  CarriedInv'
<1>1. UNCHANGED <<row, created, pc, mem>>
  BY DEF pipelineVars, storeVars, runVars
<1>2. \A f \in Fp : OwnTicket(f)' <=> OwnTicket(f)
  BY <1>1 DEF OwnTicket, Existing
<1>3. \A f : Carried(f)' <=> Carried(f)
  BY <1>1 DEF Carried, Existing, IsClosed
<1>4. \A h \in Handler : BatchSound(h)' <=> BatchSound(h)
  BY <1>1, <1>3 DEF BatchSound, KeyOfCur
<1> QED BY <1>2, <1>3, <1>4 DEF CarriedInv

LEMMA DeliverCarried ==
    ASSUME AlertInv, CarriedInv, NEW G \in Group, NEW h \in Handler, Deliver(G, h)
    PROVE  CarriedInv'
<1> DEFINE B == Batch(G)
           j == [Idle EXCEPT !.step = "next", !.todo = B, !.from = G]
<1>0. /\ UNCHANGED <<row, created, pc, mem, told>> /\ sending[G] = {} /\ B # {} /\ job[h] = Idle
      /\ sending' = [sending EXCEPT ![G] = B] /\ job' = [job EXCEPT ![h] = j]
      /\ sending \in [Group -> SUBSET Alert] /\ job \in [Handler -> Job]
      /\ firing \in [Fp -> BOOLEAN] /\ [PipelineNext]_pipelineVars
  BY DEF Deliver, pipelineVars, storeVars, runVars, AlertInv, AlertTypeOK
<1>1. /\ \A a \in B : a.fp \in G /\ \A b \in B : a.fp = b.fp => a = b
      /\ \A f \in G : told[f] = "firing" => \E a \in B : a.fp = f
  <2>1. \A f : Current(f).fp = f
    BY DEF Current
  <2> QED BY <2>1 DEF Batch
<1> HIDE DEF B
<1>2. j.step = "next" /\ j.todo = B /\ j.from = G /\ j.cur = {} /\ ~j.failed
  BY DEF Idle
<1> HIDE DEF j
<1>3. /\ job'[h] = j /\ \A g \in Handler \ {h} : job'[g] = job[g]
      /\ sending'[G] = B /\ \A H \in Group \ {G} : sending'[H] = sending[H]
  BY <1>0
<1>4. \A f \in Fp : OwnTicket(f)' <=> OwnTicket(f)
  BY <1>0 DEF OwnTicket, Existing
<1>5. \A f : Carried(f)' <=> Carried(f)
  BY <1>0 DEF Carried, Existing, IsClosed
<1>6. G # {}
  BY AlertAssumption
<1>7. BatchSound(h)'
  BY <1>0, <1>1, <1>2, <1>3, <1>6 DEF BatchSound
<1>8. ASSUME NEW g \in Handler \ {h} PROVE job[g].from # G /\ BatchSound(g)'
  <2>1. BatchSound(g) /\ job[g] \in Job
    BY <1>0 DEF CarriedInv
  <2>2. job[g].from # G
    BY <1>0, <1>6, <2>1 DEF BatchSound
  <2>3. job[g].from # {} => sending'[job[g].from] = sending[job[g].from]
    BY <1>3, <2>1, <2>2 DEF Job
  <2> QED BY <1>0, <1>3, <1>5, <2>2, <2>3, BatchStays
<1>9. \A g, i \in Handler : g # i /\ job'[g].from = job'[i].from => job'[g].from = {}
  BY <1>2, <1>3, <1>6, <1>8 DEF CarriedInv
<1>10. \A H \in Group : \A a, b \in sending'[H] : a.fp \in H /\ (a.fp = b.fp => a = b)
  BY <1>1, <1>3 DEF CarriedInv
<1>11. \A H \in Group : sending'[H] = {} => \A f \in H : told'[f] = "firing" /\ Owed(f) => Carried(f)'
  BY <1>0, <1>3, <1>5 DEF CarriedInv
<1> QED BY <1>4, <1>7, <1>8, <1>9, <1>10, <1>11 DEF CarriedInv

\* A goroutine's step leaves every ticket of an owed key to the key's alert.
LEMMA HandlerOwn ==
    ASSUME AlertInv, CarriedInv, PlainDeliveries, NEW h \in Handler, HandlerStep(h),
           NEW f \in Fp, Owed(f)
    PROVE  OwnTicket(f)'
<1> DEFINE Quiet == UNCHANGED <<row, created, pc, mem>>
<1>0. /\ PipelineInv /\ StoreTypeOK /\ Existing \subseteq Ticket /\ [PipelineNext]_pipelineVars
      /\ OwnTicket(f) /\ JobSound(h) /\ BatchSound(h)
  BY ExistingTickets, HandlerIsPipeline DEF AlertInv, CarriedInv, PipelineInv, PipelineTypeOK
<1>1. ASSUME created' = created,
             \A t \in Existing : row[t].key = KeyOf[f] /\ Sits(t, f) => Sits(t, f)'
      PROVE  OwnTicket(f)'
  <2>1. Existing' = Existing
    BY <1>1 DEF Existing
  <2> QED BY <1>0, <1>1, <2>1, OwnStays
<1>2. CASE Quiet
  BY <1>1, <1>2, SitsBeside
<1>3. ASSUME NEW a \in job[h].todo, ResolveTickets(h, a), ~Quiet PROVE OwnTicket(f)'
  <2> DEFINE S == ResolveByTenantService(KeyOf[a.fp][1], a.fp, a.ends)
  <2>1. /\ ResolveRows(S) /\ S \in SUBSET Ticket /\ created' = created /\ pc' = pc /\ mem' = mem
    BY <1>0, <1>3
       DEF ResolveTickets, Resolved, NoStore, pipelineVars, storeVars, ResolveByTenantService, Others, runVars
  <2> HIDE DEF S
  <2>2. \A t \in Ticket : row'[t].fps = row[t].fps
    BY <1>0, <2>1, ResolveKeeps
  <2> QED BY <1>0, <1>1, <2>1, <2>2, SitsBeside
<1>4. CASE TouchDuplicate(h) /\ ~Quiet
  <2>1. PICK g \in Fp : job[h].cur = {g} /\ KeyOfCur(h) = KeyOf[g]
    BY <1>4, CurIsAlert DEF TouchDuplicate
  <2>2. PICK u \in Existing : u = job[h].ticket /\ row[u].key = KeyOf[g]
    BY <1>0, <1>4, <2>1 DEF TouchDuplicate, JobSound, BatchSound
  <2>3. /\ TouchWithFingerprint(u, {g}) /\ created' = created /\ pc' = pc /\ mem' = mem
    BY <1>4, <2>1, <2>2 DEF TouchDuplicate, NoStore, pipelineVars, storeVars, Others, runVars
  <2>4. /\ \A t \in Ticket \ {u} : row'[t] = row[t]
        /\ row'[u].fps = row[u].fps \cup {g}
    BY <1>0, <2>2, <2>3, TouchKeeps
  <2>5. ASSUME row[u].key = KeyOf[f], Sits(u, f) PROVE row'[u].fps = row[u].fps
    BY <2>2, <2>4, <2>5 DEF PlainDeliveries, Sits
  <2>6. ASSUME NEW t \in Existing, row[t].key = KeyOf[f], Sits(t, f) PROVE Sits(t, f)'
    BY <1>0, <2>3, <2>4, <2>5, <2>6, SitsBeside
  <2> QED BY <1>1, <2>3, <2>6
<1>5. CASE CreateTicket(h) /\ ~Quiet
  <2>1. /\ KeyOfCur(h) \in Key /\ job[h].cur \in SUBSET Fp /\ "alertmanager" \in Source
        /\ \E g \in Fp : job[h].cur = {g} /\ KeyOfCur(h) = KeyOf[g]
    BY <1>5, CurIsAlert, AlertAssumption DEF CreateTicket
  <2>2. NewTicket("alertmanager", KeyOfCur(h), job[h].cur)
    BY <1>5, Zenon DEF CreateTicket, NoStore, PlainDeliveries
  <2>3. PICK n \in Ticket : n = created + 1
    BY <1>0, <2>1, <2>2, InsertKeeps
  <2>4. Existing' = Existing \cup {n} /\ row'[n].key = KeyOfCur(h)
    <3>1. PICK k \in Key : k = KeyOfCur(h)
      BY <2>1
    <3>2. PICK F \in SUBSET Fp : F = job[h].cur
      BY <2>1
    <3> QED BY <1>0, <2>1, <2>2, <2>3, <3>1, <3>2, InsertedAs
  <2>5. /\ \A t \in Existing : Sits(t, f) => Sits(t, f)'
        /\ job[h].cur = {f} => Sits(n, f)'
    BY <1>0, <2>1, <2>2, <2>3, SitsCreation
  <2>6. row'[n].key = KeyOf[f] => job[h].cur = {f}
    BY <2>1, <2>4 DEF PlainDeliveries
  <2> QED BY <1>0, <2>4, <2>5, <2>6, OwnStays
<1>6. CASE HandOff(h)
  <2>1. PICK u \in Ticket : ProcessTicket(u)
    BY <1>0, <1>6 DEF HandOff, JobSound
  <2>2. created' = created
    BY <2>1 DEF ProcessTicket, storeVars
  <2>3. \A t \in Existing : Sits(t, f) => Sits(t, f)'
    BY <1>0, <2>1, SitsEntry
  <2> QED BY <1>1, <2>2, <2>3
<1>7. ASSUME NEW a, Ignore(h, a) \/ LookUp(h, a) \/ CheckCooldown(h) \/ SpendBudget(h) \/ Answer(h)
      PROVE  Quiet
  BY <1>7 DEF Ignore, LookUp, CheckCooldown, SpendBudget, Answer, NoStore, pipelineVars, storeVars, runVars
<1> QED BY <1>2, <1>3, <1>4, <1>5, <1>6, <1>7 DEF HandlerStep

\* Only a resolved alert of its own, in the batch, ends what carries an owed alert.
LEMMA HandlerCarries ==
    ASSUME AlertInv, CarriedInv, NEW h \in Handler, HandlerStep(h), NEW f \in Fp, Owed(f), Carried(f)
    PROVE  Carried(f)' \/ \E a \in job[h].todo : a.resolved /\ a.fp = f
<1>0. OwnTicket(f) /\ [PipelineNext]_pipelineVars
  BY HandlerIsPipeline DEF CarriedInv
<1>1. ASSUME NEW t \in Existing, row[t].key = KeyOf[f], row[t].status # "resolved",
             row'[t].status = "resolved"
      PROVE  \E a \in job[h].todo : a.resolved /\ a.fp = f
  <2>1. PICK a \in job[h].todo :
            a.resolved /\ t \in ResolveByTenantService(KeyOf[a.fp][1], a.fp, a.ends)
    BY <1>1, HandlerCloses
  <2>2. row[t].fps = {f} /\ (row[t].fps = {} \/ a.fp \in row[t].fps)
    BY <1>0, <1>1, <2>1 DEF OwnTicket, ResolveByTenantService
  <2>3. a.fp = f
    BY <2>2
  <2> QED BY <2>1, <2>3
<1> QED BY <1>0, <1>1, CarriedStays

\* A goroutine goes on within its batch: it lets no alert go that is owed a ticket,
\* unless the alert is carried.
LEMMA BatchGoesOn ==
    ASSUME AlertInv, CarriedInv, PlainDeliveries, NEW h \in Handler, HandlerStep(h),
           UNCHANGED <<told, sending>>, Works(h), job[h].step # "idle",
           job'[h].from = job[h].from, ~job'[h].failed, job'[h].step # "idle",
           job'[h].step = "next" => job'[h].cur = {},
           job'[h].cur \subseteq job[h].from, job'[h].todo \subseteq job[h].todo,
           job'[h].step = "touch" => row'[job'[h].ticket].key = KeyOfCur(h)',
           job'[h].step \in {"touch", "handoff"} => \A f \in job'[h].cur : Owed(f) => Carried(f)',
           \A a \in job[h].todo \ job'[h].todo :
             ~a.resolved /\ Owed(a.fp) => a.fp \in job'[h].cur \/ Carried(a.fp)',
           \A f \in job[h].cur : Owed(f) => f \in job'[h].cur \/ Carried(f)'
    PROVE  CarriedInv'
<1> DEFINE G == job[h].from
<1>0. /\ BatchSound(h) /\ [PipelineNext]_pipelineVars /\ job[h] \in Job /\ G \in Group /\ G # {}
      /\ \A H \in Group : H # {}
  BY HandlerIsPipeline, AlertAssumption DEF CarriedInv, BatchSound, AlertInv, AlertTypeOK, Job
<1>1. job[h].todo \subseteq sending[G] /\ \A a \in sending[G] : a.fp \in G /\ a.fp \in Fp
  BY <1>0, OneGroup DEF BatchSound, CarriedInv
<1>2. ASSUME NEW a \in sending[G], ~a.resolved, Owed(a.fp), Carried(a.fp) PROVE Carried(a.fp)'
  <2>1. ~ \E b \in job[h].todo : b.resolved /\ b.fp = a.fp
    BY <1>0, <1>1, <1>2 DEF CarriedInv
  <2> QED BY <1>1, <1>2, <2>1, HandlerCarries
<1>3. ASSUME NEW H \in Group, H # G, NEW f \in H, Owed(f), Carried(f) PROVE Carried(f)'
  <2>1. f \in Fp /\ f \notin G
    BY <1>0, <1>3, OneGroup
  <2> QED BY <1>1, <1>3, <2>1, HandlerCarries
<1>4. \A a \in sending[G] : ~a.resolved /\ Owed(a.fp) =>
        a \in job'[h].todo \/ a.fp \in job'[h].cur \/ Carried(a.fp)'
  BY <1>0, <1>2 DEF BatchSound
<1>5. BatchSound(h)'
  BY <1>0, <1>4 DEF BatchSound
<1>6. ASSUME NEW g \in Handler \ {h} PROVE BatchSound(g)'
  <2>1. job'[g] = job[g] /\ job[g].from \in Group \cup {{}} /\ job[g].from # G
    BY <1>0 DEF Works, CarriedInv, AlertInv, AlertTypeOK, Job
  <2>2. \A f \in job[g].from : Owed(f) /\ Carried(f) => Carried(f)'
    BY <1>3, <2>1
  <2> QED BY <1>0, <2>1, <2>2, BatchStays
<1>7. \A f \in Fp : Owed(f) => OwnTicket(f)'
  BY HandlerOwn
<1>8. \A g, i \in Handler : g # i /\ job'[g].from = job'[i].from => job'[g].from = {}
  BY DEF Works, CarriedInv
<1>9. \A H \in Group : sending'[H] = {} => \A f \in H : told'[f] = "firing" /\ Owed(f) => Carried(f)'
  <2>1. sending[G] # {}
    BY <1>0 DEF BatchSound
  <2> QED BY <1>3, <2>1 DEF CarriedInv
<1> QED BY <1>5, <1>6, <1>7, <1>8, <1>9 DEF CarriedInv

LEMMA AnswerCarried ==
    ASSUME AlertInv, CarriedInv, PlainDeliveries, NEW h \in Handler, Answer(h)
    PROVE  CarriedInv'
<1> DEFINE G == job[h].from
           sent(f) == CHOOSE a \in sending[G] : a.fp = f
<1>0. /\ UNCHANGED <<row, created, pc, mem>> /\ job[h].step = "next" /\ job[h].todo = {}
      /\ job' = [job EXCEPT ![h] = Idle] /\ job \in [Handler -> Job] /\ job[h] \in Job
      /\ sending \in [Group -> SUBSET Alert] /\ BatchSound(h) /\ HandlerStep(h)
      /\ [PipelineNext]_pipelineVars
  BY HandlerIsPipeline
     DEF Answer, pipelineVars, storeVars, runVars, AlertInv, AlertTypeOK, CarriedInv, HandlerStep
<1>1. /\ G \in Group /\ G # {} /\ ~job[h].failed /\ job[h].cur = {}
      /\ \A f \in G : f \in Fp /\ (told[f] = "firing" => \E a \in sending[G] : a.fp = f)
  BY <1>0, OneGroup DEF BatchSound, Job
<1>2. /\ sending' = [sending EXCEPT ![G] = {}]
      /\ told' = [f \in Fp |-> IF f \in {a.fp : a \in sending[G]}
                               THEN IF sent(f).resolved THEN "resolved" ELSE "firing"
                               ELSE told[f]]
  BY <1>1 DEF Answer
<1> HIDE DEF sent
<1>3. \A a \in sending[G] : a.fp \in G /\ ~a.resolved /\ Owed(a.fp) => Carried(a.fp)
  BY <1>0, <1>1 DEF BatchSound
<1>4. \A f \in Fp : OwnTicket(f)' <=> OwnTicket(f)
  BY <1>0 DEF OwnTicket, Existing
<1>5. \A f : Carried(f)' <=> Carried(f)
  BY <1>0 DEF Carried, Existing, IsClosed
<1>6. /\ job'[h] = Idle /\ \A g \in Handler \ {h} : job'[g] = job[g]
      /\ sending'[G] = {} /\ \A H \in Group \ {G} : sending'[H] = sending[H]
  BY <1>0, <1>1, <1>2
<1>7. Idle.from = {} /\ Idle.step = "idle" /\ Idle.cur = {} /\ ~Idle.failed
  BY DEF Idle
<1>8. BatchSound(h)'
  BY <1>6, <1>7 DEF BatchSound
<1>9. ASSUME NEW H \in Group, H # G, NEW f \in H PROVE told'[f] = told[f] /\ f \in Fp
  <2>1. f \in Fp /\ f \notin G
    BY <1>1, <1>9, OneGroup
  <2>2. f \notin {a.fp : a \in sending[G]}
    BY <1>1, <2>1 DEF CarriedInv
  <2> QED BY <1>2, <2>1, <2>2
<1>10. ASSUME NEW g \in Handler \ {h} PROVE BatchSound(g)'
  <2>1. job'[g] = job[g] /\ job[g].from \in Group \cup {{}} /\ job[g].from # G
    BY <1>0, <1>1, <1>6 DEF CarriedInv, Job
  <2> QED BY <1>0, <1>5, <1>6, <1>9, <2>1, BatchStays
<1>11. \A g, i \in Handler : g # i /\ job'[g].from = job'[i].from => job'[g].from = {}
  BY <1>6, <1>7 DEF CarriedInv
<1>12. ASSUME NEW f \in G, told'[f] = "firing", Owed(f) PROVE Carried(f)
  <2>1. f \in Fp
    BY <1>1
  <2>2. CASE \E a \in sending[G] : a.fp = f
    <3>1. sent(f) \in sending[G] /\ sent(f).fp = f
      BY <2>2 DEF sent
    <3>2. ~sent(f).resolved
      BY <1>2, <1>12, <2>1, <2>2
    <3> QED BY <1>0, <1>1, <1>12, <3>1, <3>2 DEF BatchSound
  <2>3. CASE ~ \E a \in sending[G] : a.fp = f
    <3>1. told'[f] = told[f]
      BY <1>2, <2>1, <2>3
    <3> QED BY <1>1, <1>12, <2>3, <3>1
  <2> QED BY <2>2, <2>3
<1>13. \A H \in Group : sending'[H] = {} => \A f \in H : told'[f] = "firing" /\ Owed(f) => Carried(f)'
  BY <1>5, <1>6, <1>9, <1>12 DEF CarriedInv
<1>14. \A H \in Group : \A a, b \in sending'[H] : a.fp \in H /\ (a.fp = b.fp => a = b)
  BY <1>6 DEF CarriedInv
<1> QED BY <1>4, <1>8, <1>10, <1>11, <1>13, <1>14 DEF CarriedInv

LEMMA HandlerCarried ==
    ASSUME AlertInv, CarriedInv, PlainDeliveries, NEW h \in Handler, HandlerStep(h)
    PROVE  CarriedInv'
<1>0. /\ AlertTypeOK /\ PipelineInv /\ JobSound(h) /\ BatchSound(h) /\ job[h] \in Job
      /\ "store" \notin Faults /\ ~NoStore /\ [PipelineNext]_pipelineVars
      /\ \A a \in job[h].todo : a.fp \in Fp /\ a.fp \in job[h].from
  <2>1. job[h] \in Job /\ BatchSound(h) /\ "store" \notin Faults
    BY DEF AlertInv, AlertTypeOK, CarriedInv, PlainDeliveries
  <2>2. job[h].step # "idle" => job[h].from \in Group /\ job[h].from # {}
    BY <2>1 DEF BatchSound, Job
  <2>3. ASSUME NEW a \in job[h].todo, job[h].step # "idle" PROVE a.fp \in Fp /\ a.fp \in job[h].from
    BY <2>1, <2>2, <2>3, OneGroup DEF BatchSound, CarriedInv
  <2>4. job[h].todo # {} => job[h].step # "idle" \/ ~HandlerStep(h)
    BY DEF HandlerStep, ResolveTickets, IsFiring, Ignore, LookUp, TouchDuplicate, CheckCooldown,
           CreateTicket, HandOff, SpendBudget, Answer
  <2> QED BY <2>1, <2>3, <2>4, HandlerIsPipeline DEF AlertInv, NoStore
<1>1. \A f \in job[h].cur : f \in Fp
  BY <1>0 DEF Job
<1>2. ASSUME NEW a \in job[h].todo, ResolveTickets(h, a) \/ Ignore(h, a) PROVE CarriedInv'
  <2>1. /\ LeaveAlert(h, a, TRUE) /\ job[h].step = "next" /\ UNCHANGED <<told, sending>>
    BY <1>0, <1>2 DEF ResolveTickets, Ignore, IsFiring, amVars
  <2>0. /\ Works(h) /\ job'[h].step = job[h].step /\ job'[h].cur = job[h].cur
        /\ job'[h].failed = (job[h].failed \/ ~TRUE)
        /\ job'[h].todo = job[h].todo \ {a} /\ job'[h].from = job[h].from
    BY <1>0, <2>1, LeaveAlertJob
  <2>2. ~job'[h].failed
    BY <1>0, <2>0 DEF BatchSound
  <2>3. ~a.resolved => ~Owed(a.fp)
    BY <1>2 DEF ResolveTickets, Ignore, Owed
  <2>4. HandlerStep(h)
    OBVIOUS
  <2> QED BY <1>0, <2>0, <2>1, <2>2, <2>3, <2>4, BatchGoesOn DEF BatchSound
<1>3. ASSUME NEW a \in job[h].todo, LookUp(h, a) PROVE CarriedInv'
  <2> DEFINE k == KeyOf[a.fp]
  <2>1. UNCHANGED <<told, sending>> /\ job[h].step = "next" /\ row' = row /\ created' = created
    BY <1>0, <1>3 DEF LookUp, IsFiring, amVars, pipelineVars, storeVars
  <2>2. \/ FindDuplicate(k) # NoTicket /\ Take(h, a, "touch", FindDuplicate(k))
        \/ Take(h, a, "flap", NoTicket) \/ Take(h, a, "create", NoTicket)
    BY <1>0, <1>3 DEF LookUp
  <2>3. /\ FindDuplicate(k) \in Ticket \cup {NoTicket}
        /\ FindDuplicate(k) # NoTicket =>
             /\ FindDuplicate(k) \in Existing
             /\ row[FindDuplicate(k)].key = k /\ ~IsClosed(FindDuplicate(k))
    BY <1>0, DuplicateOf
  <2>4. ASSUME NEW step \in {"touch", "flap", "create"}, NEW t \in Ticket \cup {NoTicket},
               Take(h, a, step, t),
               step = "touch" => t \in Existing /\ row[t].key = k /\ ~IsClosed(t)
        PROVE  CarriedInv'
    <3>1. /\ Works(h) /\ job'[h].step = step /\ job'[h].cur = {a.fp} /\ job'[h].ticket = t
          /\ job'[h].failed = job[h].failed
          /\ job'[h].todo = job[h].todo \ {a} /\ job'[h].from = job[h].from
      BY <1>0, <2>4, TakeJob
    <3>2. KeyOfCur(h)' = k
      <4>1. (CHOOSE f \in Fp : {a.fp} = {f}) = a.fp
        BY <1>0
      <4> QED BY <3>1, <4>1 DEF KeyOfCur
    <3>3. step = "touch" => row'[t].key = k /\ Carried(a.fp)'
      BY <2>1, <2>4 DEF Carried, Existing, IsClosed
    <3>4. job[h].cur = {} /\ ~job[h].failed
      BY <1>0, <2>1 DEF BatchSound
    <3> QED BY <1>0, <2>1, <3>1, <3>2, <3>3, <3>4, BatchGoesOn
  <2> HIDE DEF k
  <2> QED BY <2>2, <2>3, <2>4
<1>4. ASSUME Leave(h, TRUE), UNCHANGED <<told, sending>>, job[h].step # "idle",
             \A f \in job[h].cur : Owed(f) => Carried(f)'
      PROVE  CarriedInv'
  <2>1. /\ Works(h) /\ job'[h].step = "next" /\ job'[h].todo = job[h].todo /\ job'[h].cur = {}
        /\ job'[h].failed = (job[h].failed \/ ~TRUE) /\ job'[h].from = job[h].from
    BY <1>0, <1>4, LeaveJob
  <2>2. ~job'[h].failed
    BY <1>0, <2>1 DEF BatchSound
  <2> QED BY <1>0, <1>4, <2>1, <2>2, BatchGoesOn DEF BatchSound
<1>5. CASE TouchDuplicate(h)
  <2>1. job[h].step = "touch" /\ Leave(h, TRUE) /\ UNCHANGED <<told, sending>>
    BY <1>0, <1>5 DEF TouchDuplicate, amVars
  <2>2. job[h].ticket \in Ticket /\ job[h].cur \in SUBSET Fp /\ TouchWithFingerprint(job[h].ticket, job[h].cur)
    BY <1>0, <1>5, <2>1, ExistingTickets DEF TouchDuplicate, JobSound, Job
  <2>3. \A t \in Existing : row'[t].status = row[t].status
    BY <1>0, <2>2, TouchKeeps, ExistingTickets DEF PipelineInv, PipelineTypeOK
  <2>4. \A f \in job[h].cur : Owed(f) => Carried(f)'
    BY <1>0, <1>1, <2>1, <2>3, CarriedStays DEF BatchSound
  <2> QED BY <1>4, <2>1, <2>4
<1>6. CASE CheckCooldown(h)
  <2>1. job[h].step = "flap" /\ UNCHANGED <<told, sending>>
    BY <1>6 DEF CheckCooldown, amVars
  <2>2. PICK f \in Fp : job[h].cur = {f} /\ KeyOfCur(h) = KeyOf[f]
    BY <2>1, CurIsAlert
  <2>3. ~Owed(f)
    BY <1>0, <2>1, <2>2 DEF JobSound, Owed
  <2>4. Leave(h, TRUE) \/ job' = [job EXCEPT ![h].step = "create"]
    BY <1>0, <1>6 DEF CheckCooldown
  <2>5. CASE job' = [job EXCEPT ![h].step = "create"]
    <3> DEFINE j == [job[h] EXCEPT !.step = "create"]
    <3>1. /\ j \in Job /\ j.step = "create" /\ j.todo = job[h].todo /\ j.cur = job[h].cur
          /\ j.failed = job[h].failed /\ j.from = job[h].from
      BY <1>0 DEF Job
    <3>2. job' = [job EXCEPT ![h] = j] /\ job \in [Handler -> Job]
      BY <1>0, <2>5 DEF AlertTypeOK
    <3> HIDE DEF j
    <3>3. Works(h) /\ job'[h] = j
      BY <3>1, <3>2 DEF Works
    <3> QED BY <1>0, <2>1, <3>1, <3>3, BatchGoesOn DEF BatchSound
  <2> QED BY <1>4, <2>1, <2>2, <2>3, <2>4, <2>5
<1>7. CASE CreateTicket(h)
  <2>1. /\ NewTicket("alertmanager", KeyOfCur(h), job[h].cur) /\ UNCHANGED <<told, sending>>
        /\ job' = [job EXCEPT ![h].step = "handoff", ![h].ticket = created + 1]
        /\ job[h].step = "create" /\ "alertmanager" \in Source
    BY <1>0, <1>7, AlertAssumption DEF CreateTicket, amVars
  <2>2. PICK f \in Fp : job[h].cur = {f} /\ KeyOfCur(h) = KeyOf[f] /\ KeyOf[f] \in Key
    BY <2>1, CurIsAlert
  <2>3. PICK n \in Ticket : n = created + 1
    BY <1>0, <2>1, <2>2, InsertKeeps
  <2>0. NewTicket("alertmanager", KeyOf[f], {f}) /\ {f} \in SUBSET Fp
    BY <2>1, <2>2
  <2>4. n \in Existing' /\ row'[n].key = KeyOf[f] /\ row'[n].status = "open"
    BY <1>0, <2>0, <2>1, <2>2, <2>3, InsertedAs
  <2>5. Carried(f)'
    BY <2>4 DEF Carried, IsClosed, Closed
  <2>6. /\ Works(h) /\ job'[h].step = "handoff" /\ job'[h].todo = job[h].todo
        /\ job'[h].cur = job[h].cur /\ job'[h].failed = job[h].failed
        /\ job'[h].from = job[h].from
    BY <1>0, <2>1, <2>3, CreatedJob
  <2> QED BY <1>0, <2>1, <2>2, <2>5, <2>6, BatchGoesOn DEF BatchSound
<1>8. CASE HandOff(h)
  <2>1. job[h].step = "handoff" /\ Leave(h, TRUE) /\ UNCHANGED <<told, sending>> /\ row' = row
    BY <1>8 DEF HandOff, ProcessTicket, storeVars, amVars
  <2>2. \A f \in job[h].cur : Owed(f) => Carried(f)'
    BY <1>0, <1>1, <2>1, CarriedStays DEF BatchSound
  <2> QED BY <1>4, <2>1, <2>2
<1>9. ~SpendBudget(h)
  BY <1>0 DEF SpendBudget
<1> QED BY <1>2, <1>3, <1>5, <1>6, <1>7, <1>8, <1>9, AnswerCarried DEF HandlerStep

LEMMA CarriedNext == AlertInv /\ CarriedInv /\ PlainDeliveries /\ [AlertNext]_agentVars => CarriedInv'
<1> SUFFICES ASSUME AlertInv, CarriedInv, PlainDeliveries, [AlertNext]_agentVars PROVE CarriedInv'
  OBVIOUS
<1>1. CASE UNCHANGED agentVars
  BY <1>1, FireCarried DEF agentVars, alertVars, amVars
<1>2. ASSUME NEW f \in Fp, Fire(f) \/ Stop(f) PROVE CarriedInv'
  BY <1>2, FireCarried DEF Fire, Stop
<1>3. ASSUME NEW h \in Handler PROVE ~HangUp(h) /\ ~Restart
  BY DEF PlainDeliveries, HangUp, Restart, Crash
<1>4. ~Restart
  BY DEF PlainDeliveries, Restart, Crash
<1>5. CASE Deliveries
  BY <1>2, <1>3, <1>5, DeliverCarried, HandlerCarried DEF Deliveries
<1>6. CASE PipelineWorks \/ (Clock /\ UNCHANGED alertVars)
  BY <1>6, WorksCarried DEF PipelineWorks
<1> QED BY <1>1, <1>4, <1>5, <1>6 DEF AlertNext

LEMMA CarriedInit == AlertInit => CarriedInv
<1> SUFFICES ASSUME AlertInit PROVE CarriedInv
  OBVIOUS
<1>1. /\ created = 0 /\ told = [f \in Fp |-> "resolved"]
      /\ sending = [G \in Group |-> {}] /\ job = [h \in Handler |-> Idle]
  BY DEF AlertInit, PipelineInit, StoreInit
<1>2. Existing = {}
  BY <1>1 DEF Existing
<1>3. Idle.from = {} /\ Idle.step = "idle" /\ Idle.cur = {} /\ ~Idle.failed
  BY DEF Idle
<1>4. \A h \in Handler : BatchSound(h)
  BY <1>1, <1>3 DEF BatchSound
<1>5. \A f \in Fp : OwnTicket(f)
  BY <1>2 DEF OwnTicket
<1>6. \A G \in Group : \A f \in G : told[f] # "firing"
  BY <1>1, AlertAssumption
<1> QED BY <1>1, <1>3, <1>4, <1>5, <1>6 DEF CarriedInv

\* A critical firing alert that was answered 200 is in an unclosed ticket: through
\* the look-up, the cooldown, the creation and the resolves of every other alert,
\* while the ticket's run writes its row (ServeHTTP, processAlert, MarkAnalyzing).
THEOREM AcknowledgedAreCarried ==
    ASSUME PlainDeliveries
    PROVE  AlertSpec => []AcknowledgedFiringHasATicket
<1>1. AlertInv /\ CarriedInv => AcknowledgedFiringHasATicket
  <2> SUFFICES ASSUME AlertInv, CarriedInv, NEW G \in Group, sending[G] = {}, NEW f \in G, told[f] = "firing",
                      KeyOf[f][1] \notin Ignored, KeyOf[f][2] \in Critical
               PROVE  \E t \in Ticket : Unclosed(t) /\ f \in row[t].fps
    BY DEF AcknowledgedFiringHasATicket
  <2>1. f \in Fp /\ Owed(f)
    BY OneGroup DEF Owed
  <2>2. PICK t \in Existing : ~IsClosed(t) /\ row[t].key = KeyOf[f]
    BY <2>1 DEF CarriedInv, Carried
  <2>3. f \in row[t].fps
    BY <2>1, <2>2 DEF CarriedInv, OwnTicket
  <2> QED BY <2>2, <2>3, ExistingTickets DEF Unclosed, AlertInv
<1>2. AlertInv /\ CarriedInv /\ [AlertNext]_agentVars => CarriedInv'
  BY CarriedNext
<1> QED BY <1>1, <1>2, CarriedInit, AlertInvariance, PTL DEF AlertSpec

-----------------------------------------------------------------------------
(* Poller *)

-----------------------------------------------------------------------------
(* The poll loop and the webhooks are an environment of the pipeline *)

\* The heartbeat without a fingerprint.
LEMMA TouchIsTouched ==
    ASSUME StoreTypeOK, NEW t \in Ticket, Touch(t)
    PROVE  TouchWithFingerprint(t, {})
<1> DEFINE r == row[t]
           F == r.fps \cup {}
<1>1. r \in Row /\ F = r.fps
  BY RowType
<1>2. row' = [row EXCEPT ![t] = [r EXCEPT !.age = 0]]
  BY DEF Touch, Write
<1>3. [r EXCEPT !.age = 0] = [r EXCEPT !.age = 0, !.fps = F]
  BY <1>1 DEF Row
<1> QED BY <1>2, <1>3 DEF TouchWithFingerprint, Write

LEMMA BeatIsPipeline ==
    ASSUME PipelineInv, NEW t \in Existing, Touch(t), UNCHANGED <<created, outsideVars>>, Others
    PROVE  /\ PipelineNext /\ pc' = pc
           /\ \A u \in Ticket \ {t} : row'[u] = row[u]
           /\ Keeps(t) /\ row'[t].status = row[t].status /\ row'[t].age = 0
<1>1. StoreTypeOK /\ t \in Ticket /\ {} \in SUBSET Fp
  BY ExistingTickets DEF PipelineInv, PipelineTypeOK
<1>2. TouchWithFingerprint(t, {})
  BY <1>1, TouchIsTouched
<1>3. /\ \A u \in Ticket \ {t} : row'[u] = row[u]
      /\ Keeps(t) /\ row'[t].status = row[t].status /\ row'[t].age = 0
  BY <1>1, <1>2, TouchKeeps
<1>4. PipelineNext
  BY <1>1, <1>2 DEF Touched, PipelineNext, Environment, Surroundings
<1> QED BY <1>3, <1>4 DEF Others, runVars

\* Create by whoever holds no ticket yet.
LEMMA OpenIsPipeline ==
    ASSUME PipelineInv, NEW src \in Source, NEW k \in Key, NewTicket(src, k, {})
    PROVE  /\ PipelineNext /\ Waits
           /\ \E n \in Ticket : /\ n = created + 1 /\ n \notin Existing /\ Existing' = Existing \cup {n}
                                /\ \A t \in Ticket \ {n} : row'[t] = row[t] /\ pc'[t] = pc[t]
                                /\ pc'[n] = "created" /\ row'[n].status = "open" /\ row'[n].age = 0
                                /\ row'[n].source = src /\ row'[n].key = k
<1>0. {} \in SUBSET Fp
  OBVIOUS
<1>1. PipelineNext /\ Waits
  BY <1>0, CreationWaits DEF PipelineNext, Environment, Surroundings
<1>2. PICK n \in Ticket : n = created + 1
  BY <1>0, InsertKeeps
<1>3. /\ Existing' = Existing \cup {n} /\ n \notin Existing
      /\ \A t \in Ticket \ {n} : row'[t] = row[t] /\ pc'[t] = pc[t]
      /\ pc'[n] = "created"
      /\ row'[n] = [status |-> "open", source |-> src, key |-> k, fps |-> {}, pr |-> FALSE,
                    age |-> 0, cooling |-> FALSE, took |-> {"open"}]
  BY <1>0, <1>2, InsertKeeps
<1> QED BY <1>1, <1>2, <1>3

LEMMA EntryIsPipeline ==
    ASSUME PipelineInv, NEW t \in Ticket, ProcessTicket(t)
    PROVE  /\ PipelineNext /\ row' = row /\ created' = created /\ pc[t] = "created"
           /\ pc'[t] \in {"skipped", "queued"} /\ \A u \in Ticket \ {t} : pc'[u] = pc[u]
<1>1. PipelineNext
  BY DEF PipelineNext, PipelineStep
<1> QED BY <1>1 DEF ProcessTicket, Move, storeVars, PipelineInv, PipelineTypeOK

\* What a step of a delivery or of the poll does to the rows and the runs.
\* The steps that close no ticket and let no time pass.
Gentle ==
    \/ UNCHANGED pipelineVars
    \/ \E t \in Existing : /\ pc' = pc /\ created' = created
                           /\ \A u \in Ticket \ {t} : row'[u] = row[u]
                           /\ Keeps(t) /\ row'[t].status = row[t].status /\ row'[t].age = 0
    \/ \E n \in Ticket : /\ n = created + 1 /\ n \notin Existing /\ Existing' = Existing \cup {n}
                         /\ \A t \in Ticket \ {n} : row'[t] = row[t] /\ pc'[t] = pc[t]
                         /\ pc'[n] = "created" /\ row'[n].status = "open" /\ row'[n].age = 0
                         /\ row'[n].source # "alertmanager"
    \/ \E t \in Existing : /\ row' = row /\ created' = created /\ pc[t] = "created"
                           /\ pc'[t] \in {"skipped", "queued"} /\ \A u \in Ticket \ {t} : pc'[u] = pc[u]
                           /\ row[t].source # "alertmanager"

LEMMA DeliveryIsPipeline ==
    ASSUME PollerInv, NEW d \in Delivery, DeliveryStep(d)
    PROVE  [PipelineNext]_pipelineVars /\ Waits /\ Gentle /\ UNCHANGED alertVars
<1>0. PipelineInv /\ DeliverySound(d) /\ Existing \subseteq Ticket
  BY ExistingTickets DEF PollerInv, AlertInv
<1>1. CASE UNCHANGED pipelineVars /\ UNCHANGED alertVars
  BY <1>1 DEF Gentle, Waits, pipelineVars, runVars
<1>2. CASE TouchFailure(d) /\ ~NoStore
  <2>1. /\ delivery[d].ticket \in Existing /\ Touch(delivery[d].ticket)
        /\ UNCHANGED <<created, outsideVars>> /\ Others /\ UNCHANGED alertVars
    BY <1>0, <1>2 DEF TouchFailure, DeliverySound, Forgotten
  <2>2. /\ PipelineNext /\ pc' = pc
        /\ \A u \in Ticket \ {delivery[d].ticket} : row'[u] = row[u]
        /\ Keeps(delivery[d].ticket) /\ row'[delivery[d].ticket].status = row[delivery[d].ticket].status
        /\ row'[delivery[d].ticket].age = 0
    BY <1>0, <2>1, BeatIsPipeline
  <2> QED BY <2>1, <2>2 DEF Gentle, Waits
<1>3. ASSUME NEW w \in Workflow, CreateFailure(d, w), ~NoStore
      PROVE  [PipelineNext]_pipelineVars /\ Waits /\ Gentle /\ UNCHANGED alertVars
  <2>1. /\ NewTicket("github_webhook", WorkflowKey(w), {}) /\ UNCHANGED alertVars
    BY <1>3 DEF CreateFailure, Forgotten
  <2>2. "github_webhook" \in Source /\ WorkflowKey(w) \in Key
    BY WorkflowAssumption DEF WorkflowKey, Key
  <2>3. /\ PipelineNext /\ Waits
        /\ \E n \in Ticket : /\ n = created + 1 /\ n \notin Existing /\ Existing' = Existing \cup {n}
                             /\ \A t \in Ticket \ {n} : row'[t] = row[t] /\ pc'[t] = pc[t]
                             /\ pc'[n] = "created" /\ row'[n].status = "open" /\ row'[n].age = 0
                             /\ row'[n].source = "github_webhook" /\ row'[n].key = WorkflowKey(w)
    BY <1>0, <2>1, <2>2, OpenIsPipeline
  <2> QED BY <2>1, <2>3 DEF Gentle
<1>4. CASE HandOffFailure(d)
  <2> DEFINE t == delivery[d].ticket
  <2>1. t \in Existing /\ ProcessTicket(t) /\ row[t].source = "github_webhook" /\ UNCHANGED alertVars
    BY <1>0, <1>4 DEF HandOffFailure, DeliverySound
  <2> HIDE DEF t
  <2>2. /\ PipelineNext /\ row' = row /\ created' = created /\ pc[t] = "created"
        /\ pc'[t] \in {"skipped", "queued"} /\ \A u \in Ticket \ {t} : pc'[u] = pc[u]
    BY <1>0, <2>1, EntryIsPipeline
  <2>3. Waits
    BY <1>0, <2>1, EntryWaits
  <2> QED BY <2>1, <2>2, <2>3 DEF Gentle
<1>5. ASSUME NEW w \in Workflow, WorkflowFailed(d, w)
      PROVE  UNCHANGED pipelineVars /\ UNCHANGED alertVars
  BY <1>5 DEF WorkflowFailed, agentVars
<1>6. CASE NoStore
  <2>1. UNCHANGED alertVars
    BY DEF DeliveryStep, TouchFailure, HandOffFailure, WorkflowFailed, CreateFailure, agentVars
  <2> QED BY <1>1, <1>6, <2>1 DEF NoStore
<1> QED BY <1>1, <1>2, <1>3, <1>4, <1>5, <1>6 DEF DeliveryStep

\* The poll: a gentle step, or the resolve of a listed row.
Closes(t) == \E from \in OpenStatus : /\ ResolveListed(t, from)
                                      /\ row[t].status = from /\ Resolved({t}, {t})

LEMMA ClosingStep ==
    ASSUME PipelineInv, NEW t \in Ticket, Closes(t)
    PROVE  /\ PipelineNext /\ pc' = pc /\ t \in Existing
           /\ \A u \in Ticket \ {t} : row'[u] = row[u]
           /\ Keeps(t) /\ row'[t].status = "resolved" /\ row'[t].age = 0 /\ row'[t].fps = row[t].fps
<1>0. StoreTypeOK /\ created \in 0..MaxTicket /\ MaxTicket \in Nat
  BY StoreAssumption DEF PipelineInv, PipelineTypeOK, StoreTypeOK
<1>1. row[t].status \in OpenStatus /\ Resolved({t}, {t})
  BY DEF Closes
<1>2. t \in Existing
  <2>1. ~(t > created)
    BY <1>1 DEF PipelineInv, TicketInv, Fresh, OpenStatus
  <2> QED BY <1>0, <2>1 DEF Existing, Ticket
<1>3. {t} \in (SUBSET ListOpen) \ {{}}
  BY <1>1, <1>2 DEF ListOpen
<1>4. PipelineNext
  BY <1>1, <1>3 DEF PipelineNext, Environment, Surroundings
<1>5. /\ \A u \in Ticket \ {t} : row'[u] = row[u]
      /\ Keeps(t) /\ row'[t].status = "resolved" /\ row'[t].age = 0 /\ row'[t].fps = row[t].fps
  BY <1>0, <1>1, ResolveKeeps DEF Resolved
<1> QED BY <1>1, <1>2, <1>4, <1>5 DEF Resolved, Others, runVars

LEMMA PollIsPipeline ==
    ASSUME PollerInv, PollStep
    PROVE  /\ [PipelineNext]_pipelineVars /\ Waits
           /\ Gentle \/ \E t \in Ticket : Closes(t)
           /\ UNCHANGED alertVars /\ UNCHANGED workflowVars
<1>0. PipelineInv /\ PollSound /\ Existing \subseteq Ticket
  BY ExistingTickets DEF PollerInv, AlertInv
<1>1. UNCHANGED alertVars /\ UNCHANGED workflowVars
  BY DEF PollStep, StartPoll, TouchDegraded, OnTicket, Scan, CreateDegraded, ListStale, ListOrphans,
         FetchActive, ListGone, EndPoll, ResolveListed, webhookVars, inboundVars, agentVars
<1>2. CASE UNCHANGED pipelineVars
  BY <1>1, <1>2 DEF Gentle, Waits, pipelineVars, runVars
<1>3. CASE TouchDegraded /\ ~NoStore
  <2> DEFINE t == poll.ticket
  <2>1. t \in Existing /\ Touch(t) /\ UNCHANGED <<created, outsideVars>> /\ Others
    BY <1>0, <1>3 DEF TouchDegraded, PollSound
  <2> HIDE DEF t
  <2>2. /\ PipelineNext /\ pc' = pc
        /\ \A u \in Ticket \ {t} : row'[u] = row[u]
        /\ Keeps(t) /\ row'[t].status = row[t].status /\ row'[t].age = 0
    BY <1>0, <2>1, BeatIsPipeline
  <2> QED BY <1>1, <2>1, <2>2 DEF Gentle, Waits
<1>4. ASSUME NEW w \in Argo, CreateDegraded(w), ~NoStore
      PROVE  [PipelineNext]_pipelineVars /\ Waits /\ Gentle
  <2>1. NewTicket("polling", <<w, NoAlertName>>, {})
    BY <1>4 DEF CreateDegraded
  <2>2. "polling" \in Source /\ <<w, NoAlertName>> \in Key
    BY PollerAssumption DEF Key
  <2>3. /\ PipelineNext /\ Waits
        /\ \E n \in Ticket : /\ n = created + 1 /\ n \notin Existing /\ Existing' = Existing \cup {n}
                             /\ \A t \in Ticket \ {n} : row'[t] = row[t] /\ pc'[t] = pc[t]
                             /\ pc'[n] = "created" /\ row'[n].status = "open" /\ row'[n].age = 0
                             /\ row'[n].source = "polling" /\ row'[n].key = <<w, NoAlertName>>
    BY <1>0, <2>1, <2>2, OpenIsPipeline
  <2> QED BY <2>3 DEF Gentle
<1>5. CASE OnTicket
  <2> DEFINE t == poll.ticket
  <2>1. t \in Existing /\ ProcessTicket(t) /\ row[t].source = "polling"
    BY <1>0, <1>5 DEF OnTicket, PollSound
  <2> HIDE DEF t
  <2>2. /\ PipelineNext /\ row' = row /\ created' = created /\ pc[t] = "created"
        /\ pc'[t] \in {"skipped", "queued"} /\ \A u \in Ticket \ {t} : pc'[u] = pc[u]
    BY <1>0, <2>1, EntryIsPipeline
  <2>3. Waits
    BY <1>0, <2>1, EntryWaits
  <2> QED BY <1>1, <2>1, <2>2, <2>3 DEF Gentle
<1>6. ASSUME NEW t \in Ticket, NEW from \in OpenStatus, ResolveListed(t, from)
      PROVE  UNCHANGED pipelineVars \/ Closes(t)
  <2> DEFINE S == ResolveByIDFromStatus(t, from)
  <2>1. S = {} \/ (S = {t} /\ row[t].status = from)
    BY DEF ResolveByIDFromStatus
  <2>2. UNCHANGED pipelineVars \/ (S # {} /\ Resolved(S, S))
    BY <1>6 DEF ResolveListed, NoStore
  <2> QED BY <1>6, <2>1, <2>2 DEF Closes
<1>7. ASSUME NEW t \in Ticket, Closes(t)
      PROVE  [PipelineNext]_pipelineVars /\ Waits
  BY <1>0, <1>7, ClosingStep DEF Waits
<1>8. ASSUME NEW w \in Argo, Scan(w) PROVE UNCHANGED pipelineVars
  BY <1>8 DEF Scan, inboundVars, agentVars
<1>9. ASSUME StartPoll \/ ListStale \/ ListOrphans \/ FetchActive \/ ListGone \/ EndPoll
      PROVE  UNCHANGED pipelineVars
  BY <1>9 DEF StartPoll, ListStale, ListOrphans, FetchActive, ListGone, EndPoll, inboundVars, agentVars
<1>10. CASE NoStore
  BY <1>2, <1>10 DEF NoStore
<1> QED BY <1>1, <1>2, <1>3, <1>4, <1>5, <1>6, <1>7, <1>8, <1>9, <1>10 DEF PollStep

\* Time, as the poller's model lets it pass.
LEMMA TimeIsPipeline ==
    ASSUME PollerInv, NEW t \in Ticket, TimePasses(t) \/ CoolDown(t)
    PROVE  /\ PipelineNext /\ pc' = pc /\ created' = created
           /\ UNCHANGED alertVars /\ UNCHANGED <<delivery, poll, health>>
           /\ \A u \in Ticket \ {t} : row'[u] = row[u]
           /\ Keeps(t) /\ row'[t].status = row[t].status
           /\ row'[t].age = row[t].age \/ row'[t].age <= Settled \/ (pc[t] \notin Active /\ poll.step = "idle")
<1>0. StoreTypeOK /\ row[t] \in Row
  BY DEF PollerInv, AlertInv, PipelineInv, PipelineTypeOK, StoreTypeOK
<1> DEFINE b == pc[t] \in Active
           c == pc[t] \in Active \/ poll.step # "idle"
<1>1. /\ t \in Existing
      /\ Grow(t, c) \/ CooldownEnds(t)
      /\ UNCHANGED <<created, outsideVars, alertVars, delivery, pollVars>> /\ Others
  BY DEF TimePasses, CoolDown, webhookVars, workflowVars
<1>2. Grow(t, c) => Grow(t, b)
  BY <1>0, StoreAssumption DEF Grow, Row, Age, Settled
<1>3. PipelineNext
  BY <1>1, <1>2 DEF Clock, PipelineNext, Environment, Surroundings
<1>4. c \in BOOLEAN
  OBVIOUS
<1>5. /\ \A u \in Ticket \ {t} : row'[u] = row[u]
      /\ Keeps(t) /\ row'[t].status = row[t].status
      /\ row'[t].age = row[t].age \/ ~c \/ row'[t].age <= Settled
  <2> HIDE DEF c
  <2> QED BY <1>0, <1>1, <1>4, ClockKeeps
<1> QED BY <1>1, <1>3, <1>5 DEF Others, runVars, pollVars

LEMMA PollerIsPipeline ==
    ASSUME PollerInv, [PollerNext]_pollerVars
    PROVE  [PipelineNext]_pipelineVars /\ AlertInv'
<1>0. AlertInv
  BY DEF PollerInv
<1>1. CASE Deliveries \/ PipelineWorks \/ Restart
  <2>1. AlertNext
    BY <1>1 DEF AlertNext
  <2> QED BY <1>0, <2>1, AlertIsPipeline, AlertNextInv
<1>2. CASE [PipelineNext]_pipelineVars /\ Waits /\ UNCHANGED alertVars
  BY <1>0, <1>2, BesideInv
<1>3. ASSUME NEW d \in Delivery, DeliveryStep(d)
      PROVE  [PipelineNext]_pipelineVars /\ Waits /\ UNCHANGED alertVars
  BY <1>3, DeliveryIsPipeline
<1>4. CASE PollStep
  BY <1>2, <1>4, PollIsPipeline
<1>5. ASSUME NEW t \in Ticket, TimePasses(t) \/ CoolDown(t)
      PROVE  [PipelineNext]_pipelineVars /\ Waits /\ UNCHANGED alertVars
  BY <1>5, TimeIsPipeline DEF Waits
<1>6. ASSUME UNCHANGED pollerVars \/ \E w \in Argo, s \in {"healthy", "degraded", "gone"} : Becomes(w, s)
      PROVE  [PipelineNext]_pipelineVars /\ Waits /\ UNCHANGED alertVars
  <2>1. UNCHANGED pipelineVars /\ UNCHANGED alertVars
    BY <1>6 DEF pollerVars, Becomes, inboundVars, agentVars
  <2> QED BY <2>1 DEF Waits, pipelineVars, runVars
<1> QED BY <1>1, <1>2, <1>3, <1>4, <1>5, <1>6 DEF PollerNext, PollerWorks, RestartAll

-----------------------------------------------------------------------------
(* The phases of a run *)

\* Its first statement takes the row out of the open status, if it goes on.
LEMMA RunBegins ==
    ASSUME PipelineInv, NEW t \in Ticket, RunStep(t), pc[t] = "start"
    PROVE  pc'[t] = "aborted" \/ row'[t].status = "analyzing"
<1>0. StoreTypeOK /\ row[t] \in Row /\ mem[t] \in Copy /\ pc \in [Ticket -> Pc]
  BY DEF PipelineInv, PipelineTypeOK, StoreTypeOK
<1>1. MarkAnalyzing(t)
  BY Zenon DEF RunStep, PublishAlert, Reload, NoDiagnosis, Diagnosed, SyncDiagnosis, Advise,
         Suggest, StartFix, FixStops, FixReady, CheckLimits, PushBranch, OpenPR, Link, LinkOnly,
         MirrorPR, MergePR, Persist, Mirror, Move
<1>2. CASE StoreFails(t)
  BY <1>0, <1>2 DEF StoreFails, Return
<1>3. CASE ~StoreFails(t)
  <2> DEFINE m == [mem[t] EXCEPT !.status = "analyzing"]
             q == Takes(row[t], m.status)
             r == [q EXCEPT !.fps = m.fps, !.pr = m.pr, !.cooling = FALSE]
  <2>1. m \in Copy /\ m.status = "analyzing" /\ m.status \in Status
    BY <1>0 DEF Copy, Status, OpenStatus
  <2>2. Write(t, r)
    BY <1>1, <1>3 DEF MarkAnalyzing, Update
  <2> HIDE DEF m
  <2>3. q \in Row /\ q.status = "analyzing"
    BY <1>0, <2>1, TakesFields
  <2> HIDE DEF q
  <2>4. r.status = "analyzing"
    BY <2>1, <2>3 DEF Row, Copy
  <2> HIDE DEF r
  <2> QED BY <1>0, <2>2, <2>4 DEF Write, StoreTypeOK
<1> QED BY <1>2, <1>3

LEMMA PhaseStep ==
    ASSUME PipelineInv, \A t \in Existing : Begun(t), \A t \in Ticket : Phase(t),
           [PipelineNext]_pipelineVars
    PROVE  \A t \in Ticket : Phase(t)'
<1>0. /\ StoreTypeOK /\ Existing \subseteq Ticket /\ pc \in [Ticket -> Pc]
      /\ \A t \in Ticket : row[t] \in Row
  BY ExistingTickets DEF PipelineInv, PipelineTypeOK, StoreTypeOK
<1>1. ASSUME NEW t \in Ticket, row'[t] = row[t], pc'[t] = pc[t] PROVE Phase(t)'
  BY <1>1 DEF Phase
<1>2. CASE row' = row /\ pc' = pc
  BY <1>1, <1>2
<1>3. ASSUME NEW src \in Source, NEW k \in Key, NEW F \in SUBSET Fp, NewTicket(src, k, F)
      PROVE  \A t \in Ticket : Phase(t)'
  <2>1. PICK n \in Ticket : n = created + 1
    BY <1>3, InsertKeeps
  <2>2. /\ \A t \in Ticket \ {n} : row'[t] = row[t] /\ pc'[t] = pc[t]
        /\ pc'[n] = "created"
        /\ row'[n] = [status |-> "open", source |-> src, key |-> k, fps |-> F,
                      pr |-> FALSE, age |-> 0, cooling |-> FALSE, took |-> {"open"}]
    BY <1>3, <2>1, InsertKeeps
  <2>3. Phase(n)'
    BY <2>2 DEF Phase, Active
  <2> QED BY <1>1, <2>2, <2>3
<1>4. CASE Touched
  <2>1. PICK u \in Existing, F \in SUBSET Fp : TouchWithFingerprint(u, F)
    BY <1>4 DEF Touched
  <2>2. pc' = pc
    BY <1>4 DEF Touched, Others, runVars
  <2>3. /\ \A t \in Ticket \ {u} : row'[t] = row[t]
        /\ row'[u].status = row[u].status /\ row'[u].age = 0
    BY <1>0, <2>1, TouchKeeps
  <2>4. Phase(u)'
    BY <1>0, <2>1, <2>2, <2>3 DEF Phase, Settled
  <2> QED BY <1>1, <2>2, <2>3, <2>4
<1>5. ASSUME NEW S \in SUBSET ListOpen, NEW ids, Resolved(S, ids)
      PROVE  \A t \in Ticket : Phase(t)'
  <2>1. ResolveRows(S) /\ S \in SUBSET Ticket /\ pc' = pc
    BY <1>5, OpenTickets DEF Resolved, Others, runVars
  <2>2. /\ \A t \in Ticket \ S : row'[t] = row[t]
        /\ \A t \in S : row'[t].status = "resolved" /\ row'[t].age = 0
    BY <1>0, <2>1, ResolveKeeps
  <2>3. \A t \in S : Phase(t)'
    BY <2>1, <2>2 DEF Phase, Settled
  <2> QED BY <1>1, <2>1, <2>2, <2>3
<1>6. CASE Clock
  <2>1. PICK u \in Existing : Grow(u, pc[u] \in Active) \/ CooldownEnds(u)
    BY <1>6 DEF Clock
  <2> DEFINE b == pc[u] \in Active
  <2>2. b \in BOOLEAN /\ (Grow(u, b) \/ CooldownEnds(u)) /\ u \in Ticket
    BY <1>0, <2>1
  <2> HIDE DEF b
  <2>3. /\ \A t \in Ticket \ {u} : row'[t] = row[t]
        /\ row'[u].status = row[u].status
        /\ row'[u].age = row[u].age \/ ~b \/ row'[u].age <= Settled
    BY <1>0, <2>2, ClockKeeps
  <2>4. pc' = pc
    BY <1>6 DEF Clock, Others, runVars
  <2>5. Phase(u)'
    BY <2>2, <2>3, <2>4 DEF Phase, b
  <2> QED BY <1>1, <2>3, <2>4, <2>5
<1>7. ASSUME NEW u \in Ticket, RunStep(u)
      PROVE  \A t \in Ticket : Phase(t)'
  <2>1. /\ pc[u] \in Active /\ \A t \in Ticket \ {u} : pc'[t] = pc[t] /\ row'[t] = row[t]
        /\ pc'[u] \in (Active \ {"start"}) \cup {"done", "aborted"}
    BY <1>7, RunStepPc, RunTo, RunStepRow DEF RunWrites
  <2>2. \/ row'[u] = row[u]
        \/ /\ row'[u].age = 0
           /\ row'[u].status \in {row[u].status, "analyzing", "escalated", "fix_proposed", "fix_applied"}
    BY <1>7, RunStepRow DEF RunWrites
  <2>3. pc[u] = "start" => pc'[u] = "aborted" \/ row'[u].status = "analyzing"
    BY <1>7, RunBegins
  <2>4. CASE pc[u] = "start"
    <3>1. CASE pc'[u] = "aborted"
      BY <3>1, <2>1, <1>1 DEF Phase, Active, Waiting
    <3>2. CASE row'[u].status = "analyzing"
      <4>1. row'[u].age = 0
        <5>1. row[u].status # "analyzing"
          BY <2>4 DEF Phase
        <5> QED BY <2>2, <3>2, <5>1
      <4>2. Phase(u)'
        BY <2>1, <3>2, <4>1 DEF Phase, Settled, Active, Waiting
      <4> QED BY <1>1, <2>1, <4>2
    <3> QED BY <2>3, <2>4, <3>1, <3>2
  <2>5. CASE pc[u] # "start"
    <3>1. row[u].status # "open" /\ row[u].age <= Settled
      BY <2>1, <2>5 DEF Phase
    <3>2. row'[u].status # "open" /\ row'[u].age <= Settled
      BY <2>2, <3>1 DEF Settled
    <3>3. Phase(u)'
      BY <2>1, <3>2 DEF Phase, Active, Waiting
    <3> QED BY <1>1, <2>1, <3>3
  <2> QED BY <2>4, <2>5
<1>8. CASE UNCHANGED pipelineVars \/ (\E t \in Ticket : DeliverResolve(t) \/ Review(t))
           \/ Pause \/ Resume
  <2>1. row' = row /\ pc' = pc
    BY <1>8 DEF pipelineVars, DeliverResolve, Review, Pause, Resume, storeVars, runVars, Others
  <2> QED BY <1>2, <2>1
<1>9. CASE Crash
  <2>1. row' = row /\ \A t \in Ticket : pc'[t] = pc[t] \/ pc'[t] = "lost"
    BY <1>9 DEF Crash, LoseRuns, storeVars
  <2>2. "lost" \notin Active /\ "lost" \notin {"none", "skipped", "start"} \cup Waiting
    BY DEF Active, Waiting
  <2> QED BY <2>1, <2>2 DEF Phase
<1>10. ASSUME NEW u \in Ticket, ProcessTicket(u) \/ AcquireSem(u) PROVE \A t \in Ticket : Phase(t)'
  <2>1. /\ row' = row /\ \A t \in Ticket \ {u} : pc'[t] = pc[t]
        /\ pc[u] \in Waiting /\ pc'[u] \in {"skipped", "queued", "start"}
    BY <1>0, <1>10 DEF ProcessTicket, AcquireSem, Move, storeVars, Waiting
  <2>2. Phase(u)'
    BY <2>1 DEF Phase, Waiting, Active
  <2> QED BY <1>1, <2>1, <2>2
<1> QED BY <1>3, <1>4, <1>5, <1>6, <1>7, <1>8, <1>9, <1>10
        DEF PipelineNext, PipelineStep, Environment, Surroundings

\* A run that is over stays over.
LEMMA EndedStays ==
    ASSUME PipelineInv, [PipelineNext]_pipelineVars, NEW t \in Ticket, pc[t] \in Ended
    PROVE  pc'[t] = pc[t]
<1>0. pc \in [Ticket -> Pc] /\ pc[t] \notin Active /\ pc[t] \notin Waiting /\ pc[t] # "none"
  BY DEF PipelineInv, PipelineTypeOK, Active, Waiting, Ended
<1>1. ASSUME NEW src \in Source, NEW k \in Key, NEW F \in SUBSET Fp, NewTicket(src, k, F)
      PROVE  pc'[t] = pc[t]
  <2>1. PICK n \in Ticket : n = created + 1
    BY <1>1, InsertKeeps
  <2>2. n > created
    BY <2>1, StoreAssumption DEF PipelineInv, PipelineTypeOK, StoreTypeOK
  <2>3. pc[n] = "none"
    BY <2>1, <2>2 DEF PipelineInv, TicketInv, Fresh
  <2> QED BY <1>0, <1>1, <2>1, <2>3, InsertKeeps
<1>2. ASSUME NEW u \in Ticket, PipelineStep(u) PROVE pc'[t] = pc[t]
  <2>1. CASE RunStep(u)
    BY <1>0, <2>1, RunStepPc
  <2>2. CASE ProcessTicket(u) \/ AcquireSem(u)
    BY <1>0, <2>2 DEF ProcessTicket, AcquireSem, Move, Waiting
  <2> QED BY <1>2, <2>1, <2>2 DEF PipelineStep
<1>3. CASE Crash
  BY <1>0, <1>3 DEF Crash, LoseRuns, Running, Ended
<1>4. CASE pc' = pc
  BY <1>4
<1>5. ASSUME NEW S, NEW ids, Resolved(S, ids) PROVE pc' = pc
  BY <1>5 DEF Resolved, Others, runVars
<1>6. ASSUME UNCHANGED pipelineVars \/ Touched \/ (\E u \in Ticket : DeliverResolve(u) \/ Review(u))
             \/ Clock \/ Pause \/ Resume
      PROVE pc' = pc
  BY <1>6 DEF pipelineVars, Touched, DeliverResolve, Review, Clock, Pause, Resume, Others, runVars
<1> QED BY <1>1, <1>2, <1>3, <1>4, <1>5, <1>6 DEF PipelineNext, Environment, Surroundings

-----------------------------------------------------------------------------
(* The invariant *)

\* What the age cap and the stale TTL pick: tickets nobody has begun to work on and
\* tickets whose run is over.
LEMMA StaleAreSettled ==
    ASSUME PollerInv, NEW old \in SUBSET CanBeTooOld
    PROVE  /\ StaleTickets(old) \in SUBSET (Ticket \X OpenStatus)
           /\ \A d \in StaleTickets(old) :
                /\ d[1] \in Existing
                /\ d[2] = row[d[1]].status
                /\ d[2] = "open" \/ pc[d[1]] \in Ended
                /\ d[1] \in CanBeTooOld \/ row[d[1]].age >= Stale
<1>0. PipelineInv /\ Existing \subseteq Ticket /\ pc \in [Ticket -> Pc] /\ \A t \in Ticket : row[t] \in Row
  BY ExistingTickets DEF PollerInv, AlertInv, PipelineInv, PipelineTypeOK, StoreTypeOK
<1> SUFFICES ASSUME NEW d \in StaleTickets(old)
             PROVE  /\ d \in Ticket \X OpenStatus
                    /\ d[1] \in Existing
                    /\ d[2] = row[d[1]].status
                    /\ d[2] = "open" \/ pc[d[1]] \in Ended
                    /\ d[1] \in CanBeTooOld \/ row[d[1]].age >= Stale
  OBVIOUS
<1>1. PICK t \in old \cup {u \in Closable : eligibleSource(u) /\ argoRefreshed(u) /\ row[u].age >= Stale} :
          d = <<t, row[t].status>>
  BY DEF StaleTickets, Listed
<1>2. t \in Existing /\ t \in Ticket /\ row[t].status \in OpenStatus /\ Phase(t)
  BY <1>0, <1>1 DEF CanBeTooOld, Closable, ListOpen, PollerInv
<1>3. t \in CanBeTooOld \/ row[t].age >= Stale
  BY <1>1
<1>4. row[t].status = "open" \/ pc[t] \in Ended
  <2>1. CASE t \in CanBeTooOld
    <3>1. pc[t] \notin Active /\ row[t].status = "analyzing"
      BY <2>1 DEF CanBeTooOld
    <3>2. pc[t] \notin {"none"} \cup Waiting
      BY <1>2, <3>1 DEF Phase
    <3> QED BY <1>0, <1>2, <3>1, <3>2 DEF Pc
  <2>2. CASE row[t].age >= Stale
    <3>1. ~(row[t].age <= Settled)
      <4>1. row[t].age \in Nat
        BY <1>0, <1>2, StoreAssumption DEF Row, Age
      <4> QED BY <2>2, <4>1 DEF Settled, Stale
    <3>2. pc[t] \notin Active \ {"start"}
      BY <1>2, <3>1 DEF Phase
    <3>3. row[t].status = "open" \/ pc[t] \notin {"none", "skipped", "start"} \cup Waiting
      BY <1>2 DEF Phase, OpenStatus
    <3> QED BY <1>0, <1>2, <3>2, <3>3 DEF Pc
  <2> QED BY <1>3, <2>1, <2>2
<1> QED BY <1>1, <1>2, <1>3, <1>4

LEMMA ListsAreTyped ==
    ASSUME PollerInv
    PROVE  Orphans \in SUBSET (Ticket \X OpenStatus) /\ Gone \in SUBSET (Ticket \X OpenStatus)
<1>0. Existing \subseteq Ticket
  BY ExistingTickets DEF PollerInv, AlertInv
<1>1. \A t \in Closable : Listed(t) \in Ticket \X OpenStatus
  BY <1>0 DEF Closable, ListOpen, Listed
<1>2. Orphans \subseteq {Listed(t) : t \in Closable}
  BY DEF Orphans
<1>3. Gone \subseteq {Listed(t) : t \in Closable}
  BY DEF Gone
<1> QED BY <1>1, <1>2, <1>3

LEMMA RescanPoll ==
    ASSUME poll \in Poll
    PROVE  /\ Rescan(poll) \in Poll /\ Rescan(poll).step = "scan" /\ Rescan(poll).cur = {}
           /\ Rescan(poll).services = poll.services /\ Rescan(poll).known = poll.known
           /\ Rescan(poll).recorded = poll.recorded /\ Rescan(poll).doomed = poll.doomed
BY DEF Rescan, Poll

\* The poll between two of its steps, when it holds no ticket.
LEMMA FreePoll ==
    ASSUME poll'.step \in {"idle", "scan", "create", "prune", "fetch", "reconcile"} PROVE PollSound'
BY DEF PollSound

LEMMA PollMoves ==
    ASSUME PollerInv, PollStep
    PROVE  poll' \in Poll /\ PollSound' /\ health' = health
<1>0. /\ PipelineInv /\ poll \in Poll /\ PollSound /\ health \in [Argo -> {"healthy", "degraded", "gone"}]
      /\ Existing \subseteq Ticket
  BY ExistingTickets DEF PollerInv, AlertInv, PollerTypeOK
<1>1. CASE StartPoll
  <2> DEFINE L == {w \in Argo : health[w] # "gone"}
  <2>1. L \in SUBSET Argo /\ Argo \in SUBSET Argo
    OBVIOUS
  <2>2. /\ health' = health
        /\ \/ poll' = [Resting EXCEPT !.step = "scan", !.services = L, !.known = L]
           \/ poll' = [Resting EXCEPT !.step = "scan", !.missed = Argo]
    BY <1>1 DEF StartPoll
  <2> HIDE DEF L
  <2>3. poll' \in Poll /\ poll'.step = "scan"
    BY <2>1, <2>2 DEF Resting, Poll
  <2> QED BY <2>2, <2>3, FreePoll
<1>2. ASSUME NEW w \in Argo, Scan(w) PROVE poll' \in Poll /\ PollSound' /\ health' = health
  <2> DEFINE dup == FindDuplicate(<<w, NoAlertName>>)
             to == IF dup = NoTicket THEN "create" ELSE "touch"
             rest == poll.services \ {w}
             more == poll.missed \cup {w}
  <2>1. dup \in Ticket \cup {NoTicket} /\ (dup # NoTicket => dup \in Existing)
    BY <1>0, DuplicateOf
  <2>2. rest \in SUBSET Argo /\ more \in SUBSET Argo /\ to \in {"create", "touch"} /\ {w} \in SUBSET Argo
    BY <1>0 DEF Poll
  <2>3. health' = health /\ created' = created /\ poll.step = "scan"
    BY <1>2 DEF Scan, inboundVars, agentVars, pipelineVars, storeVars
  <2>4. \/ poll' = [poll EXCEPT !.services = rest]
        \/ poll' = [poll EXCEPT !.services = rest, !.missed = more]
        \/ poll' = [poll EXCEPT !.step = to, !.ticket = dup, !.services = rest, !.cur = {w}]
    <3>1. [[poll EXCEPT !.services = rest] EXCEPT !.missed = @ \cup {w}]
            = [poll EXCEPT !.services = rest, !.missed = more]
      BY <1>0 DEF Poll
    <3> QED BY <1>2, <3>1 DEF Scan
  <2>5. to = "touch" => dup \in Existing
    BY <2>1
  <2> HIDE DEF dup, to, rest, more
  <2>6. /\ poll' \in Poll
        /\ poll'.step = "scan" \/ (poll'.step = to /\ poll'.ticket = dup)
    BY <1>0, <2>1, <2>2, <2>3, <2>4 DEF Poll
  <2>7. Existing' = Existing
    BY <2>3 DEF Existing
  <2> QED BY <2>2, <2>3, <2>5, <2>6, <2>7 DEF PollSound
<1>3. CASE TouchDegraded
  <2> DEFINE seen == poll.recorded \cup poll.cur
  <2>1. /\ health' = health
        /\ poll' = Rescan(poll) \/ poll' = [Rescan(poll) EXCEPT !.recorded = @ \cup poll.cur]
    BY <1>3 DEF TouchDegraded
  <2>2. seen \in SUBSET Argo
    BY <1>0 DEF Poll
  <2> DEFINE q == Rescan(poll)
  <2>3. q \in Poll /\ q.step = "scan" /\ q.recorded = poll.recorded
    BY <1>0, RescanPoll
  <2>4. poll' = q \/ poll' = [q EXCEPT !.recorded = seen]
    BY <2>1, <2>3
  <2> HIDE DEF seen, q
  <2>5. poll' \in Poll /\ poll'.step = "scan"
    BY <2>2, <2>3, <2>4 DEF Poll
  <2> QED BY <2>1, <2>5, FreePoll
<1>4. ASSUME NEW w \in Argo, CreateDegraded(w) PROVE poll' \in Poll /\ PollSound' /\ health' = health
  <2> DEFINE seen == poll.recorded \cup {w}
  <2>0. health' = health /\ seen \in SUBSET Argo
    BY <1>0, <1>4 DEF CreateDegraded, Poll
  <2>1. CASE poll' = Rescan(poll)
    <3>1. poll' \in Poll /\ poll'.step = "scan"
      BY <1>0, <2>1 DEF Rescan, Poll
    <3> QED BY <2>0, <3>1, FreePoll
  <2>2. CASE poll' # Rescan(poll)
    <3>1. /\ NewTicket("polling", <<w, NoAlertName>>, {})
          /\ poll' = [poll EXCEPT !.step = "handoff", !.ticket = created + 1, !.recorded = seen]
      BY <1>4, <2>2 DEF CreateDegraded
    <3>2. "polling" \in Source /\ <<w, NoAlertName>> \in Key
      BY PollerAssumption DEF Key
    <3>3. PICK n \in Ticket : n = created + 1 /\ n \in Existing' /\ row'[n].source = "polling"
      BY <1>0, <3>1, <3>2, OpenIsPipeline
    <3> HIDE DEF seen
    <3>4. poll' \in Poll /\ poll'.step = "handoff" /\ poll'.ticket = n
      BY <1>0, <2>0, <3>1, <3>3 DEF Poll
    <3> QED BY <2>0, <3>3, <3>4 DEF PollSound
  <2> QED BY <2>1, <2>2
<1>5. CASE OnTicket
  <2>1. poll' \in Poll /\ poll'.step = "scan" /\ health' = health
    BY <1>0, <1>5 DEF OnTicket, Rescan, Poll
  <2> QED BY <2>1, FreePoll
<1>6. ASSUME NEW step \in {"stale", "prune", "reconcile"}, NEW S \in SUBSET (Ticket \X OpenStatus),
             List(step, S), health' = health,
             step = "stale" => \A d \in S : d[2] = "open" \/ pc'[d[1]] \in Ended
      PROVE  poll' \in Poll /\ PollSound' /\ health' = health
  <2>1. poll' \in Poll /\ poll'.step = step /\ poll'.doomed = S
    BY <1>0, <1>6 DEF List, Poll
  <2> QED BY <1>6, <2>1 DEF PollSound
<1>7. CASE ListStale
  <2>1. pc' = pc /\ health' = health
    BY <1>7 DEF ListStale, inboundVars, agentVars, pipelineVars, runVars
  <2>2. ASSUME NEW old \in SUBSET CanBeTooOld, List("stale", StaleTickets(old))
        PROVE  poll' \in Poll /\ PollSound' /\ health' = health
    <3> DEFINE S == StaleTickets(old)
    <3>1. S \in SUBSET (Ticket \X OpenStatus) /\ \A d \in S : d[2] = "open" \/ pc[d[1]] \in Ended
      BY StaleAreSettled
    <3>2. List("stale", S)
      BY <2>2
    <3> HIDE DEF S
    <3> QED BY <1>6, <2>1, <3>1, <3>2
  <2>3. CASE List("stale", {})
    BY <1>6, <2>1, <2>3
  <2> QED BY <1>7, <2>2, <2>3 DEF ListStale
<1>8. CASE ListOrphans
  <2>1. health' = health /\ (List("prune", Orphans) \/ List("prune", {}))
    BY <1>8 DEF ListOrphans
  <2>2. Orphans \in SUBSET (Ticket \X OpenStatus)
    BY ListsAreTyped
  <2> QED BY <1>6, <2>1, <2>2
<1>9. CASE FetchActive
  <2> DEFINE A == {f \in Fp : firing[f]}
  <2>1. health' = health /\ (poll' = Resting \/ poll' = [poll EXCEPT !.step = "fetch", !.active = A])
    BY <1>9 DEF FetchActive
  <2>2. A \in SUBSET Fp
    OBVIOUS
  <2> HIDE DEF A
  <2>3. poll' \in Poll /\ poll'.step \in {"idle", "fetch"}
    <3>1. CASE poll' = Resting
      BY <3>1 DEF Resting, Poll
    <3>2. CASE poll' = [poll EXCEPT !.step = "fetch", !.active = A]
      BY <1>0, <2>2, <3>2 DEF Poll
    <3> QED BY <2>1, <3>1, <3>2
  <2> QED BY <2>1, <2>3, FreePoll
<1>10. CASE ListGone
  <2>1. health' = health /\ (List("reconcile", Gone) \/ List("reconcile", {}))
    BY <1>10 DEF ListGone
  <2>2. Gone \in SUBSET (Ticket \X OpenStatus)
    BY ListsAreTyped
  <2> QED BY <1>6, <2>1, <2>2
<1>11. CASE EndPoll
  <2>1. poll' \in Poll /\ poll'.step = "idle" /\ health' = health
    BY <1>11 DEF EndPoll, Resting, Poll
  <2> QED BY <2>1, FreePoll
<1>12. ASSUME NEW t \in Ticket, NEW from \in OpenStatus, ResolveListed(t, from)
       PROVE  poll' \in Poll /\ PollSound' /\ health' = health
  <2> DEFINE D == poll.doomed \ {<<t, from>>}
  <2>1. poll' = [poll EXCEPT !.doomed = D] /\ health' = health
    BY <1>12 DEF ResolveListed
  <2>2. D \in SUBSET (Ticket \X OpenStatus) /\ D \subseteq poll.doomed
    BY <1>0 DEF Poll
  <2> HIDE DEF D
  <2>3. poll' \in Poll /\ poll'.step = poll.step /\ poll'.doomed = D /\ poll'.ticket = poll.ticket
    BY <1>0, <2>1, <2>2 DEF Poll
  <2>4. [PipelineNext]_pipelineVars
    BY PollIsPipeline
  <2>5. Existing \subseteq Existing' /\ \A u \in Existing : row'[u].source = row[u].source
    BY <2>4, StepKeeps DEF PollerInv, AlertInv, Survives, Keeps
  <2>6. \A u \in Ticket : pc[u] \in Ended => pc'[u] \in Ended
    BY <1>0, <2>4, EndedStays
  <2>7. \A d \in D : d[1] \in Ticket
    BY <2>2
  <2> QED BY <1>0, <2>1, <2>2, <2>3, <2>5, <2>6, <2>7 DEF PollSound
<1> QED BY <1>1, <1>2, <1>3, <1>4, <1>5, <1>7, <1>8, <1>9, <1>10, <1>11, <1>12 DEF PollStep

\* Whoever holds a ticket keeps one that exists, of the source it came from.
LEMMA TicketsStay ==
    ASSUME PollerInv, [PipelineNext]_pipelineVars
    PROVE  /\ Existing \subseteq Existing'
           /\ \A t \in Existing : row'[t].source = row[t].source /\ row'[t].key = row[t].key
BY StepKeeps DEF PollerInv, AlertInv, Survives, Keeps

LEMMA DeliveryMoves ==
    ASSUME PollerInv, NEW d \in Delivery, DeliveryStep(d)
    PROVE  WorkflowTypeOK' /\ \A e \in Delivery : DeliverySound(e)'
<1> DEFINE Rec == [step: {"idle", "touch", "create", "handoff"},
                   about: SUBSET Workflow, ticket: Ticket \cup {NoTicket}]
<1>0. /\ PipelineInv /\ delivery \in [Delivery -> Rec] /\ quiet \in [Ticket -> Age]
      /\ [PipelineNext]_pipelineVars
  BY DeliveryIsPipeline DEF PollerInv, AlertInv, PollerTypeOK, WorkflowTypeOK
<1>1. quiet' \in [Ticket -> Age]
  <2>1. 0 \in Age
    BY StoreAssumption DEF Age
  <2>2. UNCHANGED quiet \/ \E t : RecordedIn(t)
    BY DEF DeliveryStep, TouchFailure, HandOffFailure, WorkflowFailed, CreateFailure, Forgotten
  <2> QED BY <1>0, <2>1, <2>2 DEF RecordedIn
<1>2. ASSUME NEW j \in Rec, delivery' = [delivery EXCEPT ![d] = j],
             j.step \in {"touch", "handoff"} => j.ticket \in Existing',
             j.step = "handoff" => row'[j.ticket].source = "github_webhook"
      PROVE  WorkflowTypeOK' /\ \A e \in Delivery : DeliverySound(e)'
  <2>1. delivery' \in [Delivery -> Rec]
    BY <1>0, <1>2
  <2>2. \A e \in Delivery \ {d} : delivery'[e] = delivery[e]
    BY <1>0, <1>2
  <2>3. delivery'[d] = j
    BY <1>0, <1>2
  <2>4. DeliverySound(d)'
    BY <1>2, <2>3 DEF DeliverySound
  <2>5. ASSUME NEW e \in Delivery \ {d} PROVE DeliverySound(e)'
    BY <1>0, <2>2, TicketsStay DEF PollerInv, DeliverySound
  <2> QED BY <1>1, <2>1, <2>4, <2>5 DEF WorkflowTypeOK
<1>3. Unbusy \in Rec /\ Unbusy.step = "idle"
  BY DEF Unbusy
<1>4. CASE Over(d)
  BY <1>2, <1>3, <1>4 DEF Over
<1>5. ASSUME NEW w \in Workflow, WorkflowFailed(d, w), ~Over(d)
      PROVE  WorkflowTypeOK' /\ \A e \in Delivery : DeliverySound(e)'
  <2> DEFINE dup == FindDuplicate(WorkflowKey(w))
             to(step, t) == [step |-> step, about |-> {w}, ticket |-> t]
  <2>1. dup \in Ticket \cup {NoTicket} /\ (dup # NoTicket => dup \in Existing)
    BY <1>0, DuplicateOf
  <2>2. \/ dup # NoTicket /\ delivery' = [delivery EXCEPT ![d] = to("touch", dup)]
        \/ delivery' = [delivery EXCEPT ![d] = to("create", NoTicket)]
    BY <1>5 DEF WorkflowFailed
  <2> HIDE DEF dup
  <2>3. Existing \subseteq Existing'
    BY <1>0, TicketsStay
  <2>4. CASE dup # NoTicket /\ delivery' = [delivery EXCEPT ![d] = to("touch", dup)]
    <3>1. to("touch", dup) \in Rec
      BY <2>1
    <3> QED BY <1>2, <2>1, <2>3, <2>4, <3>1
  <2>5. CASE delivery' = [delivery EXCEPT ![d] = to("create", NoTicket)]
    <3>1. to("create", NoTicket) \in Rec
      OBVIOUS
    <3> QED BY <1>2, <2>5, <3>1
  <2> QED BY <2>2, <2>4, <2>5
<1>6. ASSUME NEW w \in Workflow, CreateFailure(d, w), ~Over(d)
      PROVE  WorkflowTypeOK' /\ \A e \in Delivery : DeliverySound(e)'
  <2>1. /\ NewTicket("github_webhook", WorkflowKey(w), {})
        /\ delivery' = [delivery EXCEPT ![d].step = "handoff", ![d].ticket = created + 1]
    BY <1>6 DEF CreateFailure, Forgotten
  <2>2. "github_webhook" \in Source /\ WorkflowKey(w) \in Key
    BY WorkflowAssumption DEF WorkflowKey, Key
  <2>3. PICK n \in Ticket : n = created + 1 /\ n \in Existing' /\ row'[n].source = "github_webhook"
    BY <1>0, <2>1, <2>2, OpenIsPipeline
  <2> DEFINE j == [delivery[d] EXCEPT !.step = "handoff", !.ticket = n]
  <2>4. j \in Rec /\ j.step = "handoff" /\ j.ticket = n
    BY <1>0
  <2>5. delivery' = [delivery EXCEPT ![d] = j]
    BY <1>0, <2>1, <2>3
  <2> HIDE DEF j, Rec
  <2> QED BY <1>2, <2>3, <2>4, <2>5
<1> QED BY <1>4, <1>5, <1>6 DEF DeliveryStep, TouchFailure, Forgotten, HandOffFailure

\* A poll no step of its own: what it holds stays sound.
LEMMA PollStays ==
    ASSUME PollerInv, [PipelineNext]_pipelineVars, poll' = poll
    PROVE  PollSound'
<1>1. /\ Existing \subseteq Existing'
      /\ \A t \in Existing : row'[t].source = row[t].source
  BY TicketsStay
<1>2. \A t \in Ticket : pc[t] \in Ended => pc'[t] \in Ended
  BY EndedStays DEF PollerInv, AlertInv
<1>3. \A d \in poll.doomed : d[1] \in Ticket
  BY DEF PollerInv, PollerTypeOK, Poll
<1> QED BY <1>1, <1>2, <1>3 DEF PollerInv, PollSound

LEMMA PollerNextInv == PollerInv /\ [PollerNext]_pollerVars => PollerInv'
<1> SUFFICES ASSUME PollerInv, [PollerNext]_pollerVars PROVE PollerInv'
  OBVIOUS
<1>0. [PipelineNext]_pipelineVars /\ AlertInv' /\ AlertTypeOK'
  BY PollerIsPipeline DEF AlertInv
<1>1. \A t \in Ticket : Phase(t)'
  BY <1>0, PhaseStep DEF PollerInv, AlertInv
<1>2. ASSUME delivery' = delivery PROVE \A d \in Delivery : DeliverySound(d)'
  BY <1>0, <1>2, TicketsStay DEF PollerInv, DeliverySound
<1>3. ASSUME poll' \in Poll /\ PollSound' /\ health' \in [Argo -> {"healthy", "degraded", "gone"}],
             WorkflowTypeOK' /\ \A d \in Delivery : DeliverySound(d)'
      PROVE  PollerInv'
  BY <1>0, <1>1, <1>3 DEF PollerInv, PollerTypeOK
<1>4. /\ poll \in Poll /\ WorkflowTypeOK /\ health \in [Argo -> {"healthy", "degraded", "gone"}]
      /\ quiet \in [Ticket -> Age]
  BY DEF PollerInv, PollerTypeOK, WorkflowTypeOK
<1>5. CASE UNCHANGED <<workflowVars, poll>>
  <2>1. poll' \in Poll /\ PollSound' /\ WorkflowTypeOK' /\ delivery' = delivery
    BY <1>0, <1>4, <1>5, PollStays DEF WorkflowTypeOK, workflowVars
  <2>2. health' \in [Argo -> {"healthy", "degraded", "gone"}] => PollerInv'
    BY <1>2, <1>3, <2>1
  <2>3. health' = health \/ \E w \in Argo, s \in {"healthy", "degraded", "gone"} :
                              health' = [health EXCEPT ![w] = s]
    <3>1. CASE UNCHANGED pollVars
      BY <3>1 DEF pollVars
    <3>2. CASE PollStep
      BY <3>2, PollMoves
    <3> QED BY <3>1, <3>2 DEF PollerNext, PollerWorks, RestartAll, TimePasses, CoolDown, Becomes,
                             pollerVars
  <2> QED BY <1>4, <2>2, <2>3
<1>6. CASE PollStep
  <2>1. UNCHANGED workflowVars
    BY <1>6, PollIsPipeline
  <2>2. poll' \in Poll /\ PollSound' /\ health' = health
    BY <1>6, PollMoves
  <2>3. WorkflowTypeOK' /\ delivery' = delivery
    BY <1>4, <2>1 DEF WorkflowTypeOK, workflowVars
  <2> QED BY <1>2, <1>3, <1>4, <2>2, <2>3
<1>7. ASSUME NEW d \in Delivery, DeliveryStep(d), UNCHANGED pollVars PROVE PollerInv'
  <2>1. poll' \in Poll /\ PollSound' /\ health' = health
    BY <1>0, <1>4, <1>7, PollStays DEF pollVars
  <2>2. WorkflowTypeOK' /\ \A e \in Delivery : DeliverySound(e)'
    BY <1>7, DeliveryMoves
  <2> QED BY <1>3, <1>4, <2>1, <2>2
<1>8. ASSUME NEW t \in Ticket, TimePasses(t) PROVE PollerInv'
  <2>1. delivery' = delivery /\ poll' = poll /\ health' = health
    BY <1>8, TimeIsPipeline
  <2>2. quiet' \in [Ticket -> Age]
    <3>1. ASSUME quiet[t] < MaxAge PROVE quiet[t] + 1 \in Age
      BY <1>4, <3>1, StoreAssumption DEF Age
    <3>2. Quieter(t)
      BY <1>8 DEF TimePasses
    <3> QED BY <1>4, <3>1, <3>2 DEF Quieter
  <2>3. WorkflowTypeOK'
    BY <1>4, <2>1, <2>2 DEF WorkflowTypeOK
  <2>4. PollSound'
    BY <1>0, <2>1, PollStays
  <2> QED BY <1>2, <1>3, <1>4, <2>1, <2>3, <2>4
<1>9. CASE RestartAll
  <2>1. /\ delivery' = [d \in Delivery |-> Unbusy] /\ quiet' = quiet /\ poll' = Resting
        /\ health' = health
    BY <1>9 DEF RestartAll, Undelivered
  <2>2. poll' \in Poll /\ PollSound'
    BY <2>1 DEF Resting, Poll, PollSound
  <2>3. WorkflowTypeOK'
    BY <1>4, <2>1 DEF WorkflowTypeOK, Unbusy
  <2>4. \A d \in Delivery : DeliverySound(d)'
    BY <2>1 DEF Unbusy, DeliverySound
  <2> QED BY <1>3, <1>4, <2>1, <2>2, <2>3, <2>4
<1>10. ASSUME NEW t \in Ticket, CoolDown(t) PROVE UNCHANGED <<workflowVars, poll>>
  BY <1>10 DEF CoolDown, webhookVars, pollVars
<1>11. ASSUME UNCHANGED pollerVars \/ (\E w \in Argo, s \in {"healthy", "degraded", "gone"} : Becomes(w, s))
               \/ UNCHANGED <<workflowVars, pollVars>>
       PROVE  UNCHANGED <<workflowVars, poll>>
  BY <1>11 DEF pollerVars, Becomes, inboundVars, pollVars
<1> QED BY <1>5, <1>6, <1>7, <1>8, <1>9, <1>10, <1>11 DEF PollerNext, PollerWorks

LEMMA PollerInitInv == PollerInit => PollerInv
<1> SUFFICES ASSUME PollerInit PROVE PollerInv
  OBVIOUS
<1>1. AlertInv /\ AlertTypeOK /\ row = [t \in Ticket |-> NoRow] /\ pc = [t \in Ticket |-> "none"]
  BY AlertInitInv DEF PollerInit, AlertInit, PipelineInit, StoreInit, RunInit, AlertInv
<1>2. health \in [Argo -> {"healthy", "degraded", "gone"}] /\ poll \in Poll /\ PollSound
  BY DEF PollerInit, Resting, Poll, PollSound
<1>3. WorkflowTypeOK
  <2>1. 0 \in Age
    BY StoreAssumption DEF Age
  <2> QED BY <2>1 DEF PollerInit, WorkflowInit, WorkflowTypeOK, Unbusy
<1>4. \A d \in Delivery : DeliverySound(d)
  BY DEF PollerInit, WorkflowInit, Unbusy, DeliverySound
<1>5. \A t \in Ticket : Phase(t)
  <2>1. NoRow.status = "none" /\ "none" \notin Active
    BY DEF NoRow, Active
  <2> QED BY <1>1, <2>1 DEF Phase
<1> QED BY <1>1, <1>2, <1>3, <1>4, <1>5 DEF PollerInv, PollerTypeOK

-----------------------------------------------------------------------------
(* What holds of every poll *)

\* The types of the monitors' state, what the poll loop and the deliveries hold in
\* each step, and what a row is like in each phase of its run.
THEOREM PollerInvariance == PollerSpec => []PollerInv
BY PollerInitInv, PollerNextInv, PTL DEF PollerSpec

\* Both webhooks, the poll loop and the passage of time do to the tickets only what
\* the environment of Pipeline may do, so that what is proved of Pipeline holds of
\* the whole agent.
THEOREM MonitorsAreEnvironment == PollerSpec => PipelineSpec
<1>1. PollerInit => PipelineInit
  BY DEF PollerInit, AlertInit
<1>2. PollerInv /\ [PollerNext]_pollerVars => [PipelineNext]_pipelineVars
  BY PollerIsPipeline
<1> QED BY <1>1, <1>2, PollerInvariance, PTL DEF PollerSpec, PipelineSpec

\* Tickets, pull requests and the mirror in mctl-api move as TicketLife promises also
\* when alerts, failed workflows and polls create, touch and close the tickets.
THEOREM MonitorsKeepThePromises == PollerSpec => TicketsLiveAsPromised
BY MonitorsAreEnvironment, Implements

\* No pass by age closes a ticket while its run is under way: resolveStale's guard on
\* the listed status and the age that every write of a run resets.
THEOREM RunsLeftAlone == PollerSpec => RunsUndisturbed
<1> DEFINE Step == \A t \in Ticket : ClosedByPoll(t) /\ poll.step = "stale" => pc[t] \notin Active \ {"start"}
<1>1. PollerInv /\ [PollerNext]_pollerVars => Step
  <2> SUFFICES ASSUME PollerInv, [PollerNext]_pollerVars, NEW t \in Ticket,
                      ClosedByPoll(t), poll.step = "stale"
               PROVE  pc[t] \notin Active \ {"start"}
    OBVIOUS
  <2>0. /\ PipelineInv /\ PollSound /\ Phase(t) /\ poll' # poll /\ t \in Existing
        /\ row[t].status # "resolved" /\ row'[t].status = "resolved" /\ row' # row
    BY DEF PollerInv, AlertInv, ClosedByPoll, Unclosed, IsClosed, Closed
  <2>1. ~RestartAll
    BY <2>0 DEF RestartAll, Restart, Crash, LoseRuns, storeVars
  <2>2. PollStep
    BY <2>0, <2>1 DEF PollerNext, PollerWorks, pollerVars, pollVars, Becomes, TimePasses, CoolDown
  <2>3. PICK u \in Ticket, from \in OpenStatus : ResolveListed(u, from)
    BY <2>0, <2>2 DEF PollStep, StartPoll, TouchDegraded, OnTicket, Scan, CreateDegraded, ListStale,
                      ListOrphans, FetchActive, ListGone, EndPoll, inboundVars, agentVars,
                      pipelineVars, storeVars
  <2> DEFINE S == ResolveByIDFromStatus(u, from)
  <2>4. Resolved(S, S) /\ S # {}
    BY <2>0, <2>3 DEF ResolveListed, NoStore, pipelineVars, storeVars
  <2>5. S = {u} /\ row[u].status = from
    BY <2>4 DEF ResolveByIDFromStatus
  <2>6. Closes(u)
    BY <2>3, <2>4, <2>5 DEF Closes
  <2>7. t = u
    BY <2>0, <2>6, ClosingStep
  <2>8. <<t, row[t].status>> \in poll.doomed
    BY <2>3, <2>5, <2>7 DEF ResolveListed
  <2>9. row[t].status = "open" \/ pc[t] \in Ended
    BY <2>0, <2>8 DEF PollSound
  <2> QED BY <2>0, <2>9 DEF Phase, Active, Ended
<1>2. Step => [\A t \in Ticket :
                 ClosedByPoll(t) /\ poll.step = "stale" => pc[t] \notin Active \ {"start"}]_pollerVars
  OBVIOUS
<1> QED BY <1>1, <1>2, PollerInvariance, PTL DEF PollerSpec, RunsUndisturbed

-----------------------------------------------------------------------------
(* The services a poll has just seen degraded *)

\* No alert is about the ArgoCD health of a service the poller watches itself.
OwnWorkloads == \A f \in Fp : KeyOf[f][1] \notin Argo

LEMMA GentleRows ==
    ASSUME PollerInv, Gentle, NEW t \in Existing
    PROVE  row'[t].status = row[t].status /\ row'[t].age \in {row[t].age, 0}
<1>1. t \in Ticket /\ Existing \subseteq Ticket
  BY ExistingTickets DEF PollerInv, AlertInv
<1> QED BY <1>1 DEF Gentle, pipelineVars, storeVars

\* Outside the poll's own passes nobody closes a ticket of the poller.
LEMMA NobodyElseCloses ==
    ASSUME PollerInv, OwnWorkloads, [PollerNext]_pollerVars, NEW t \in Existing, row[t].key[1] \in Argo,
           ~IsClosed(t), \A u \in Ticket : Closes(u) => u # t
    PROVE  ~IsClosed(t)'
<1>0. /\ AlertInv /\ PipelineInv /\ AlertTypeOK /\ Existing \subseteq Ticket /\ t \in Ticket
      /\ [PipelineNext]_pipelineVars /\ row[t].status # "resolved"
  BY ExistingTickets, PollerIsPipeline DEF PollerInv, AlertInv, IsClosed, Closed
<1>1. Begun(t)'
  BY <1>0, StepKeeps DEF AlertInv, Survives
<1> SUFFICES row'[t].status # "resolved"
  BY <1>1 DEF Begun, OpenStatus, IsClosed, Closed
<1>2. CASE row' = row
  BY <1>0, <1>2
<1>3. CASE PipelineWorks
  BY <1>0, <1>3, PipelineCloses
<1>4. ASSUME NEW h \in Handler, HandlerStep(h) PROVE row'[t].status # "resolved"
  <2> SUFFICES ASSUME row'[t].status = "resolved" PROVE FALSE
    OBVIOUS
  <2>1. PICK a \in job[h].todo : t \in ResolveByTenantService(KeyOf[a.fp][1], a.fp, a.ends)
    BY <1>0, <1>4, HandlerCloses
  <2>2. a.fp \in Fp
    BY <1>0 DEF AlertTypeOK, Job, Alert
  <2>3. row[t].key[1] = KeyOf[a.fp][1]
    BY <2>1 DEF ResolveByTenantService
  <2> QED BY <2>2, <2>3 DEF OwnWorkloads
<1>5. CASE Gentle
  BY <1>0, <1>5, GentleRows
<1>6. ASSUME NEW u \in Ticket, Closes(u) PROVE row'[t].status # "resolved"
  <2>1. u # t
    BY <1>6
  <2> QED BY <1>0, <1>6, <2>1, ClosingStep
<1>7. ASSUME NEW u \in Ticket, TimePasses(u) \/ CoolDown(u) PROVE row'[t].status # "resolved"
  BY <1>0, <1>7, TimeIsPipeline
<1>8. CASE PollStep
  BY <1>5, <1>6, <1>8, PollIsPipeline
<1>9. ASSUME NEW d \in Delivery, DeliveryStep(d) PROVE row'[t].status # "resolved"
  BY <1>5, <1>9, DeliveryIsPipeline
<1>10. CASE Deliveries
  BY <1>2, <1>4, <1>10 DEF Deliveries, Fire, Stop, Deliver, HangUp, pipelineVars, storeVars
<1>11. ASSUME RestartAll \/ UNCHANGED pollerVars \/ \E w \in Argo, s \in {"healthy", "degraded", "gone"} : Becomes(w, s)
       PROVE  row' = row
  BY <1>11 DEF RestartAll, Restart, Crash, LoseRuns, pollerVars, Becomes, inboundVars, agentVars,
               pipelineVars, storeVars
<1> QED BY <1>2, <1>3, <1>7, <1>8, <1>9, <1>10, <1>11 DEF PollerNext, PollerWorks

\* Whoever writes a row renews its age; only the passage of time makes it older.
LEMMA WritesRenew ==
    ASSUME PollerInv, [PollerNext]_pollerVars, NEW t \in Ticket,
           \A u \in Ticket : ~TimePasses(u) /\ ~CoolDown(u)
    PROVE  row'[t] = row[t] \/ row'[t].age = 0
<1>0. /\ AlertInv /\ PipelineInv /\ AlertTypeOK /\ StoreTypeOK /\ Existing \subseteq Ticket
  BY ExistingTickets DEF PollerInv, AlertInv, PipelineInv, PipelineTypeOK
<1>2. CASE row' = row
  BY <1>2
<1>3. ASSUME NEW src \in Source, NEW k \in Key, NEW F \in SUBSET Fp, NewTicket(src, k, F)
      PROVE  row'[t] = row[t] \/ row'[t].age = 0
  <2>1. PICK n \in Ticket : n = created + 1
    BY <1>0, <1>3, InsertKeeps
  <2>2. /\ row'[n] = [status |-> "open", source |-> src, key |-> k, fps |-> F, pr |-> FALSE,
                      age |-> 0, cooling |-> FALSE, took |-> {"open"}]
        /\ \A u \in Ticket \ {n} : row'[u] = row[u]
    BY <1>0, <1>3, <2>1, InsertKeeps
  <2> QED BY <2>2
<1>4. CASE PipelineWorks
  <2>1. ASSUME NEW w \in Workload, "manual" \in Source, TriggerAnalysis(w)
        PROVE  row'[t] = row[t] \/ row'[t].age = 0
    <3>1. <<w, NoAlertName>> \in Key /\ {} \in SUBSET Fp
      BY <2>1, AlertAssumption DEF Key
    <3> QED BY <2>1, <3>1, <1>3 DEF TriggerAnalysis
  <2>2. ASSUME NEW u \in Ticket, RunStep(u) PROVE row'[t] = row[t] \/ row'[t].age = 0
    BY <1>0, <2>2, RunStepRow DEF RunWrites
  <2>3. ASSUME NEW u \in Ticket,
               ProcessTicket(u) \/ AcquireSem(u) \/ DeliverResolve(u) \/ Review(u) \/ Pause \/ Resume
        PROVE  row' = row
    BY <2>3 DEF ProcessTicket, AcquireSem, DeliverResolve, Review, Pause, Resume, storeVars
  <2>4. CASE Pause \/ Resume
    BY <2>4, <1>2 DEF Pause, Resume, storeVars
  <2> QED BY <1>2, <1>4, <2>1, <2>2, <2>3, <2>4 DEF PipelineWorks, Ask
<1>5. ASSUME NEW h \in Handler, HandlerStep(h) PROVE row'[t] = row[t] \/ row'[t].age = 0
  <2>1. CASE CreateTicket(h) /\ ~NoStore
    <3>1. KeyOfCur(h) \in Key /\ job[h].cur \in SUBSET Fp /\ "alertmanager" \in Source
      BY <1>0, <2>1, CurIsAlert, AlertAssumption DEF CreateTicket
    <3>2. NewTicket("alertmanager", KeyOfCur(h), job[h].cur)
      BY <2>1 DEF CreateTicket
    <3> QED BY <1>3, <3>1, <3>2
  <2>2. CASE TouchDuplicate(h) /\ ~NoStore
    <3>1. job[h].ticket \in Ticket /\ job[h].cur \in SUBSET Fp
      BY <1>0, <2>2, CurIsAlert DEF TouchDuplicate, AlertInv, JobSound
    <3>2. TouchWithFingerprint(job[h].ticket, job[h].cur)
      BY <2>2 DEF TouchDuplicate
    <3> QED BY <1>0, <3>1, <3>2, TouchKeeps
  <2>3. ASSUME NEW a \in job[h].todo, ResolveTickets(h, a), ~NoStore
        PROVE  row'[t] = row[t] \/ row'[t].age = 0
    <3> DEFINE S == ResolveByTenantService(KeyOf[a.fp][1], a.fp, a.ends)
    <3>1. ResolveRows(S) /\ S \in SUBSET Ticket
      BY <1>0, <2>3 DEF ResolveTickets, Resolved, ResolveByTenantService
    <3> HIDE DEF S
    <3> QED BY <1>0, <3>1, ResolveKeeps
  <2>4. CASE NoStore
    BY <2>4 DEF NoStore, pipelineVars, storeVars
  <2>5. ASSUME NEW a, Ignore(h, a) \/ LookUp(h, a) PROVE row' = row
    BY <2>5 DEF Ignore, LookUp, NoStore, pipelineVars, storeVars
  <2>6. ASSUME CheckCooldown(h) \/ HandOff(h) \/ SpendBudget(h) \/ Answer(h) PROVE row' = row
    BY <2>6 DEF CheckCooldown, HandOff, ProcessTicket, SpendBudget, Answer, NoStore, pipelineVars, storeVars
  <2> QED BY <1>5, <2>1, <2>2, <2>3, <2>4, <2>5, <2>6 DEF HandlerStep
<1>6. CASE Gentle
  BY <1>0, <1>6 DEF Gentle, pipelineVars, storeVars
<1>7. ASSUME NEW u \in Ticket, Closes(u) PROVE row'[t] = row[t] \/ row'[t].age = 0
  BY <1>0, <1>7, ClosingStep
<1>9. CASE PollStep
  BY <1>6, <1>7, <1>9, PollIsPipeline
<1>10. ASSUME NEW d \in Delivery, DeliveryStep(d) PROVE row'[t] = row[t] \/ row'[t].age = 0
  BY <1>6, <1>10, DeliveryIsPipeline
<1>11. CASE Deliveries
  BY <1>2, <1>5, <1>11 DEF Deliveries, Fire, Stop, Deliver, HangUp, pipelineVars, storeVars
<1>12. ASSUME RestartAll \/ UNCHANGED pollerVars \/ \E w \in Argo, s \in {"healthy", "degraded", "gone"} : Becomes(w, s)
       PROVE  row' = row
  BY <1>12 DEF RestartAll, Restart, Crash, LoseRuns, pollerVars, Becomes, inboundVars, agentVars,
               pipelineVars, storeVars
<1> QED BY <1>2, <1>4, <1>9, <1>10, <1>11, <1>12 DEF PollerNext, PollerWorks

\* During a poll no ticket grows as old as the stale TTL.
LEMMA PollKeepsYoung ==
    ASSUME PollerInv, [PollerNext]_pollerVars, poll.step # "idle", NEW t \in Existing, row[t].age <= Settled
    PROVE  row'[t].age <= Settled
<1>0. t \in Ticket /\ 0 <= Settled
  BY ExistingTickets DEF PollerInv, AlertInv, Settled
<1>1. ASSUME NEW u \in Ticket, TimePasses(u) \/ CoolDown(u) PROVE row'[t].age <= Settled
  BY <1>0, <1>1, TimeIsPipeline
<1>2. ASSUME \A u \in Ticket : ~TimePasses(u) /\ ~CoolDown(u) PROVE row'[t].age <= Settled
  BY <1>0, <1>2, WritesRenew
<1> QED BY <1>1, <1>2

\* Only processAlert opens tickets of source alertmanager.
LEMMA AlertSources ==
    ASSUME PollerInv, \A t \in Existing : OfAnAlert(t), [PollerNext]_pollerVars
    PROVE  \A t \in Existing' : OfAnAlert(t)'
<1>0. /\ AlertInv /\ PipelineInv /\ AlertTypeOK /\ Existing \subseteq Ticket
      /\ Existing \subseteq Existing'
  BY ExistingTickets, PollerIsPipeline, TicketsStay DEF PollerInv, AlertInv
<1>1. \A t \in Existing : OfAnAlert(t)'
  BY PollerIsPipeline, TicketsStay DEF OfAnAlert
<1>2. CASE created' = created
  BY <1>1, <1>2 DEF Existing
<1>3. CASE PipelineWorks
  <2>1. ASSUME NEW w \in Workload, "manual" \in Source, TriggerAnalysis(w)
        PROVE  \A t \in Existing' : OfAnAlert(t)'
    <3>0. "manual" \in Source /\ NewTicket("manual", <<w, NoAlertName>>, {})
      BY <2>1 DEF TriggerAnalysis
    <3>1. <<w, NoAlertName>> \in Key
      BY <2>1, AlertAssumption DEF Key
    <3>2. PICK n \in Ticket : Existing' = Existing \cup {n} /\ row'[n].source = "manual"
      BY <1>0, <3>0, <3>1, OpenIsPipeline
    <3> QED BY <1>1, <3>2 DEF OfAnAlert
  <2>2. ASSUME NEW u \in Ticket, RunStep(u) PROVE created' = created
    BY <1>0, <2>2, RunStepRow
  <2>3. ASSUME NEW u \in Ticket,
               ProcessTicket(u) \/ AcquireSem(u) \/ DeliverResolve(u) \/ Review(u)
        PROVE  created' = created
    BY <2>3 DEF ProcessTicket, AcquireSem, DeliverResolve, Review, storeVars
  <2>4. CASE Pause \/ Resume
    BY <2>4, <1>2 DEF Pause, Resume, storeVars
  <2> QED BY <1>2, <1>3, <2>1, <2>2, <2>3, <2>4 DEF PipelineWorks, Ask
<1>4. ASSUME NEW h \in Handler, HandlerStep(h) PROVE \A t \in Existing' : OfAnAlert(t)'
  <2>1. CASE CreateTicket(h) /\ ~NoStore
    <3>0. NewTicket("alertmanager", KeyOfCur(h), job[h].cur)
      BY <2>1 DEF CreateTicket
    <3>1. /\ KeyOfCur(h) \in Key /\ job[h].cur \in SUBSET Fp /\ "alertmanager" \in Source
          /\ \E f \in Fp : KeyOfCur(h) = KeyOf[f]
      BY <1>0, <2>1, CurIsAlert, AlertAssumption DEF CreateTicket
    <3>2. PICK n \in Ticket : n = created + 1
      BY <1>0, <3>0, <3>1, InsertKeeps
    <3>3. /\ Existing' = Existing \cup {n}
          /\ row'[n] = [status |-> "open", source |-> "alertmanager", key |-> KeyOfCur(h),
                        fps |-> job[h].cur, pr |-> FALSE, age |-> 0, cooling |-> FALSE,
                        took |-> {"open"}]
      BY <1>0, <3>0, <3>1, <3>2, InsertKeeps
    <3>4. row'[n].key = KeyOfCur(h)
      BY <3>3
    <3>5. OfAnAlert(n)'
      BY <3>1, <3>4 DEF OfAnAlert
    <3> QED BY <1>1, <3>3, <3>5
  <2>2. ASSUME ~CreateTicket(h) \/ NoStore PROVE created' = created
    BY <1>4, <2>2 DEF HandlerStep, ResolveTickets, Resolved, Ignore, LookUp, TouchDuplicate, CheckCooldown,
                      HandOff, ProcessTicket, SpendBudget, Answer, NoStore, pipelineVars, storeVars
  <2> QED BY <1>2, <2>1, <2>2
<1>5. CASE Gentle
  <2>1. ASSUME NEW n \in Ticket, Existing' = Existing \cup {n}, row'[n].source # "alertmanager"
        PROVE  \A t \in Existing' : OfAnAlert(t)'
    BY <1>1, <2>1 DEF OfAnAlert
  <2> QED BY <1>2, <1>5, <2>1 DEF Gentle, pipelineVars, storeVars
<1>6. ASSUME NEW u \in Ticket, Closes(u) PROVE created' = created
  BY <1>6 DEF Closes, Resolved
<1>7. ASSUME NEW u \in Ticket, TimePasses(u) \/ CoolDown(u) PROVE created' = created
  BY <1>7, TimeIsPipeline
<1>8. CASE PollStep
  BY <1>2, <1>5, <1>6, <1>8, PollIsPipeline
<1>9. ASSUME NEW d \in Delivery, DeliveryStep(d) PROVE \A t \in Existing' : OfAnAlert(t)'
  BY <1>5, <1>9, DeliveryIsPipeline
<1>10. CASE Deliveries
  BY <1>2, <1>4, <1>10 DEF Deliveries, Fire, Stop, Deliver, HangUp, pipelineVars, storeVars
<1>11. ASSUME RestartAll \/ UNCHANGED pollerVars \/ \E w \in Argo, s \in {"healthy", "degraded", "gone"} : Becomes(w, s)
       PROVE  created' = created
  BY <1>11 DEF RestartAll, Restart, Crash, LoseRuns, pollerVars, Becomes, inboundVars, agentVars,
               pipelineVars, storeVars
<1> QED BY <1>2, <1>3, <1>7, <1>8, <1>9, <1>10, <1>11 DEF PollerNext, PollerWorks

\* What keeps a service recorded, over a step that does not resolve its ticket.
LEMMA HeardStays ==
    ASSUME PollerInv, OwnWorkloads, [PollerNext]_pollerVars, poll.step # "idle",
           NEW w \in Argo, NEW t \in Ticket, Heard(w, t),
           \A u \in Ticket : Closes(u) => u # t \/ pc[t] \in {"lost", "aborted"},
           \A d \in poll'.doomed : d[1] = t => d \in poll.doomed \/ pc[t] \in {"lost", "aborted"}
    PROVE  Heard(w, t)'
<1>0. /\ [PipelineNext]_pipelineVars /\ PipelineInv /\ t \in Existing' /\ row'[t].key = <<w, NoAlertName>>
  BY PollerIsPipeline, TicketsStay DEF PollerInv, AlertInv, Heard
<1>1. CASE pc[t] \in {"lost", "aborted"}
  <2>1. pc'[t] = pc[t]
    BY <1>0, <1>1, EndedStays DEF Ended
  <2> QED BY <1>0, <1>1, <2>1 DEF Heard
<1>2. CASE pc[t] \notin {"lost", "aborted"}
  <2>1. ~IsClosed(t) /\ row[t].age <= Settled /\ (\A d \in poll.doomed : d[1] # t) /\ row[t].key[1] = w
    BY <1>2 DEF Heard
  <2>2. ~IsClosed(t)'
    BY <1>2, <2>1, NobodyElseCloses DEF Heard
  <2>3. row'[t].age <= Settled
    BY <2>1, PollKeepsYoung DEF Heard
  <2>4. \A d \in poll'.doomed : d[1] # t
    BY <1>2, <2>1
  <2> QED BY <1>0, <2>2, <2>3, <2>4 DEF Heard
<1> QED BY <1>1, <1>2

\* What SeenInv says beside the sources and the tickets of the recorded services.
Bookkeeping ==
    /\ poll.step = "idle" => poll.recorded = {}
    /\ poll.step \notin {"stale", "prune", "reconcile"} => poll.doomed = {}
    /\ poll.recorded \cup poll.services \cup poll.cur \subseteq poll.known
    /\ poll.step = "touch" => \A w \in poll.cur : /\ row[poll.ticket].key = <<w, NoAlertName>>
                                                  /\ ~IsClosed(poll.ticket)

\* A poll at rest has recorded nothing.
LEMMA AtRest ==
    ASSUME poll' = Resting PROVE Bookkeeping' /\ poll'.recorded = {}
BY DEF Resting, Bookkeeping

\* The passes decide against no ticket that keeps a recorded service, unless its run died.
LEMMA StaleSpares ==
    ASSUME PollerInv, NEW w \in Argo, NEW t \in Ticket, Heard(w, t),
           NEW old \in SUBSET CanBeTooOld, NEW d \in StaleTickets(old), d[1] = t
    PROVE  pc[t] \in {"lost", "aborted"}
<1> SUFFICES ASSUME pc[t] \notin {"lost", "aborted"} PROVE FALSE
  OBVIOUS
<1>0. /\ PipelineInv /\ row[t] \in Row /\ row[t].age <= Settled /\ Phase(t)
  BY DEF PollerInv, AlertInv, PipelineInv, PipelineTypeOK, StoreTypeOK, Heard
<1>1. ~(row[t].age >= Stale)
  BY <1>0, StoreAssumption DEF Row, Age, Settled, Stale
<1>2. t \in CanBeTooOld /\ (row[t].status = "open" \/ pc[t] \in Ended)
  BY <1>1, StaleAreSettled
<1>3. row[t].status = "analyzing" /\ pc[t] \in {"done", "skipped"}
  BY <1>2 DEF CanBeTooOld, Ended
<1>4. pc[t] # "done"
  BY <1>0, <1>3 DEF PipelineInv, TicketInv, Progress, Decided
<1>5. pc[t] # "skipped"
  BY <1>0, <1>3 DEF Phase
<1> QED BY <1>3, <1>4, <1>5

LEMMA OrphansSpare ==
    ASSUME NEW w \in poll.known, NEW t, row[t].key = <<w, NoAlertName>>, NEW d \in Orphans
    PROVE  d[1] # t
BY DEF Orphans, Listed

LEMMA GoneSpare ==
    ASSUME OwnWorkloads, NEW w \in Argo, NEW t, row[t].key = <<w, NoAlertName>>, OfAnAlert(t), NEW d \in Gone
    PROVE  d[1] # t
BY DEF OwnWorkloads, Gone, Listed, OfAnAlert

\* A step that is not the poll's.
LEMMA SeenBeside ==
    ASSUME PollerInv, SeenInv, OwnWorkloads, [PollerNext]_pollerVars, poll' = poll
    PROVE  SeenInv'
<1>0. poll \in Poll /\ PollSound
  BY DEF PollerInv, PollerTypeOK
<1>1. \A t \in Existing' : OfAnAlert(t)'
  BY AlertSources DEF SeenInv
<1>2. \A u \in Ticket : ~Closes(u)
  <2> SUFFICES ASSUME NEW u \in Ticket, Closes(u) PROVE FALSE
    OBVIOUS
  <2>1. PICK from \in OpenStatus : ResolveListed(u, from)
    BY DEF Closes
  <2> DEFINE D == poll.doomed \ {<<u, from>>}
  <2>2. poll' = [poll EXCEPT !.doomed = D] /\ <<u, from>> \in poll.doomed
    BY <2>1 DEF ResolveListed
  <2>3. poll'.doomed = D
    BY <1>0, <2>2 DEF Poll
  <2> QED BY <2>2, <2>3
<1>3. ASSUME NEW w \in poll.recorded PROVE \E t \in Ticket : Heard(w, t)'
  <2>1. PICK t \in Ticket : Heard(w, t)
    BY DEF SeenInv
  <2>2. w \in Argo /\ poll.step # "idle"
    BY <1>0 DEF Poll, SeenInv
  <2>3. Heard(w, t)'
    BY <1>2, <2>1, <2>2, HeardStays
  <2> QED BY <2>3
<1>4. ASSUME poll.step = "touch", NEW w \in poll.cur
      PROVE  row'[poll.ticket].key = <<w, NoAlertName>> /\ ~IsClosed(poll.ticket)'
  <2>1. /\ poll.ticket \in Existing /\ w \in Argo
        /\ row[poll.ticket].key = <<w, NoAlertName>> /\ ~IsClosed(poll.ticket)
    BY <1>0, <1>4 DEF Poll, PollSound, SeenInv
  <2>2. row[poll.ticket].key[1] = w
    BY <2>1
  <2>3. ~IsClosed(poll.ticket)'
    BY <1>2, <2>1, <2>2, NobodyElseCloses
  <2> QED BY <2>1, <2>3, PollerIsPipeline, TicketsStay
<1>5. /\ (poll.step = "idle" => poll.recorded = {})
      /\ (poll.step \notin {"stale", "prune", "reconcile"} => poll.doomed = {})
      /\ poll.recorded \cup poll.services \cup poll.cur \subseteq poll.known
  BY DEF SeenInv
<1>6. ASSUME poll.step = "touch", NEW w \in poll.cur
      PROVE  row'[poll'.ticket].key = <<w, NoAlertName>> /\ row'[poll'.ticket].status \notin Closed
  BY <1>4, <1>6 DEF IsClosed
<1>7. (\A w \in poll.recorded : \E t \in Ticket : Heard(w, t))'
  BY <1>3
<1>8. (poll.step = "touch" => \A w \in poll.cur : row[poll.ticket].key = <<w, NoAlertName>> /\ ~IsClosed(poll.ticket))'
  BY <1>6 DEF IsClosed
<1> QED BY <1>1, <1>5, <1>7, <1>8 DEF SeenInv

LEMMA SeenPoll ==
    ASSUME PollerInv, SeenInv, OwnWorkloads, PollStep
    PROVE  Bookkeeping' /\ \A w \in poll'.recorded : \E t \in Ticket : Heard(w, t)'
<1>0. /\ poll \in Poll /\ PollSound /\ PipelineInv /\ [PollerNext]_pollerVars /\ Existing \subseteq Ticket
      /\ \A w \in poll.recorded : w \in Argo
  BY ExistingTickets DEF PollerInv, AlertInv, PollerTypeOK, PollerNext, PollerWorks, Poll
\* The services recorded before keep their tickets when nothing is closed and listed.
<1>1. ASSUME \A u \in Ticket : ~Closes(u),
             \A w \in poll.recorded : \A t \in Ticket : \A d \in poll'.doomed :
                Heard(w, t) /\ d[1] = t => d \in poll.doomed \/ pc[t] \in {"lost", "aborted"},
             NEW w \in poll.recorded
      PROVE  \E t \in Ticket : Heard(w, t)'
  <2>1. PICK t \in Ticket : Heard(w, t)
    BY DEF SeenInv
  <2>2. poll.step # "idle"
    BY DEF SeenInv
  <2>3. \A d \in poll'.doomed : d[1] = t => d \in poll.doomed \/ pc[t] \in {"lost", "aborted"}
    BY <1>1, <2>1
  <2>4. Heard(w, t)'
    BY <1>0, <1>1, <2>1, <2>2, <2>3, HeardStays
  <2> QED BY <2>4
<1>2. ASSUME NEW u \in Ticket, Closes(u)
      PROVE  \E from \in OpenStatus : ResolveListed(u, from)
  BY <1>2 DEF Closes
<1>3. ASSUME NEW u \in Ticket, NEW from \in OpenStatus, ResolveListed(u, from)
      PROVE  poll.step \in {"stale", "prune", "reconcile"} /\ poll'.step = poll.step
             /\ poll'.doomed = poll.doomed \ {<<u, from>>} /\ <<u, from>> \in poll.doomed
             /\ poll'.recorded = poll.recorded /\ poll'.services = poll.services
             /\ poll'.cur = poll.cur /\ poll'.known = poll.known
  <2> DEFINE D == poll.doomed \ {<<u, from>>}
  <2>1. poll' = [poll EXCEPT !.doomed = D] /\ <<u, from>> \in poll.doomed
    BY <1>3 DEF ResolveListed
  <2>2. poll.step \in {"stale", "prune", "reconcile"}
    BY <2>1 DEF SeenInv
  <2> HIDE DEF D
  <2>3. /\ poll'.step = poll.step /\ poll'.doomed = D /\ poll'.recorded = poll.recorded
        /\ poll'.services = poll.services /\ poll'.cur = poll.cur /\ poll'.known = poll.known
    BY <1>0, <2>1 DEF Poll
  <2> QED BY <2>1, <2>2, <2>3 DEF D
<1>4. CASE StartPoll
  <2> DEFINE L == {w \in Argo : health[w] # "gone"}
  <2>1. \/ poll' = [Resting EXCEPT !.step = "scan", !.services = L, !.known = L]
        \/ poll' = [Resting EXCEPT !.step = "scan", !.missed = Argo]
    BY <1>4 DEF StartPoll
  <2> HIDE DEF L
  <2>2. /\ poll'.step = "scan" /\ poll'.recorded = {} /\ poll'.doomed = {} /\ poll'.cur = {}
        /\ poll'.services = poll'.known
    BY <2>1 DEF Resting
  <2> QED BY <2>2 DEF Bookkeeping
<1>5. ASSUME NEW v \in Argo, Scan(v)
      PROVE  Bookkeeping' /\ \A w \in poll'.recorded : \E t \in Ticket : Heard(w, t)'
  <2> DEFINE dup == FindDuplicate(<<v, NoAlertName>>)
             to == IF dup = NoTicket THEN "create" ELSE "touch"
             rest == poll.services \ {v}
             more == poll.missed \cup {v}
  <2>1. dup # NoTicket => row[dup].key = <<v, NoAlertName>> /\ ~IsClosed(dup)
    BY <1>0, DuplicateOf
  <2>2. poll.step = "scan" /\ v \in poll.services /\ row' = row /\ pc' = pc
    BY <1>5 DEF Scan, inboundVars, agentVars, pipelineVars, storeVars, runVars
  <2>3. \/ poll' = [poll EXCEPT !.services = rest]
        \/ poll' = [poll EXCEPT !.services = rest, !.missed = more]
        \/ poll' = [poll EXCEPT !.step = to, !.ticket = dup, !.services = rest, !.cur = {v}]
    <3>1. [[poll EXCEPT !.services = rest] EXCEPT !.missed = @ \cup {v}]
            = [poll EXCEPT !.services = rest, !.missed = more]
      BY <1>0 DEF Poll
    <3> QED BY <1>5, <3>1 DEF Scan
  <2>4. rest \subseteq poll.services /\ to \in {"create", "touch"} /\ (to = "touch" => dup # NoTicket)
    OBVIOUS
  <2> HIDE DEF dup, to, rest, more
  <2>5. /\ poll'.recorded = poll.recorded /\ poll'.doomed = poll.doomed
        /\ poll'.services \subseteq poll.services /\ poll'.known = poll.known
        /\ \/ poll'.step = "scan" /\ poll'.cur = poll.cur
           \/ poll'.step = to /\ poll'.cur = {v} /\ poll'.ticket = dup
    BY <1>0, <2>2, <2>3, <2>4 DEF Poll
  <2>6. /\ poll.doomed = {} /\ v \in poll.known
        /\ poll.recorded \cup poll.services \cup poll.cur \subseteq poll.known
    BY <2>2 DEF SeenInv
  <2>7. Bookkeeping'
    <3>1. poll'.step # "idle" /\ poll'.doomed = {}
      BY <2>4, <2>5, <2>6
    <3>2. poll'.recorded \cup poll'.services \cup poll'.cur \subseteq poll'.known
      BY <2>5, <2>6
    <3>3. ASSUME poll'.step = "touch", NEW w \in poll'.cur
          PROVE  row'[poll'.ticket].key = <<w, NoAlertName>> /\ row'[poll'.ticket].status \notin Closed
      <4>1. w = v /\ poll'.ticket = dup /\ dup # NoTicket
        BY <2>4, <2>5, <3>3
      <4> QED BY <2>1, <2>2, <4>1 DEF IsClosed
    <3> QED BY <3>1, <3>2, <3>3 DEF Bookkeeping, IsClosed
  <2>8. \A u \in Ticket : ~Closes(u)
    BY <1>2, <1>3, <2>2
  <2> QED BY <1>1, <2>5, <2>6, <2>7, <2>8
<1>6. ASSUME poll' = Rescan(poll), poll.step \in {"touch", "create", "handoff"}
      PROVE  Bookkeeping' /\ \A w \in poll'.recorded : \E t \in Ticket : Heard(w, t)'
  <2>1. /\ poll'.step = "scan" /\ poll'.cur = {} /\ poll'.services = poll.services
        /\ poll'.known = poll.known /\ poll'.recorded = poll.recorded /\ poll'.doomed = poll.doomed
    BY <1>0, <1>6, RescanPoll
  <2>2. poll.doomed = {} /\ poll.recorded \cup poll.services \subseteq poll.known
    BY <1>6 DEF SeenInv
  <2>3. \A u \in Ticket : ~Closes(u)
    BY <1>2, <1>3, <1>6
  <2> QED BY <1>1, <2>1, <2>2, <2>3 DEF Bookkeeping
<1>7. CASE TouchDegraded /\ poll' # Rescan(poll)
  <2> DEFINE seen == poll.recorded \cup poll.cur
             q == Rescan(poll)
  <2>0. PICK t \in Existing : t = poll.ticket
    BY <1>0, <1>7 DEF TouchDegraded, PollSound
  <2>1. /\ poll.step = "touch" /\ Touch(t) /\ UNCHANGED <<created, outsideVars>> /\ Others
        /\ poll' = [Rescan(poll) EXCEPT !.recorded = @ \cup poll.cur]
    BY <1>7, <2>0 DEF TouchDegraded
  <2>2. /\ q.step = "scan" /\ q.cur = {} /\ q.services = poll.services /\ q.known = poll.known
        /\ q.recorded = poll.recorded /\ q.doomed = poll.doomed /\ q \in Poll
    BY <1>0, RescanPoll
  <2>3. poll' = [q EXCEPT !.recorded = seen]
    BY <2>1, <2>2
  <2>4. t \in Existing /\ \A w \in poll.cur : row[t].key = <<w, NoAlertName>> /\ ~IsClosed(t)
    BY <2>0, <2>1 DEF SeenInv
  <2>5. Keeps(t) /\ row'[t].status = row[t].status /\ row'[t].age = 0
    BY <1>0, <2>1, <2>4, BeatIsPipeline
  <2>6. poll.doomed = {} /\ poll.recorded \cup poll.services \cup poll.cur \subseteq poll.known
    BY <2>1 DEF SeenInv
  <2> HIDE DEF seen, q
  <2>7. /\ poll'.step = "scan" /\ poll'.cur = {} /\ poll'.services = poll.services
        /\ poll'.known = poll.known /\ poll'.recorded = seen /\ poll'.doomed = {}
    BY <2>2, <2>3, <2>6 DEF Poll
  <2>8. ASSUME NEW w \in poll.cur PROVE t \in Ticket /\ Heard(w, t)'
    <3>1. row'[t].key = <<w, NoAlertName>> /\ ~IsClosed(t)'
      BY <2>4, <2>5 DEF Keeps, IsClosed
    <3>2. t \in Existing' /\ t \in Ticket
      BY <1>0, <2>1, <2>4 DEF Existing
    <3> QED BY <2>5, <2>7, <3>1, <3>2 DEF Heard, Settled
  <2>9. \A u \in Ticket : ~Closes(u)
    BY <1>2, <1>3, <2>1
  <2>10. \A w \in poll.recorded : \E u \in Ticket : Heard(w, u)'
    BY <1>1, <2>7, <2>9
  <2>11. \A w \in seen : \E u \in Ticket : Heard(w, u)'
    BY <2>8, <2>10 DEF seen
  <2>12. seen \cup poll.services \subseteq poll.known
    BY <2>6 DEF seen
  <2>13. Bookkeeping'
    BY <2>7, <2>12 DEF Bookkeeping
  <2> QED BY <2>7, <2>11, <2>13
<1>8. ASSUME NEW v \in Argo, CreateDegraded(v), poll' # Rescan(poll)
      PROVE  Bookkeeping' /\ \A w \in poll'.recorded : \E t \in Ticket : Heard(w, t)'
  <2> DEFINE seen == poll.recorded \cup {v}
  <2>1. /\ NewTicket("polling", <<v, NoAlertName>>, {}) /\ poll.step = "create" /\ poll.cur = {v}
        /\ poll' = [poll EXCEPT !.step = "handoff", !.ticket = created + 1, !.recorded = seen]
    BY <1>8 DEF CreateDegraded
  <2>2. "polling" \in Source /\ <<v, NoAlertName>> \in Key
    BY PollerAssumption DEF Key
  <2>3. PICK n \in Ticket : /\ n = created + 1 /\ n \in Existing' /\ row'[n].status = "open"
                            /\ row'[n].age = 0 /\ row'[n].key = <<v, NoAlertName>>
    BY <1>0, <2>1, <2>2, OpenIsPipeline
  <2>4. poll.doomed = {} /\ poll.recorded \cup poll.services \cup poll.cur \subseteq poll.known
    BY <2>1 DEF SeenInv
  <2> HIDE DEF seen
  <2>5. /\ poll'.step = "handoff" /\ poll'.cur = poll.cur /\ poll'.services = poll.services
        /\ poll'.known = poll.known /\ poll'.recorded = seen /\ poll'.doomed = {}
    BY <1>0, <2>1, <2>4 DEF Poll
  <2>6. Heard(v, n)'
    BY <2>3, <2>5 DEF Heard, Settled, IsClosed, Closed
  <2>7. \A u \in Ticket : ~Closes(u)
    BY <1>2, <1>3, <2>1
  <2>8. \A w \in poll.recorded : \E u \in Ticket : Heard(w, u)'
    BY <1>1, <2>5, <2>7
  <2>9. seen \cup poll.services \cup poll.cur \subseteq poll.known
    BY <2>1, <2>4 DEF seen
  <2> QED BY <2>5, <2>6, <2>8, <2>9 DEF seen, Bookkeeping
<1>9. ASSUME NEW step \in {"stale", "prune", "reconcile"}, NEW S, List(step, S), poll.step \in {"scan", "stale", "prune", "fetch"},
             poll.doomed = {},
             \A w \in poll.recorded : \A t \in Ticket : \A d \in S :
                Heard(w, t) /\ d[1] = t => pc[t] \in {"lost", "aborted"}
      PROVE  Bookkeeping' /\ \A w \in poll'.recorded : \E t \in Ticket : Heard(w, t)'
  <2>1. /\ poll'.step = step /\ poll'.doomed = S /\ poll'.recorded = poll.recorded
        /\ poll'.services = poll.services /\ poll'.cur = poll.cur /\ poll'.known = poll.known
    BY <1>0, <1>9 DEF List, Poll
  <2>2. \A u \in Ticket : ~Closes(u)
    BY <1>2, <1>3, <1>9
  <2>3. poll.recorded \cup poll.services \cup poll.cur \subseteq poll.known
    BY DEF SeenInv
  <2>4. Bookkeeping'
    BY <2>1, <2>3 DEF Bookkeeping
  <2> QED BY <1>1, <1>9, <2>1, <2>2, <2>4
<1>10. CASE ListStale
  <2>1. poll.step = "scan" /\ poll.doomed = {}
    BY <1>10 DEF ListStale, SeenInv
  <2>2. ASSUME NEW old \in SUBSET CanBeTooOld, List("stale", StaleTickets(old))
        PROVE  Bookkeeping' /\ \A w \in poll'.recorded : \E t \in Ticket : Heard(w, t)'
    <3> DEFINE S == StaleTickets(old)
    <3>1. \A w \in poll.recorded : \A t \in Ticket : \A d \in S :
             Heard(w, t) /\ d[1] = t => pc[t] \in {"lost", "aborted"}
      BY <1>0, StaleSpares
    <3>2. List("stale", S)
      BY <2>2
    <3> HIDE DEF S
    <3> QED BY <1>9, <2>1, <3>1, <3>2
  <2>3. CASE List("stale", {})
    BY <1>9, <2>1, <2>3
  <2> QED BY <1>10, <2>2, <2>3 DEF ListStale
<1>11. CASE ListOrphans
  <2>1. poll.step = "stale" /\ poll.doomed = {} /\ (List("prune", Orphans) \/ List("prune", {}))
    BY <1>11 DEF ListOrphans
  <2>2. \A w \in poll.recorded : \A t \in Ticket : \A d \in Orphans : Heard(w, t) => d[1] # t
    BY OrphansSpare DEF SeenInv, Heard
  <2> QED BY <1>9, <2>1, <2>2
<1>12. CASE ListGone
  <2>1. poll.step = "fetch" /\ poll.doomed = {} /\ (List("reconcile", Gone) \/ List("reconcile", {}))
    BY <1>12 DEF ListGone, SeenInv
  <2>2. \A w \in poll.recorded : \A t \in Ticket : \A d \in Gone : Heard(w, t) => d[1] # t
    BY <1>0, GoneSpare DEF SeenInv, Heard
  <2> QED BY <1>9, <2>1, <2>2
<1>13. CASE FetchActive /\ poll' # Resting
  <2> DEFINE A == {f \in Fp : firing[f]}
  <2>1. poll.step = "prune" /\ poll.doomed = {} /\ poll' = [poll EXCEPT !.step = "fetch", !.active = A]
    BY <1>13 DEF FetchActive
  <2> HIDE DEF A
  <2>2. /\ poll'.step = "fetch" /\ poll'.doomed = {} /\ poll'.recorded = poll.recorded
        /\ poll'.services = poll.services /\ poll'.cur = poll.cur /\ poll'.known = poll.known
    BY <1>0, <2>1 DEF Poll
  <2>3. \A u \in Ticket : ~Closes(u)
    BY <1>2, <1>3, <2>1, <2>2
  <2>4. poll.recorded \cup poll.services \cup poll.cur \subseteq poll.known
    BY DEF SeenInv
  <2>5. Bookkeeping'
    BY <2>2, <2>4 DEF Bookkeeping
  <2> QED BY <1>1, <2>2, <2>3, <2>5
<1>14. CASE poll' = Resting
  BY <1>14, AtRest
<1>15. ASSUME NEW u \in Ticket, NEW from \in OpenStatus, ResolveListed(u, from)
       PROVE  Bookkeeping' /\ \A w \in poll'.recorded : \E t \in Ticket : Heard(w, t)'
  <2>1. /\ poll.step \in {"stale", "prune", "reconcile"} /\ poll'.step = poll.step
        /\ poll'.doomed = poll.doomed \ {<<u, from>>} /\ <<u, from>> \in poll.doomed
        /\ poll'.recorded = poll.recorded /\ poll'.services = poll.services
        /\ poll'.cur = poll.cur /\ poll'.known = poll.known
    BY <1>3, <1>15
  <2>2. Bookkeeping'
    BY <2>1 DEF Bookkeeping, SeenInv
  <2>3. ASSUME NEW w \in poll.recorded PROVE \E t \in Ticket : Heard(w, t)'
    <3>1. PICK t \in Ticket : Heard(w, t)
      BY DEF SeenInv
    <3>2. ASSUME NEW v \in Ticket, Closes(v) PROVE v # t \/ pc[t] \in {"lost", "aborted"}
      <4>1. PICK s \in OpenStatus : <<v, s>> \in poll.doomed
        BY <1>2, <1>3, <3>2
      <4> QED BY <3>1, <4>1 DEF Heard
    <3>3. poll.step # "idle" /\ \A d \in poll'.doomed : d \in poll.doomed
      BY <2>1
    <3>4. Heard(w, t)'
      BY <1>0, <3>1, <3>2, <3>3, HeardStays
    <3> QED BY <3>4
  <2> QED BY <2>1, <2>2, <2>3
<1>16. CASE OnTicket
  BY <1>6, <1>16 DEF OnTicket
<1>17. CASE TouchDegraded
  BY <1>6, <1>7, <1>17 DEF TouchDegraded
<1>18. ASSUME NEW v \in Argo, CreateDegraded(v)
       PROVE  Bookkeeping' /\ \A w \in poll'.recorded : \E t \in Ticket : Heard(w, t)'
  BY <1>6, <1>8, <1>18 DEF CreateDegraded
<1>19. CASE FetchActive \/ EndPoll
  BY <1>13, <1>14, <1>19 DEF EndPoll
<1> QED BY <1>4, <1>5, <1>10, <1>11, <1>12, <1>15, <1>16, <1>17, <1>18, <1>19 DEF PollStep

LEMMA SeenNext == PollerInv /\ SeenInv /\ OwnWorkloads /\ [PollerNext]_pollerVars => SeenInv'
<1> SUFFICES ASSUME PollerInv, SeenInv, OwnWorkloads, [PollerNext]_pollerVars PROVE SeenInv'
  OBVIOUS
<1>1. CASE poll' = poll
  BY <1>1, SeenBeside
<1>2. \A t \in Existing' : OfAnAlert(t)'
  BY AlertSources DEF SeenInv
<1>3. CASE PollStep
  BY <1>2, <1>3, SeenPoll DEF SeenInv, Bookkeeping
<1>4. CASE RestartAll
  <2>1. poll' = Resting
    BY <1>4 DEF RestartAll
  <2>2. Bookkeeping' /\ poll'.recorded = {}
    BY <2>1, AtRest
  <2> QED BY <1>2, <2>2 DEF SeenInv, Bookkeeping
<1> QED BY <1>1, <1>3, <1>4 DEF PollerNext, PollerWorks, Becomes, TimePasses, CoolDown, pollVars, pollerVars

LEMMA SeenInit == PollerInit => SeenInv
<1> SUFFICES ASSUME PollerInit PROVE SeenInv
  OBVIOUS
<1>1. poll = Resting /\ Existing = {}
  BY DEF PollerInit, AlertInit, PipelineInit, StoreInit, Existing
<1> QED BY <1>1 DEF SeenInv, Resting

\* A service that the poll saw degraded and wrote down keeps a ticket through the
\* closing passes of that poll, whatever fails, provided no alert is about the same
\* workload: an alert's end closes such a ticket whenever it is delivered.
THEOREM DegradedStaysOpen ==
    ASSUME \A f \in Fp : KeyOf[f][1] \notin Argo
    PROVE  PollerSpec => []SeenDegradedStaysOpen
<1>0. OwnWorkloads
  BY DEF OwnWorkloads
<1>1. SeenInv => SeenDegradedStaysOpen
  BY DEF SeenInv, SeenDegradedStaysOpen, Heard, Unclosed
<1>2. PollerInit => SeenInv
  BY SeenInit
<1>3. PollerInv /\ SeenInv /\ [PollerNext]_pollerVars => SeenInv'
  BY <1>0, SeenNext
<1> QED BY <1>1, <1>2, <1>3, PollerInvariance, PTL DEF PollerSpec

-----------------------------------------------------------------------------
(* The workflows that keep failing *)

\* A failure is recorded in the step that renews the row, and silence is counted
\* while the row grows older.
LEMMA QuietNext == PollerInv /\ QuietInv /\ [PollerNext]_pollerVars => QuietInv'
<1> SUFFICES ASSUME PollerInv, QuietInv, [PollerNext]_pollerVars, NEW t \in Ticket,
                    row'[t].source = "github_webhook"
             PROVE  row'[t].age <= quiet'[t]
  BY DEF QuietInv
<1>0. /\ quiet \in [Ticket -> Age] /\ row \in [Ticket -> Row] /\ row' \in [Ticket -> Row]
      /\ PollerInv' /\ quiet' \in [Ticket -> Age]
  BY PollerNextInv DEF PollerInv, PollerTypeOK, WorkflowTypeOK, AlertInv, PipelineInv, PipelineTypeOK,
                       StoreTypeOK
<1>1. /\ \A u \in Ticket : row[u].age \in 0..MaxAge /\ row'[u].age \in 0..MaxAge
      /\ \A u \in Ticket : quiet[u] \in 0..MaxAge /\ quiet'[u] \in 0..MaxAge
      /\ MaxAge \in Nat
  BY <1>0, StoreAssumption DEF Row, Age
<1>2. CASE row'[t].age = 0
  BY <1>1, <1>2
<1>3. ASSUME row'[t] = row[t], quiet'[t] = quiet[t] PROVE row'[t].age <= quiet'[t]
  BY <1>3 DEF QuietInv
<1>4. ASSUME NEW u \in Ticket, TimePasses(u) PROVE row'[t].age <= quiet'[t]
  <2>1. /\ row'[u].source = row[u].source /\ \A v \in Ticket \ {u} : row'[v] = row[v]
    BY <1>4, TimeIsPipeline DEF Keeps
  <2>2. quiet' = [quiet EXCEPT ![u] = IF row[u].source = "github_webhook" /\ @ < MaxAge THEN @ + 1 ELSE @]
    BY <1>4 DEF TimePasses, Quieter
  <2>3. CASE t # u
    BY <1>0, <1>3, <2>1, <2>2, <2>3
  <2>4. CASE t = u
    <3>1. row'[t].age = row[t].age + 1
      <4>1. row' = [row EXCEPT ![t] = [row[t] EXCEPT !.age = @ + 1]]
        BY <1>4, <2>4 DEF TimePasses, Grow, Write
      <4> QED BY <1>0, <4>1 DEF Row
    <3>2. quiet'[t] = IF quiet[t] < MaxAge THEN quiet[t] + 1 ELSE quiet[t]
      BY <1>0, <2>1, <2>2, <2>4
    <3>3. row[t].age <= quiet[t]
      BY <2>1, <2>4 DEF QuietInv
    <3> QED BY <1>1, <3>1, <3>2, <3>3
  <2> QED BY <2>3, <2>4
<1>5. ASSUME NEW u \in Ticket, CoolDown(u) PROVE row'[t].age <= quiet'[t]
  <2>1. quiet' = quiet /\ row'[t].source = row[t].source
    BY <1>5, TimeIsPipeline DEF CoolDown, webhookVars, workflowVars, Keeps
  <2>2. row'[t].age = row[t].age
    <3>1. row' = [row EXCEPT ![u] = [row[u] EXCEPT !.cooling = FALSE]]
      BY <1>5 DEF CoolDown, CooldownEnds, Write
    <3> QED BY <1>0, <3>1 DEF Row
  <2> QED BY <2>1, <2>2 DEF QuietInv
<1>6. ASSUME \A u \in Ticket : ~TimePasses(u) /\ ~CoolDown(u), quiet' = quiet PROVE row'[t].age <= quiet'[t]
  BY <1>2, <1>3, <1>6, WritesRenew
<1>7. ASSUME \A u \in Ticket : ~TimePasses(u) /\ ~CoolDown(u), NEW d \in Delivery, DeliveryStep(d),
             quiet' # quiet
      PROVE  row'[t].age <= quiet'[t]
  <2>1. row'[t] = row[t] \/ row'[t].age = 0
    BY <1>7, WritesRenew
  <2>2. CASE TouchFailure(d) /\ ~Forgotten(d)
    <3>0. delivery[d].ticket \in Ticket
      BY <2>2, ExistingTickets DEF TouchFailure, PollerInv, AlertInv, DeliverySound
    <3>1. PICK u \in Ticket : u = delivery[d].ticket
      BY <3>0
    <3>2. row' = [row EXCEPT ![u] = [row[u] EXCEPT !.age = 0]] /\ quiet' = [quiet EXCEPT ![u] = 0]
      BY <2>2, <3>1 DEF TouchFailure, Touch, Write, RecordedIn
    <3>3. row'[u].age = 0 /\ \A v \in Ticket \ {u} : row'[v] = row[v] /\ quiet'[v] = quiet[v]
      BY <1>0, <3>2 DEF Row
    <3> QED BY <1>2, <1>3, <3>3
  <2>3. ASSUME NEW w \in Workflow, CreateFailure(d, w), ~Forgotten(d) PROVE row'[t].age <= quiet'[t]
    <3>1. NewTicket("github_webhook", WorkflowKey(w), {}) /\ RecordedIn(created + 1)
      BY <2>3 DEF CreateFailure
    <3>2. "github_webhook" \in Source /\ WorkflowKey(w) \in Key
      BY WorkflowAssumption DEF WorkflowKey, Key
    <3>3. PICK n \in Ticket : /\ n = created + 1 /\ row'[n].age = 0
                              /\ \A u \in Ticket \ {n} : row'[u] = row[u]
      BY <3>1, <3>2, OpenIsPipeline DEF PollerInv, AlertInv
    <3> QED BY <1>0, <1>2, <1>3, <3>1, <3>3 DEF RecordedIn
  <2> QED BY <1>7, <2>2, <2>3 DEF DeliveryStep, TouchFailure, CreateFailure, HandOffFailure, WorkflowFailed,
                                  Forgotten
<1>8. UNCHANGED quiet \/ (\E u \in Ticket : TimePasses(u)) \/ \E d \in Delivery : DeliveryStep(d)
  <2>1. CASE PollStep
    BY <2>1, PollIsPipeline DEF workflowVars
  <2> QED BY <2>1 DEF PollerNext, PollerWorks, RestartAll, Undelivered, Becomes, CoolDown, webhookVars,
                      inboundVars, workflowVars, pollerVars
<1> QED BY <1>4, <1>5, <1>6, <1>7, <1>8

LEMMA QuietInit == PollerInit => QuietInv
<1> SUFFICES ASSUME PollerInit, NEW t \in Ticket PROVE row[t].age <= quiet[t]
  BY DEF QuietInv
<1>1. row = [u \in Ticket |-> NoRow] /\ quiet = [u \in Ticket |-> 0]
  BY DEF PollerInit, WorkflowInit, AlertInit, PipelineInit, StoreInit
<1>2. NoRow.age = 0
  BY DEF NoRow
<1> QED BY <1>1, <1>2

\* A workflow that keeps failing keeps the ticket its failures are recorded in: the age
\* pass takes it only after a stale TTL without one, or for a run that died.
THEOREM FailingStaysOpen == PollerSpec => FailingWorkflowStaysOpen
<1> DEFINE Dooms == poll.step = "scan" /\ poll'.step = "stale" =>
                        \A t \in {d[1] : d \in poll'.doomed} :
                          row[t].source = "github_webhook" =>
                            t \in CanBeTooOld \/ quiet[t] >= Stale
<1>1. PollerInv /\ QuietInv /\ [PollerNext]_pollerVars => Dooms
  <2> SUFFICES ASSUME PollerInv, QuietInv, [PollerNext]_pollerVars,
                      poll.step = "scan", poll'.step = "stale",
                      NEW d \in poll'.doomed, row[d[1]].source = "github_webhook",
                      d[1] \notin CanBeTooOld
               PROVE  quiet[d[1]] >= Stale
    OBVIOUS
  <2>0. /\ poll \in Poll /\ row \in [Ticket -> Row] /\ quiet \in [Ticket -> Age]
    BY DEF PollerInv, PollerTypeOK, WorkflowTypeOK, AlertInv, PipelineInv, PipelineTypeOK, StoreTypeOK
  <2>1. PollStep
    BY DEF PollerNext, PollerWorks, pollerVars, pollVars, Becomes, TimePasses, CoolDown, RestartAll, Resting
  <2>2. ListStale
    BY <2>0, <2>1 DEF PollStep, StartPoll, TouchDegraded, OnTicket, Scan, CreateDegraded, ListOrphans,
                      FetchActive, ListGone, EndPoll, ResolveListed, Resting, Poll
  <2>3. PICK old \in SUBSET CanBeTooOld : d \in StaleTickets(old)
    BY <2>0, <2>2 DEF ListStale, List, Poll
  <2>4. PICK u \in Closable : row[u].age >= Stale /\ d = Listed(u)
    BY <2>3 DEF StaleTickets, Listed
  <2>5. d[1] = u /\ u \in Ticket
    BY <2>4, ExistingTickets DEF Listed, Closable, ListOpen, PollerInv, AlertInv
  <2>6. row[u].age <= quiet[u]
    BY <2>5 DEF QuietInv
  <2> QED BY <2>0, <2>4, <2>5, <2>6, StoreAssumption DEF Row, Age, Stale
<1>2. Dooms => [Dooms]_pollerVars
  OBVIOUS
<1>3. PollerInv => PollerTypeOK
  BY DEF PollerInv
<1> QED BY <1>1, <1>2, <1>3, PollerInvariance, QuietInit, QuietNext, PTL
        DEF PollerSpec, FailingWorkflowStaysOpen
=============================================================================
