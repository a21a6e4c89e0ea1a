-------------------------- MODULE Pipeline_proofs --------------------------
(***************************************************************************)
(* Proofs about Pipeline, for any number of tickets, slots and pull        *)
(* requests and any set of faults.                                         *)
(***************************************************************************)
EXTENDS PipelineLife, TLAPS, FiniteSetTheorems

-----------------------------------------------------------------------------
(* What each statement of the store does to a row *)

\* The other rows stay, and row t has the given status, pull request and history.
Writes(t, s, hasPR, took) ==
    /\ row' \in [Ticket -> Row]
    /\ \A u \in Ticket \ {t} : row'[u] = row[u]
    /\ row'[t].status = s
    /\ row'[t].pr = hasPR
    /\ row'[t].took = took

LEMMA ZeroAge == 0 \in Age
BY StoreAssumption DEF Age

LEMMA RowType == ASSUME StoreTypeOK, NEW t \in Ticket PROVE row[t] \in Row
BY DEF StoreTypeOK

LEMMA WriteWrites ==
    ASSUME StoreTypeOK, NEW t \in Ticket, NEW r \in Row, Write(t, r)
    PROVE  Writes(t, r.status, r.pr, r.took)
BY DEF StoreTypeOK, Write, Writes

LEMMA TakesRow ==
    ASSUME NEW r \in Row, NEW s \in Status
    PROVE  /\ Takes(r, s) \in Row
           /\ Takes(r, s).status = s
           /\ Takes(r, s).pr = r.pr
           /\ Takes(r, s).took = r.took \cup {s}
<1>1. Takes(r, s) = [r EXCEPT !.status = s, !.age = 0, !.took = r.took \cup {s}]
  BY DEF Takes
<1>2. r.took \cup {s} \in SUBSET Status
  BY DEF Row
<1> DEFINE T == r.took \cup {s}
<1> HIDE DEF T
<1>3. [r EXCEPT !.status = s, !.age = 0, !.took = T] \in Row
  BY <1>2, ZeroAge DEF Row, T
<1>4. LET q == [r EXCEPT !.status = s, !.age = 0, !.took = T]
      IN  q.status = s /\ q.pr = r.pr /\ q.took = T
  BY DEF Row
<1> QED BY <1>1, <1>3, <1>4 DEF T

LEMMA UpdateWrites ==
    ASSUME StoreTypeOK, NEW t \in Ticket, NEW m \in Copy, m.status \in Status, Update(t, m)
    PROVE  Writes(t, m.status, m.pr, row[t].took \cup {m.status})
<1> DEFINE q == Takes(row[t], m.status)
           r == [q EXCEPT !.fps = m.fps, !.pr = m.pr, !.cooling = FALSE]
<1>1. q \in Row /\ q.status = m.status /\ q.took = row[t].took \cup {m.status}
  BY TakesRow DEF StoreTypeOK
<1> HIDE DEF q
<1>2. r \in Row /\ r.status = m.status /\ r.pr = m.pr /\ r.took = row[t].took \cup {m.status}
  BY <1>1 DEF Row, Copy
<1>3. Write(t, r)
  BY DEF Update, q
<1> HIDE DEF r
<1> QED BY <1>2, <1>3, WriteWrites

LEMMA DiagnosisWrites ==
    ASSUME StoreTypeOK, NEW t \in Ticket, NEW from, NEW to \in Status,
           SetDiagnosisFromStatus(t, from, to)
    PROVE  IF row[t].status = from
           THEN Writes(t, to, row[t].pr, row[t].took \cup {to})
           ELSE row' = row
<1>1. row[t] \in Row
  BY DEF StoreTypeOK
<1>2. CASE row[t].status = from
  <2>1. Write(t, Takes(row[t], to))
    BY <1>2 DEF SetDiagnosisFromStatus
  <2> DEFINE q == Takes(row[t], to)
  <2>2. q \in Row /\ q.status = to /\ q.pr = row[t].pr /\ q.took = row[t].took \cup {to}
    BY <1>1, TakesRow
  <2> HIDE DEF q
  <2> QED BY <1>2, <2>1, <2>2, WriteWrites DEF q
<1>3. CASE row[t].status # from
  BY <1>3 DEF SetDiagnosisFromStatus
<1> QED BY <1>2, <1>3

LEMMA LinkageWrites ==
    ASSUME StoreTypeOK, NEW t \in Ticket, NEW from, NEW to \in Status, NEW p \in BOOLEAN,
           RecordPRLinkage(t, from, to, p)
    PROVE  IF row[t].status = from
           THEN Writes(t, to, p, row[t].took \cup {to})
           ELSE row' = row
<1>1. CASE row[t].status = from
  <2> DEFINE q == Takes(row[t], to)
             r == [q EXCEPT !.pr = p]
  <2>1. q \in Row /\ q.status = to /\ q.took = row[t].took \cup {to}
    BY TakesRow DEF StoreTypeOK
  <2> HIDE DEF q
  <2>2. r \in Row /\ r.status = to /\ r.pr = p /\ r.took = row[t].took \cup {to}
    BY <2>1 DEF Row
  <2>3. Write(t, r)
    BY <1>1 DEF RecordPRLinkage, q
  <2> HIDE DEF r
  <2> QED BY <1>1, <2>2, <2>3, WriteWrites
<1>2. CASE row[t].status # from
  BY <1>2 DEF RecordPRLinkage
<1> QED BY <1>1, <1>2

LEMMA CoordinatesWrites ==
    ASSUME StoreTypeOK, NEW t \in Ticket, NEW p \in BOOLEAN, RecordPRCoordinates(t, p)
    PROVE  Writes(t, row[t].status, p, row[t].took)
<1> DEFINE r == [row[t] EXCEPT !.pr = p, !.age = 0]
<1>1. r \in Row /\ r.status = row[t].status /\ r.pr = p /\ r.took = row[t].took
  BY RowType, ZeroAge DEF Row
<1>2. Write(t, r)
  BY DEF RecordPRCoordinates
<1> HIDE DEF r
<1> QED BY <1>1, <1>2, WriteWrites

LEMMA TouchWrites ==
    ASSUME StoreTypeOK, NEW t \in Ticket, NEW F \in SUBSET Fp, TouchWithFingerprint(t, F)
    PROVE  Writes(t, row[t].status, row[t].pr, row[t].took)
<1> DEFINE G == row[t].fps \cup F
           r == [row[t] EXCEPT !.age = 0, !.fps = G]
<1>0. G \in SUBSET Fp
  BY RowType DEF Row
<1> HIDE DEF G
<1>1. r \in Row /\ r.status = row[t].status /\ r.pr = row[t].pr /\ r.took = row[t].took
  BY <1>0, RowType, ZeroAge DEF Row
<1> USE DEF G
<1>2. Write(t, r)
  BY DEF TouchWithFingerprint
<1> HIDE DEF r
<1> QED BY <1>1, <1>2, WriteWrites

LEMMA InsertWrites ==
    ASSUME StoreTypeOK, NEW src \in Source, NEW k \in Key, NEW F \in SUBSET Fp, Insert(src, k, F)
    PROVE  /\ created + 1 \in Ticket
           /\ created' = created + 1
           /\ Writes(created + 1, "open", FALSE, {"open"})
<1> DEFINE r == [status |-> "open", source |-> src, key |-> k, fps |-> F, pr |-> FALSE,
                 age |-> 0, cooling |-> FALSE, took |-> {"open"}]
<1>1. created + 1 \in Ticket /\ created' = created + 1
  BY StoreAssumption DEF StoreTypeOK, Insert, Ticket
<1>2. r \in Row
  BY StoreAssumption DEF Row, Age, Status, OpenStatus
<1>3. Write(created + 1, r)
  BY DEF Insert
<1>4. r.status = "open" /\ r.pr = FALSE /\ r.took = {"open"}
  OBVIOUS
<1> HIDE DEF r
<1> QED BY <1>1, <1>2, <1>3, <1>4, WriteWrites

LEMMA ClockWrites ==
    ASSUME StoreTypeOK, NEW t \in Ticket, NEW pinned \in BOOLEAN,
           Grow(t, pinned) \/ CooldownEnds(t)
    PROVE  Writes(t, row[t].status, row[t].pr, row[t].took)
<1>1. CASE Grow(t, pinned)
  <2> DEFINE r == [row[t] EXCEPT !.age = @ + 1]
  <2>1. r \in Row /\ r.status = row[t].status /\ r.pr = row[t].pr /\ r.took = row[t].took
    BY <1>1, StoreAssumption DEF StoreTypeOK, Row, Age, Grow
  <2>2. Write(t, r)
    BY <1>1 DEF Grow
  <2> HIDE DEF r
  <2> QED BY <2>1, <2>2, WriteWrites
<1>2. CASE CooldownEnds(t)
  <2> DEFINE r == [row[t] EXCEPT !.cooling = FALSE]
  <2>1. r \in Row /\ r.status = row[t].status /\ r.pr = row[t].pr /\ r.took = row[t].took
    BY DEF StoreTypeOK, Row
  <2>2. Write(t, r)
    BY <1>2 DEF CooldownEnds
  <2> HIDE DEF r
  <2> QED BY <2>1, <2>2, WriteWrites
<1> QED BY <1>1, <1>2

LEMMA ResolveWrites ==
    ASSUME StoreTypeOK, NEW S \in SUBSET Ticket, ResolveRows(S)
    PROVE  /\ row' \in [Ticket -> Row]
           /\ \A t \in Ticket \ S : row'[t] = row[t]
           /\ \A t \in S : /\ row'[t].status = "resolved"
                           /\ row'[t].pr = row[t].pr
                           /\ row'[t].took = row[t].took \cup {"resolved"}
<1> DEFINE r(t) == [Takes(row[t], "resolved") EXCEPT !.cooling = FlapCooldown]
<1>1. ASSUME NEW t \in Ticket
      PROVE  /\ r(t) \in Row /\ r(t).status = "resolved" /\ r(t).pr = row[t].pr
             /\ r(t).took = row[t].took \cup {"resolved"}
  <2> DEFINE q == Takes(row[t], "resolved")
  <2>1. q \in Row /\ q.status = "resolved" /\ q.pr = row[t].pr
        /\ q.took = row[t].took \cup {"resolved"}
    BY TakesRow DEF StoreTypeOK, Status, Closed
  <2> HIDE DEF q
  <2>2. /\ [q EXCEPT !.cooling = FlapCooldown] \in Row
        /\ [q EXCEPT !.cooling = FlapCooldown].status = q.status
        /\ [q EXCEPT !.cooling = FlapCooldown].pr = q.pr
        /\ [q EXCEPT !.cooling = FlapCooldown].took = q.took
    BY <2>1, StoreAssumption DEF Row
  <2> QED BY <2>1, <2>2 DEF q
<1>2. row' = [t \in Ticket |-> IF t \in S THEN r(t) ELSE row[t]]
  BY DEF ResolveRows
<1> HIDE DEF r
<1> QED BY <1>1, <1>2 DEF StoreTypeOK

-----------------------------------------------------------------------------
(* The semaphore *)

LEMMA HoldingFinite == IsFiniteSet(Holding) /\ Cardinality(Holding) \in Nat
<1>1. IsFiniteSet(Ticket)
  BY StoreAssumption, FS_Interval DEF Ticket
<1>2. Holding \in SUBSET Ticket
  BY DEF Holding
<1> QED BY <1>1, <1>2, FS_Subset, FS_CardinalityType

\* No run starts or ends.
LEMMA SlotsKept ==
    ASSUME SlotsBalance, slots' = slots,
           \A t \in Ticket : pc'[t] \in Active <=> pc[t] \in Active
    PROVE  SlotsBalance'
<1>1. Holding' = Holding
  BY DEF Holding
<1> QED BY <1>1 DEF SlotsBalance

\* A run starts.
LEMMA SlotTaken ==
    ASSUME SlotsBalance, NEW t \in Ticket, pc \in [Ticket -> Pc], pc[t] \notin Active,
           NEW to \in Active, pc' = [pc EXCEPT ![t] = to],
           slots \in 0..MaxConcurrent, slots > 0, slots' = slots - 1
    PROVE  SlotsBalance' /\ slots' \in 0..MaxConcurrent
<1>1. Holding' = Holding \cup {t} /\ t \notin Holding
  BY DEF Holding
<1>2. Cardinality(Holding') = Cardinality(Holding) + 1
  BY <1>1, HoldingFinite, FS_AddElement
<1> QED BY <1>2, HoldingFinite, PipelineAssumption DEF SlotsBalance

\* A run ends.
LEMMA SlotFreed ==
    ASSUME SlotsBalance, NEW t \in Ticket, pc \in [Ticket -> Pc], pc[t] \in Active,
           NEW how \in Ended, pc' = [pc EXCEPT ![t] = how],
           slots \in 0..MaxConcurrent, slots' = slots + 1
    PROVE  SlotsBalance' /\ slots' \in 0..MaxConcurrent
<1>1. Holding' = Holding \ {t} /\ t \in Holding
  BY DEF Holding, Active, Ended
<1>2. Cardinality(Holding') = Cardinality(Holding) - 1
  BY <1>1, HoldingFinite, FS_RemoveElement
<1>3. Cardinality(Holding') \in Nat
  BY <1>1, HoldingFinite, FS_RemoveElement, FS_CardinalityType
<1> QED BY <1>2, <1>3, HoldingFinite, PipelineAssumption DEF SlotsBalance

-----------------------------------------------------------------------------
(* The shape of a step *)

Same(t) ==
    /\ row'[t] = row[t] /\ pc'[t] = pc[t] /\ mem'[t] = mem[t] /\ goal'[t] = goal[t]
    /\ safe'[t] = safe[t] /\ github'[t] = github[t] /\ mirror'[t] = mirror[t]
    /\ resolving'[t] = resolving[t]

\* A ticket the step leaves alone keeps its invariant.
LEMMA Frame ==
    ASSUME NEW t \in Ticket, TicketInv(t), Same(t), t > created' => t > created
    PROVE  TicketInv(t)'
<1>1. Fresh(t)'
  BY DEF TicketInv, Same, Fresh
<1>2. History(t)'
  BY DEF TicketInv, Same, History
<1>3. Progress(t)'
  BY DEF TicketInv, Same, Progress, Follows
<1>4. Linkage(t)'
  BY DEF TicketInv, Same, Linkage, HasPR
<1>5. Merged(t)'
  BY DEF TicketInv, Same, Merged, WantsMerge
<1> QED BY <1>1, <1>2, <1>3, <1>4, <1>5 DEF TicketInv

\* A step of one ticket's run.
Local(t) ==
    /\ created' = created
    /\ \A u \in Ticket \ {t} : Same(u)

LEMMA LocalStep ==
    ASSUME PipelineInv, NEW t \in Ticket, Local(t),
           PipelineTypeOK', SlotsBalance', TicketInv(t)'
    PROVE  PipelineInv'
<1>1. ASSUME NEW u \in Ticket PROVE TicketInv(u)'
  BY Frame DEF PipelineInv, Local
<1> QED BY <1>1 DEF PipelineInv

-----------------------------------------------------------------------------
(* The steps of a run *)

\* What Continue and Return do to the variables of the run.
LEMMA Continues ==
    ASSUME PipelineTypeOK, SlotsBalance, NEW t \in Ticket, pc[t] \in Active, NEW to \in Active,
           pc' = [pc EXCEPT ![t] = to], slots' = slots
    PROVE  /\ pc' \in [Ticket -> Pc] /\ slots' \in 0..MaxConcurrent
           /\ pc'[t] = to
           /\ \A u \in Ticket \ {t} : pc'[u] = pc[u]
           /\ SlotsBalance'
<1>1. pc \in [Ticket -> Pc] /\ slots \in 0..MaxConcurrent
  BY DEF PipelineTypeOK
<1>2. to \in Pc
  BY DEF Pc
<1>3. SlotsBalance'
  BY <1>1, SlotsKept
<1> QED BY <1>1, <1>2, <1>3

LEMMA Returning ==
    ASSUME PipelineTypeOK, SlotsBalance, NEW t \in Ticket, pc[t] \in Active, NEW how \in Ended,
           Return(t, how)
    PROVE  /\ pc' \in [Ticket -> Pc] /\ slots' \in 0..MaxConcurrent /\ mem' \in [Ticket -> Copy]
           /\ pc'[t] = how
           /\ \A u \in Ticket \ {t} : pc'[u] = pc[u] /\ mem'[u] = mem[u]
           /\ SlotsBalance'
<1>1. pc \in [Ticket -> Pc] /\ slots \in 0..MaxConcurrent /\ mem \in [Ticket -> Copy]
  BY DEF PipelineTypeOK
<1>2. how \in Pc
  BY DEF Pc
<1>3. Blank \in Copy
  BY DEF Blank, Copy
<1>4. SlotsBalance' /\ slots' \in 0..MaxConcurrent
  BY <1>1, SlotFreed DEF Return
<1> QED BY <1>1, <1>2, <1>3, <1>4 DEF Return

LEMMA ContinueStep ==
    ASSUME PipelineInv, NEW t \in Ticket, pc[t] \in Active, NEW to \in Active,
           pc' = [pc EXCEPT ![t] = to], slots' = slots
    PROVE  /\ pc' \in [Ticket -> Pc] /\ slots' \in 0..MaxConcurrent
           /\ pc'[t] = to
           /\ \A u \in Ticket \ {t} : pc'[u] = pc[u]
           /\ SlotsBalance'
BY Continues DEF PipelineInv

LEMMA ReturnStep ==
    ASSUME PipelineInv, NEW t \in Ticket, pc[t] \in Active, NEW how \in Ended, Return(t, how)
    PROVE  /\ pc' \in [Ticket -> Pc] /\ slots' \in 0..MaxConcurrent /\ mem' \in [Ticket -> Copy]
           /\ pc'[t] = how
           /\ \A u \in Ticket \ {t} : pc'[u] = pc[u] /\ mem'[u] = mem[u]
           /\ SlotsBalance'
BY Returning DEF PipelineInv

\* A store call failed and the run returned.
LEMMA StoreFailsInv ==
    ASSUME PipelineInv, NEW t \in Ticket, pc[t] \in Active, StoreFails(t),
           UNCHANGED <<goal, safe, paused, outsideVars>>
    PROVE  PipelineInv'
<1>1. /\ Return(t, "aborted")
      /\ UNCHANGED <<row, created, goal, safe, paused, github, mirror, resolving>>
  BY DEF StoreFails, storeVars, outsideVars
<1>2. "aborted" \in Ended
  BY DEF Ended
<1>3. PipelineTypeOK' /\ SlotsBalance' /\ pc'[t] = "aborted" /\ Local(t)
  BY <1>1, <1>2, ReturnStep DEF PipelineInv, PipelineTypeOK, StoreTypeOK, Local, Same
<1>4. Fresh(t) /\ History(t) /\ Linkage(t) /\ Merged(t)
  BY DEF PipelineInv, TicketInv
<1>5. Fresh(t)'
  BY <1>1, <1>3, <1>4 DEF Fresh, Active
<1>6. History(t)'
  BY <1>1, <1>3, <1>4 DEF History, Deciding
<1>7. Progress(t)'
  BY <1>3 DEF Progress, Deciding, Linked
<1>8. Linkage(t)'
  BY <1>1, <1>3, <1>4 DEF Linkage, Linked, HasPR
<1>9. Merged(t)'
  BY <1>1, <1>3, <1>4 DEF Merged
<1> QED BY <1>3, <1>5, <1>6, <1>7, <1>8, <1>9, LocalStep DEF TicketInv

LEMMA MarkAnalyzingInv ==
    ASSUME PipelineInv, NEW t \in Ticket, MarkAnalyzing(t)
    PROVE  PipelineInv'
<1> DEFINE m == [mem[t] EXCEPT !.status = "analyzing"]
<1>0. pc[t] = "start" /\ pc[t] \in Active
  BY DEF MarkAnalyzing, Active
<1>1. CASE StoreFails(t)
  BY <1>0, <1>1, StoreFailsInv DEF MarkAnalyzing
<1>2. CASE /\ Update(t, m) /\ mem' = [mem EXCEPT ![t] = m] /\ pc' = [pc EXCEPT ![t] = "publish"]
           /\ UNCHANGED <<created, slots, goal, safe, paused, outsideVars>>
  <2>1. m \in Copy /\ m.status = "analyzing" /\ m.status \in Status
    BY DEF PipelineInv, PipelineTypeOK, Copy, Status, OpenStatus
  <2>2. Writes(t, m.status, m.pr, row[t].took \cup {m.status})
    BY <1>2, <2>1, UpdateWrites DEF PipelineInv, PipelineTypeOK
  <2> HIDE DEF m
  <2>3. UNCHANGED <<created, slots, goal, safe, paused, github, mirror, resolving>>
    BY <1>2 DEF outsideVars
  <2>4. pc' \in [Ticket -> Pc] /\ slots' \in 0..MaxConcurrent /\ SlotsBalance'
        /\ pc'[t] = "publish" /\ \A u \in Ticket \ {t} : pc'[u] = pc[u]
    BY <1>0, <1>2, ContinueStep DEF Active
  <2>5. PipelineTypeOK' /\ Local(t) /\ mem'[t] = m
    BY <1>2, <2>1, <2>2, <2>3, <2>4
       DEF PipelineInv, PipelineTypeOK, StoreTypeOK, Writes, Local, Same
  <2>6. Fresh(t) /\ History(t) /\ Linkage(t) /\ Merged(t)
    BY DEF PipelineInv, TicketInv
  <2>7. Fresh(t)'
    BY <1>0, <2>3, <2>6 DEF Fresh
  <2>8. History(t)'
    BY <2>1, <2>2, <2>3, <2>4, <2>5, <2>6 DEF History, Writes, Deciding
  <2>9. Progress(t)'
    BY <2>1, <2>2, <2>4, <2>5 DEF Progress, Follows, Writes, Deciding, Linked
  <2>10. Linkage(t)'
    BY <1>0, <2>3, <2>4, <2>6 DEF Linkage, Linked, HasPR
  <2>11. Merged(t)'
    BY <1>0, <2>3, <2>4, <2>6 DEF Merged
  <2> QED BY <2>4, <2>5, <2>7, <2>8, <2>9, <2>10, <2>11, LocalStep DEF TicketInv
<1> QED BY <1>1, <1>2 DEF MarkAnalyzing

LEMMA NoDiagnosisInv ==
    ASSUME PipelineInv, NEW t \in Ticket, NoDiagnosis(t)
    PROVE  PipelineInv'
<1>1. /\ pc[t] = "diagnose" /\ pc' = [pc EXCEPT ![t] = "persist"]
      /\ UNCHANGED <<row, created, mem, slots, paused, resolving, safe, github, mirror>>
      /\ goal' = [goal EXCEPT ![t] = "escalated"]
  BY DEF NoDiagnosis, Move, Continue, storeVars, outsideVars
<1>2. /\ pc' \in [Ticket -> Pc] /\ slots' \in 0..MaxConcurrent /\ SlotsBalance'
      /\ pc'[t] = "persist" /\ \A u \in Ticket \ {t} : pc'[u] = pc[u]
  BY <1>1, ContinueStep DEF Active
<1>3. PipelineTypeOK' /\ Local(t)
  BY <1>1, <1>2 DEF PipelineInv, PipelineTypeOK, StoreTypeOK, Local, Same, Status, OpenStatus
<1>4. TicketInv(t)'
  BY <1>1, <1>2 DEF PipelineInv, PipelineTypeOK, TicketInv, Fresh, History, Progress, Follows, Linkage, HasPR, Merged, WantsMerge, Deciding, Linked
<1> QED BY <1>2, <1>3, <1>4, LocalStep

LEMMA DiagnosedInv ==
    ASSUME PipelineInv, NEW t \in Ticket, Diagnosed(t)
    PROVE  PipelineInv'
<1>1. /\ pc[t] = "diagnose" /\ pc' = [pc EXCEPT ![t] = "sync"]
      /\ UNCHANGED <<row, created, mem, slots, paused, resolving, goal, safe, github, mirror>>
  BY DEF Diagnosed, Move, Continue, storeVars, outsideVars
<1>2. /\ pc' \in [Ticket -> Pc] /\ slots' \in 0..MaxConcurrent /\ SlotsBalance'
      /\ pc'[t] = "sync" /\ \A u \in Ticket \ {t} : pc'[u] = pc[u]
  BY <1>1, ContinueStep DEF Active
<1>3. PipelineTypeOK' /\ Local(t)
  BY <1>1, <1>2 DEF PipelineInv, PipelineTypeOK, StoreTypeOK, Local, Same
<1>4. TicketInv(t)'
  BY <1>1, <1>2 DEF PipelineInv, PipelineTypeOK, TicketInv, Fresh, History, Progress, Follows, Linkage, HasPR, Merged, WantsMerge, Deciding, Linked
<1> QED BY <1>2, <1>3, <1>4, LocalStep

LEMMA AdviseInv ==
    ASSUME PipelineInv, NEW t \in Ticket, Advise(t)
    PROVE  PipelineInv'
<1>1. /\ pc[t] = "route" /\ pc' = [pc EXCEPT ![t] = "persist"]
      /\ UNCHANGED <<row, created, mem, slots, paused, resolving, safe, github, mirror>>
      /\ goal' = [goal EXCEPT ![t] = "escalated"]
  BY DEF Advise, Move, Continue, storeVars, outsideVars
<1>2. /\ pc' \in [Ticket -> Pc] /\ slots' \in 0..MaxConcurrent /\ SlotsBalance'
      /\ pc'[t] = "persist" /\ \A u \in Ticket \ {t} : pc'[u] = pc[u]
  BY <1>1, ContinueStep DEF Active
<1>3. PipelineTypeOK' /\ Local(t)
  BY <1>1, <1>2 DEF PipelineInv, PipelineTypeOK, StoreTypeOK, Local, Same, Status, OpenStatus
<1>4. TicketInv(t)'
  BY <1>1, <1>2 DEF PipelineInv, PipelineTypeOK, TicketInv, Fresh, History, Progress, Follows, Linkage, HasPR, Merged, WantsMerge, Deciding, Linked
<1> QED BY <1>2, <1>3, <1>4, LocalStep

LEMMA SuggestInv ==
    ASSUME PipelineInv, NEW t \in Ticket, Suggest(t)
    PROVE  PipelineInv'
<1>1. /\ pc[t] = "route" /\ pc' = [pc EXCEPT ![t] = "persist"]
      /\ UNCHANGED <<row, created, mem, slots, paused, resolving, safe, github, mirror>>
      /\ goal' = [goal EXCEPT ![t] = "fix_proposed"]
  BY DEF Suggest, Move, Continue, storeVars, outsideVars
<1>2. /\ pc' \in [Ticket -> Pc] /\ slots' \in 0..MaxConcurrent /\ SlotsBalance'
      /\ pc'[t] = "persist" /\ \A u \in Ticket \ {t} : pc'[u] = pc[u]
  BY <1>1, ContinueStep DEF Active
<1>3. PipelineTypeOK' /\ Local(t)
  BY <1>1, <1>2 DEF PipelineInv, PipelineTypeOK, StoreTypeOK, Local, Same, Status, OpenStatus
<1>4. TicketInv(t)'
  BY <1>1, <1>2 DEF PipelineInv, PipelineTypeOK, TicketInv, Fresh, History, Progress, Follows, Linkage, HasPR, Merged, WantsMerge, Deciding, Linked
<1> QED BY <1>2, <1>3, <1>4, LocalStep

LEMMA FixReadyInv ==
    ASSUME PipelineInv, NEW t \in Ticket, FixReady(t)
    PROVE  PipelineInv'
<1>1. /\ pc[t] = "fix" /\ pc' = [pc EXCEPT ![t] = "limit"]
      /\ UNCHANGED <<row, created, mem, slots, paused, resolving, goal, safe, github, mirror>>
  BY DEF FixReady, Move, Continue, storeVars, outsideVars
<1>2. /\ pc' \in [Ticket -> Pc] /\ slots' \in 0..MaxConcurrent /\ SlotsBalance'
      /\ pc'[t] = "limit" /\ \A u \in Ticket \ {t} : pc'[u] = pc[u]
  BY <1>1, ContinueStep DEF Active
<1>3. PipelineTypeOK' /\ Local(t)
  BY <1>1, <1>2 DEF PipelineInv, PipelineTypeOK, StoreTypeOK, Local, Same
<1>4. TicketInv(t)'
  BY <1>1, <1>2 DEF PipelineInv, PipelineTypeOK, TicketInv, Fresh, History, Progress, Follows, Linkage, HasPR, Merged, WantsMerge, Deciding, Linked
<1> QED BY <1>2, <1>3, <1>4, LocalStep

LEMMA StartFixInv ==
    ASSUME PipelineInv, NEW t \in Ticket, StartFix(t)
    PROVE  PipelineInv'
<1>1. PICK s \in BOOLEAN : safe' = [safe EXCEPT ![t] = s]
  BY DEF StartFix
<1>2. /\ pc[t] = "route" /\ pc' = [pc EXCEPT ![t] = "fix"]
      /\ UNCHANGED <<row, created, mem, slots, paused, resolving, goal, github, mirror>>
  BY DEF StartFix, Move, storeVars, outsideVars
<1>3. /\ pc' \in [Ticket -> Pc] /\ slots' \in 0..MaxConcurrent /\ SlotsBalance'
      /\ pc'[t] = "fix" /\ \A u \in Ticket \ {t} : pc'[u] = pc[u]
  BY <1>2, ContinueStep DEF Active
<1>4. PipelineTypeOK' /\ Local(t)
  BY <1>1, <1>2, <1>3 DEF PipelineInv, PipelineTypeOK, StoreTypeOK, Local, Same
<1>5. TicketInv(t)'
  BY <1>2, <1>3 DEF PipelineInv, TicketInv, Fresh, History, Progress, Follows, Linkage, HasPR, Merged, WantsMerge, Deciding, Linked
<1> QED BY <1>3, <1>4, <1>5, LocalStep

LEMMA FixStopsInv ==
    ASSUME PipelineInv, NEW t \in Ticket, FixStops(t)
    PROVE  PipelineInv'
<1>1. PICK s \in {"fix_proposed", "escalated"} : goal' = [goal EXCEPT ![t] = s]
  BY DEF FixStops
<1>2. /\ pc[t] = "fix" /\ pc' = [pc EXCEPT ![t] = "persist"]
      /\ UNCHANGED <<row, created, mem, slots, paused, resolving, safe, github, mirror>>
  BY DEF FixStops, Move, storeVars, outsideVars
<1>3. /\ pc' \in [Ticket -> Pc] /\ slots' \in 0..MaxConcurrent /\ SlotsBalance'
      /\ pc'[t] = "persist" /\ \A u \in Ticket \ {t} : pc'[u] = pc[u]
  BY <1>2, ContinueStep DEF Active
<1>4. PipelineTypeOK' /\ Local(t)
  BY <1>1, <1>2, <1>3 DEF PipelineInv, PipelineTypeOK, StoreTypeOK, Local, Same, Status, OpenStatus
<1>5. TicketInv(t)'
  BY <1>1, <1>2, <1>3 DEF PipelineInv, PipelineTypeOK, TicketInv, Fresh, History, Progress, Follows, Linkage, HasPR, Merged, WantsMerge, Deciding, Linked
<1> QED BY <1>3, <1>4, <1>5, LocalStep

LEMMA PublishAlertInv ==
    ASSUME PipelineInv, NEW t \in Ticket, PublishAlert(t)
    PROVE  PipelineInv'
<1>1. /\ pc[t] = "publish" /\ pc' = [pc EXCEPT ![t] = "reload"]
      /\ UNCHANGED <<row, created, mem, slots, paused, resolving, goal, safe, github>>
      /\ mirror' = [mirror EXCEPT ![t] = mem[t].status] \/ mirror' = mirror
  BY DEF PublishAlert, Move, ApiCall, storeVars
<1>2. /\ pc' \in [Ticket -> Pc] /\ slots' \in 0..MaxConcurrent /\ SlotsBalance'
      /\ pc'[t] = "reload" /\ \A u \in Ticket \ {t} : pc'[u] = pc[u]
  BY <1>1, ContinueStep DEF Active
<1>3. mem[t].status = "analyzing" /\ mem[t].status \in row[t].took /\ "analyzing" \in Status
  BY <1>1 DEF PipelineInv, TicketInv, History, Progress, Follows, Status, OpenStatus
<1>4. PipelineTypeOK' /\ Local(t) /\ mirror'[t] \in row[t].took \cup {mirror[t]}
  BY <1>1, <1>2, <1>3 DEF PipelineInv, PipelineTypeOK, StoreTypeOK, Local, Same
<1>5. TicketInv(t)'
  BY <1>1, <1>2, <1>4 DEF PipelineInv, TicketInv, Fresh, History, Progress, Follows, Linkage, HasPR, Merged, WantsMerge, Deciding, Linked
<1> QED BY <1>2, <1>4, <1>5, LocalStep

LEMMA ReloadInv ==
    ASSUME PipelineInv, NEW t \in Ticket, Reload(t)
    PROVE  PipelineInv'
<1>0. pc[t] = "reload" /\ pc[t] \in Active
  BY DEF Reload, Active
<1>1. CASE StoreFails(t)
  BY <1>0, <1>1, StoreFailsInv DEF Reload
<1>2. CASE /\ mem' = [mem EXCEPT ![t] = Get(t)] /\ pc' = [pc EXCEPT ![t] = "diagnose"]
           /\ UNCHANGED <<storeVars, slots, goal, safe, paused, outsideVars>>
  <2>1. UNCHANGED <<row, created, slots, goal, safe, paused, github, mirror, resolving>>
    BY <1>2 DEF storeVars, outsideVars
  <2>2. /\ pc' \in [Ticket -> Pc] /\ slots' \in 0..MaxConcurrent /\ SlotsBalance'
        /\ pc'[t] = "diagnose" /\ \A u \in Ticket \ {t} : pc'[u] = pc[u]
    BY <1>0, <1>2, <2>1, ContinueStep DEF Active
  <2>3. row[t] \in Row
    BY RowType DEF PipelineInv, PipelineTypeOK
  <2>4. Get(t) \in Copy /\ Get(t).status = row[t].status
    BY <2>3 DEF Get, Copy, Row
  <2>5. PipelineTypeOK' /\ Local(t) /\ mem'[t].status = row[t].status
    BY <1>2, <2>1, <2>2, <2>4 DEF PipelineInv, PipelineTypeOK, StoreTypeOK, Local, Same
  <2>6. TicketInv(t)'
    BY <1>0, <2>1, <2>2, <2>5 DEF PipelineInv, TicketInv, Fresh, History, Progress, Follows, Linkage, HasPR, Merged, WantsMerge, Deciding, Linked
  <2> QED BY <2>2, <2>5, <2>6, LocalStep
<1> QED BY <1>1, <1>2 DEF Reload

\* A status the row has held reaches mctl-api, or does not.
LEMMA UpdateAlertMirror ==
    ASSUME PipelineInv, NEW t \in Ticket, NEW s \in row[t].took, UpdateAlert(t, s)
    PROVE  /\ mirror' \in [Ticket -> Status \cup {"absent"}]
           /\ \A u \in Ticket \ {t} : mirror'[u] = mirror[u]
           /\ mirror'[t] \in row[t].took \cup {"absent"}
           /\ t > created => mirror'[t] = "absent"
<1>1. mirror \in [Ticket -> Status \cup {"absent"}] /\ row[t] \in Row
  BY RowType DEF PipelineInv, PipelineTypeOK
<1>2. s \in Status
  BY <1>1 DEF Row
<1>3. Known(t, s) \in row[t].took \cup {"absent"} /\ Known(t, s) \in Status \cup {"absent"}
  BY <1>2 DEF Known
<1>4. t > created => mirror[t] = "absent" /\ Known(t, s) = "absent"
  BY DEF PipelineInv, TicketInv, Fresh, Known
<1>5. mirror[t] \in row[t].took \cup {"absent"}
  BY DEF PipelineInv, TicketInv, History
<1> QED BY <1>1, <1>3, <1>4, <1>5 DEF UpdateAlert, ApiCall

LEMMA SyncDiagnosisInv ==
    ASSUME PipelineInv, NEW t \in Ticket, SyncDiagnosis(t)
    PROVE  PipelineInv'
<1>1. /\ pc[t] = "sync" /\ pc' = [pc EXCEPT ![t] = "route"]
      /\ UNCHANGED <<row, created, mem, slots, paused, resolving, goal, safe, github>>
      /\ UpdateAlert(t, mem[t].status)
  BY DEF SyncDiagnosis, Move, storeVars
<1>2. /\ pc' \in [Ticket -> Pc] /\ slots' \in 0..MaxConcurrent /\ SlotsBalance'
      /\ pc'[t] = "route" /\ \A u \in Ticket \ {t} : pc'[u] = pc[u]
  BY <1>1, ContinueStep DEF Active
<1>3. mem[t].status \in row[t].took
  BY <1>1 DEF PipelineInv, TicketInv, History, Deciding
<1>4. PipelineTypeOK' /\ Local(t)
  BY <1>1, <1>2, <1>3, UpdateAlertMirror DEF PipelineInv, PipelineTypeOK, StoreTypeOK, Local, Same
<1>5. TicketInv(t)'
  BY <1>1, <1>2, <1>3, UpdateAlertMirror DEF PipelineInv, TicketInv, Fresh, History, Progress, Follows, Linkage, HasPR, Merged, WantsMerge, Deciding, Linked
<1> QED BY <1>2, <1>4, <1>5, LocalStep

LEMMA CheckLimitsInv ==
    ASSUME PipelineInv, NEW t \in Ticket, CheckLimits(t)
    PROVE  PipelineInv'
<1>1. PICK to \in {"link", "branch", "giveUp"} :
         /\ pc' = [pc EXCEPT ![t] = to]
         /\ to = "link" => DryRun /\ goal' = [goal EXCEPT ![t] = "fix_proposed"]
         /\ to = "branch" => ~DryRun /\ goal' = goal
         /\ to = "giveUp" => ~DryRun /\ goal' = [goal EXCEPT ![t] = "escalated"]
  BY Zenon DEF CheckLimits, Continue
<1>2. /\ pc[t] = "limit"
      /\ UNCHANGED <<row, created, mem, slots, paused, resolving, safe, github, mirror>>
  BY DEF CheckLimits, Continue, storeVars, outsideVars
<1>3. /\ pc' \in [Ticket -> Pc] /\ slots' \in 0..MaxConcurrent /\ SlotsBalance'
      /\ pc'[t] = to /\ \A u \in Ticket \ {t} : pc'[u] = pc[u]
  BY <1>1, <1>2, ContinueStep DEF Active
<1>4. PipelineTypeOK' /\ Local(t)
  BY <1>1, <1>2, <1>3 DEF PipelineInv, PipelineTypeOK, StoreTypeOK, Local, Same, Status, OpenStatus
<1>5. /\ goal'[t] \in {goal[t], "fix_proposed", "escalated"}
      /\ to = "link" => goal'[t] = "fix_proposed"
      /\ to = "giveUp" => goal'[t] = "escalated"
  BY <1>1 DEF PipelineInv, PipelineTypeOK
<1>6. TicketInv(t)'
  <2>0. Fresh(t) /\ History(t) /\ Progress(t) /\ Linkage(t) /\ Merged(t)
    BY DEF PipelineInv, TicketInv
  <2>1. Fresh(t)'
    BY <1>1, <1>2, <1>3, <1>5, <2>0 DEF Fresh
  <2>2. History(t)'
    BY <1>1, <1>2, <1>3, <1>5, <2>0 DEF History, Deciding
  <2>3. Progress(t)'
    BY <1>1, <1>2, <1>3, <1>5, <2>0 DEF Progress, Follows, Deciding, Linked
  <2>4. Linkage(t)'
    BY <1>1, <1>2, <1>3, <1>5, <2>0 DEF Linkage, Linked, HasPR
  <2>5. Merged(t)'
    BY <1>1, <1>2, <1>3, <1>5, <2>0 DEF Merged, WantsMerge
  <2> QED BY <2>1, <2>2, <2>3, <2>4, <2>5 DEF TicketInv
<1> QED BY <1>3, <1>4, <1>6, LocalStep

LEMMA PushBranchInv ==
    ASSUME PipelineInv, NEW t \in Ticket, PushBranch(t)
    PROVE  PipelineInv'
<1>1. PICK to \in {"openPR", "giveUp"} :
         /\ pc' = [pc EXCEPT ![t] = to]
         /\ to = "openPR" => goal' = goal
         /\ to = "giveUp" => goal' = [goal EXCEPT ![t] = "escalated"]
  BY Zenon DEF PushBranch, Continue
<1>2. /\ pc[t] = "branch"
      /\ github' = [github EXCEPT ![t] = "branch"] \/ github' = github
      /\ UNCHANGED <<row, created, mem, slots, paused, resolving, safe, mirror>>
  BY DEF PushBranch, GitHubFails, Continue, storeVars
<1>3. /\ pc' \in [Ticket -> Pc] /\ slots' \in 0..MaxConcurrent /\ SlotsBalance'
      /\ pc'[t] = to /\ \A u \in Ticket \ {t} : pc'[u] = pc[u]
  BY <1>1, <1>2, ContinueStep DEF Active
<1>4. PipelineTypeOK' /\ Local(t)
  BY <1>1, <1>2, <1>3 DEF PipelineInv, PipelineTypeOK, StoreTypeOK, Local, Same, Status, OpenStatus
<1>5. /\ github'[t] \in {github[t], "branch"}
      /\ to = "giveUp" => goal'[t] = "escalated"
  BY <1>1, <1>2 DEF PipelineInv, PipelineTypeOK
<1>6. TicketInv(t)'
  <2>0. Fresh(t) /\ History(t) /\ Progress(t) /\ Linkage(t) /\ Merged(t)
    BY DEF PipelineInv, TicketInv
  <2>1. Fresh(t)'
    BY <1>1, <1>2, <1>3, <1>5, <2>0 DEF Fresh
  <2>2. History(t)'
    BY <1>1, <1>2, <1>3, <1>5, <2>0 DEF History, Deciding
  <2>3. Progress(t)'
    BY <1>1, <1>2, <1>3, <1>5, <2>0 DEF Progress, Follows, Deciding, Linked
  <2>4. Linkage(t)'
    BY <1>1, <1>2, <1>3, <1>5, <2>0 DEF Linkage, Linked, HasPR
  <2>5. Merged(t)'
    BY <1>1, <1>2, <1>3, <1>5, <2>0 DEF Merged, WantsMerge
  <2> QED BY <2>1, <2>2, <2>3, <2>4, <2>5 DEF TicketInv
<1> QED BY <1>3, <1>4, <1>6, LocalStep

LEMMA OpenPRInv ==
    ASSUME PipelineInv, NEW t \in Ticket, OpenPR(t)
    PROVE  PipelineInv'
<1>0. /\ pc[t] = "openPR" /\ pc[t] \in Active /\ slots' = slots
      /\ UNCHANGED <<row, created, safe, paused, mirror, resolving>>
  BY DEF OpenPR, Active, Continue, storeVars
<1>1. CASE /\ github' = [github EXCEPT ![t] = "open"] /\ mem' = [mem EXCEPT ![t].pr = TRUE]
           /\ goal' = [goal EXCEPT ![t] = "fix_proposed"] /\ pc' = [pc EXCEPT ![t] = "link"]
  <2>1. /\ pc' \in [Ticket -> Pc] /\ slots' \in 0..MaxConcurrent /\ SlotsBalance'
        /\ pc'[t] = "link" /\ \A u \in Ticket \ {t} : pc'[u] = pc[u]
    BY <1>0, <1>1, ContinueStep DEF Active
  <2>2. mem' \in [Ticket -> Copy] /\ mem'[t].status = mem[t].status /\ mem'[t].pr = TRUE
        /\ \A u \in Ticket \ {t} : mem'[u] = mem[u]
    BY <1>1 DEF PipelineInv, PipelineTypeOK, Copy
  <2>3. PipelineTypeOK' /\ Local(t) /\ github'[t] = "open" /\ goal'[t] = "fix_proposed"
    BY <1>0, <1>1, <2>1, <2>2 DEF PipelineInv, PipelineTypeOK, StoreTypeOK, Local, Same, Status, OpenStatus
  <2>4. TicketInv(t)'
    BY <1>0, <2>1, <2>2, <2>3 DEF PipelineInv, TicketInv, Fresh, History, Progress, Follows, Linkage, HasPR, Merged, WantsMerge, Deciding, Linked
  <2> QED BY <2>1, <2>3, <2>4, LocalStep
<1>2. CASE /\ GitHubFails(t, "open") /\ goal' = [goal EXCEPT ![t] = "escalated"]
           /\ Continue(t, "giveUp")
  <2>1. pc' = [pc EXCEPT ![t] = "giveUp"] /\ mem' = mem
    BY <1>2 DEF Continue
  <2>2. /\ pc' \in [Ticket -> Pc] /\ slots' \in 0..MaxConcurrent /\ SlotsBalance'
        /\ pc'[t] = "giveUp" /\ \A u \in Ticket \ {t} : pc'[u] = pc[u]
    BY <1>0, <2>1, ContinueStep DEF Active
  <2>3. github' = github \/ ("answer" \in Faults /\ github' = [github EXCEPT ![t] = "open"])
    BY <1>2 DEF GitHubFails
  <2>4. /\ PipelineTypeOK' /\ Local(t) /\ goal'[t] = "escalated"
        /\ github'[t] = github[t] \/ ("answer" \in Faults /\ github'[t] = "open")
    BY <1>0, <1>2, <2>1, <2>2, <2>3 DEF PipelineInv, PipelineTypeOK, StoreTypeOK, Local, Same, Status, OpenStatus
  <2>5. TicketInv(t)'
    <3>0. Fresh(t) /\ History(t) /\ Progress(t) /\ Linkage(t) /\ Merged(t)
      BY DEF PipelineInv, TicketInv
    <3>1. Fresh(t)'
      BY <1>0, <2>1, <2>2, <2>4, <3>0 DEF Fresh
    <3>2. History(t)'
      BY <1>0, <2>1, <2>2, <2>4, <3>0 DEF History, Deciding
    <3>3. Progress(t)'
      BY <1>0, <2>1, <2>2, <2>4, <3>0 DEF Progress, Follows, Deciding, Linked
    <3>4. Linkage(t)'
      BY <1>0, <2>1, <2>2, <2>4, <3>0 DEF Linkage, Linked, HasPR
    <3>5. Merged(t)'
      BY <1>0, <2>1, <2>2, <2>4, <3>0 DEF Merged, WantsMerge
    <3> QED BY <3>1, <3>2, <3>3, <3>4, <3>5 DEF TicketInv
  <2> QED BY <2>2, <2>4, <2>5, LocalStep
<1> QED BY <1>1, <1>2 DEF OpenPR

LEMMA LinkInv ==
    ASSUME PipelineInv, NEW t \in Ticket, Link(t)
    PROVE  PipelineInv'
<1>0. /\ pc[t] = "link" /\ pc[t] \in Active
      /\ UNCHANGED <<goal, safe, paused, github, mirror, resolving>>
      /\ UNCHANGED <<goal, safe, paused, outsideVars>>
  BY DEF Link, Active, outsideVars
<1>1. CASE StoreFails(t)
  BY <1>0, <1>1, StoreFailsInv
<1>2. CASE /\ RecordPRLinkage(t, mem[t].status, goal[t], mem[t].pr)
           /\ mem' = [mem EXCEPT ![t].status = goal[t]]
           /\ pc' = [pc EXCEPT ![t] = IF row[t].status = mem[t].status
                                      THEN "mirrorPR" ELSE "linkOnly"]
           /\ UNCHANGED <<created, slots>>
  <2> DEFINE to == IF row[t].status = mem[t].status THEN "mirrorPR" ELSE "linkOnly"
  <2>1. goal[t] \in Status /\ mem[t].pr \in BOOLEAN /\ mem[t] \in Copy
    BY DEF PipelineInv, PipelineTypeOK, Copy
  <2>2. /\ row[t].status = mem[t].status => Writes(t, goal[t], mem[t].pr, row[t].took \cup {goal[t]})
        /\ row[t].status # mem[t].status => row' = row
    <3>1. RecordPRLinkage(t, mem[t].status, goal[t], mem[t].pr) /\ StoreTypeOK
      BY <1>2 DEF PipelineInv, PipelineTypeOK
    <3> DEFINE b == mem[t].pr
               s == mem[t].status
               g == goal[t]
    <3>2. RecordPRLinkage(t, s, g, b) /\ b \in BOOLEAN /\ g \in Status
      BY <3>1, <2>1
    <3> HIDE DEF b, s, g
    <3>3. IF row[t].status = s THEN Writes(t, g, b, row[t].took \cup {g}) ELSE row' = row
      BY <3>1, <3>2, LinkageWrites
    <3> QED BY <3>3 DEF b, s, g
  <2>3. to \in Active /\ pc' = [pc EXCEPT ![t] = to]
    BY <1>2 DEF Active
  <2>4. /\ pc' \in [Ticket -> Pc] /\ slots' \in 0..MaxConcurrent /\ SlotsBalance'
        /\ pc'[t] = to /\ \A u \in Ticket \ {t} : pc'[u] = pc[u]
    BY <1>0, <1>2, <2>3, ContinueStep
  <2>5. /\ mem' \in [Ticket -> Copy] /\ mem'[t].status = goal[t] /\ mem'[t].pr = mem[t].pr
        /\ \A u \in Ticket \ {t} : mem'[u] = mem[u]
    BY <1>2, <2>1 DEF PipelineInv, PipelineTypeOK, Copy
  <2>6. PipelineTypeOK' /\ Local(t)
    BY <1>0, <1>2, <2>2, <2>4, <2>5 DEF PipelineInv, PipelineTypeOK, StoreTypeOK, Writes, Local, Same
  <2>7. TicketInv(t)'
    <3>0. Fresh(t) /\ History(t) /\ Progress(t) /\ Linkage(t) /\ Merged(t)
      BY DEF PipelineInv, TicketInv
    <3>1. /\ created' = created /\ github' = github /\ mirror' = mirror /\ resolving' = resolving
          /\ goal' = goal /\ safe' = safe
      BY <1>0, <1>2
    <3>2. /\ ~(t > created)
          /\ goal[t] \in {"fix_proposed", "fix_applied"}
          /\ row[t].status = mem[t].status \/ row[t].status = "resolved"
      BY <1>0, <3>0 DEF Fresh, Progress, Follows, Linked
    <3>3. CASE row[t].status = mem[t].status
      <4>1. /\ pc'[t] = "mirrorPR" /\ row'[t].status = goal[t] /\ row'[t].pr = mem[t].pr
            /\ row'[t].took = row[t].took \cup {goal[t]}
        BY <2>2, <2>4, <3>3 DEF Writes
      <4>2. Fresh(t)'
        BY <1>0, <2>5, <3>0, <3>1, <3>2, <4>1 DEF Fresh
      <4>3. History(t)'
        BY <1>0, <2>5, <3>0, <3>1, <3>2, <4>1 DEF History, Deciding
      <4>4. Progress(t)'
        BY <1>0, <2>5, <3>0, <3>1, <3>2, <4>1 DEF Progress, Follows, Deciding, Linked, Decided
      <4>5. Linkage(t)'
        BY <1>0, <2>5, <3>0, <3>1, <3>2, <4>1 DEF Linkage, Linked, HasPR
      <4>6. Merged(t)'
        BY <1>0, <2>5, <3>0, <3>1, <3>2, <4>1 DEF Merged, WantsMerge, Progress, Follows, Linkage, Linked, HasPR
      <4> QED BY <4>2, <4>3, <4>4, <4>5, <4>6 DEF TicketInv
    <3>4. CASE row[t].status # mem[t].status
      <4>1. pc'[t] = "linkOnly" /\ row' = row /\ row[t].status = "resolved"
        BY <2>2, <2>4, <3>2, <3>4
      <4>2. Fresh(t)'
        BY <1>0, <2>5, <3>0, <3>1, <3>2, <4>1 DEF Fresh
      <4>3. History(t)'
        BY <1>0, <2>5, <3>0, <3>1, <3>2, <4>1 DEF History, Deciding
      <4>4. Progress(t)'
        BY <1>0, <2>5, <3>0, <3>1, <3>2, <4>1 DEF Progress, Follows, Deciding, Linked, Decided
      <4>5. Linkage(t)'
        BY <1>0, <2>5, <3>0, <3>1, <3>2, <4>1 DEF Linkage, Linked, HasPR
      <4>6. Merged(t)'
        BY <1>0, <2>5, <3>0, <3>1, <3>2, <4>1 DEF Merged, WantsMerge, Progress, Follows, Linkage, Linked, HasPR
      <4> QED BY <4>2, <4>3, <4>4, <4>5, <4>6 DEF TicketInv
    <3> QED BY <3>3, <3>4
  <2> QED BY <2>4, <2>6, <2>7, LocalStep
<1> QED BY <1>1, <1>2 DEF Link

LEMMA LinkOnlyInv ==
    ASSUME PipelineInv, NEW t \in Ticket, LinkOnly(t)
    PROVE  PipelineInv'
<1>0. /\ pc[t] = "linkOnly" /\ pc[t] \in Active
      /\ UNCHANGED <<goal, safe, paused, github, mirror, resolving>>
      /\ UNCHANGED <<goal, safe, paused, outsideVars>>
  BY DEF LinkOnly, Active, outsideVars
<1>1. CASE StoreFails(t)
  BY <1>0, <1>1, StoreFailsInv
<1>2. CASE RecordPRCoordinates(t, mem[t].pr) /\ created' = created /\ Return(t, "done")
  <2>1. mem[t].pr \in BOOLEAN
    BY DEF PipelineInv, PipelineTypeOK, Copy
  <2>2. Writes(t, row[t].status, mem[t].pr, row[t].took)
    BY <1>2, <2>1, CoordinatesWrites DEF PipelineInv, PipelineTypeOK
  <2>3. /\ pc' \in [Ticket -> Pc] /\ slots' \in 0..MaxConcurrent /\ SlotsBalance'
        /\ pc'[t] = "done" /\ mem' \in [Ticket -> Copy]
        /\ \A u \in Ticket \ {t} : pc'[u] = pc[u] /\ mem'[u] = mem[u]
    BY <1>0, <1>2, ReturnStep DEF Ended
  <2>4. PipelineTypeOK' /\ Local(t)
    BY <1>0, <1>2, <2>2, <2>3 DEF PipelineInv, PipelineTypeOK, StoreTypeOK, Writes, Local, Same
  <2>5. row'[t].status = row[t].status /\ row'[t].pr = mem[t].pr /\ row'[t].took = row[t].took
    BY <2>2 DEF Writes
  <2>6. TicketInv(t)'
    <3>0. Fresh(t) /\ History(t) /\ Progress(t) /\ Linkage(t) /\ Merged(t)
      BY DEF PipelineInv, TicketInv
    <3>1. Fresh(t)'
      BY <1>0, <1>2, <2>3, <2>5, <3>0 DEF Fresh
    <3>2. History(t)'
      BY <1>0, <1>2, <2>3, <2>5, <3>0 DEF History, Deciding
    <3>3. Progress(t)'
      BY <1>0, <1>2, <2>3, <2>5, <3>0 DEF Progress, Follows, Deciding, Linked, Decided
    <3>4. Linkage(t)'
      BY <1>0, <1>2, <2>3, <2>5, <3>0 DEF Linkage, Linked, HasPR
    <3>5. Merged(t)'
      BY <1>0, <1>2, <2>3, <2>5, <3>0 DEF Merged, WantsMerge, Progress, Follows, Linkage, Linked, HasPR
    <3> QED BY <3>1, <3>2, <3>3, <3>4, <3>5 DEF TicketInv
  <2> QED BY <2>3, <2>4, <2>6, LocalStep
<1> QED BY <1>1, <1>2 DEF LinkOnly

LEMMA MirrorPRInv ==
    ASSUME PipelineInv, NEW t \in Ticket, MirrorPR(t)
    PROVE  PipelineInv'
<1>0. /\ pc[t] = "mirrorPR" /\ pc[t] \in Active
      /\ UNCHANGED <<row, created, goal, safe, paused, github, resolving>>
      /\ UpdateAlert(t, mem[t].status)
  BY DEF MirrorPR, Active, storeVars
<1>1. mem[t].status \in row[t].took
  BY <1>0 DEF PipelineInv, TicketInv, History
<1>2. /\ mirror' \in [Ticket -> Status \cup {"absent"}]
      /\ \A u \in Ticket \ {t} : mirror'[u] = mirror[u]
      /\ mirror'[t] \in row[t].took \cup {"absent"}
      /\ t > created => mirror'[t] = "absent"
  BY <1>0, <1>1, UpdateAlertMirror
<1>3. CASE WantsMerge(t) /\ Continue(t, "merge")
  <2>1. pc' = [pc EXCEPT ![t] = "merge"] /\ mem' = mem /\ slots' = slots
    BY <1>3 DEF Continue
  <2>2. /\ pc' \in [Ticket -> Pc] /\ slots' \in 0..MaxConcurrent /\ SlotsBalance'
        /\ pc'[t] = "merge" /\ \A u \in Ticket \ {t} : pc'[u] = pc[u]
    BY <1>0, <2>1, ContinueStep DEF Active
  <2>3. PipelineTypeOK' /\ Local(t)
    BY <1>0, <1>2, <2>1, <2>2 DEF PipelineInv, PipelineTypeOK, StoreTypeOK, Local, Same
  <2>4. WantsMerge(t)' /\ goal[t] = "fix_proposed"
    BY <1>0, <1>3 DEF WantsMerge
  <2>5. TicketInv(t)'
    <3>0. Fresh(t) /\ History(t) /\ Progress(t) /\ Linkage(t) /\ Merged(t)
      BY DEF PipelineInv, TicketInv
    <3>1. Fresh(t)'
      BY <1>0, <1>1, <1>2, <2>1, <2>2, <2>4, <3>0 DEF Fresh
    <3>2. History(t)'
      BY <1>0, <1>1, <1>2, <2>1, <2>2, <2>4, <3>0 DEF History, Deciding
    <3>3. Progress(t)'
      BY <1>0, <1>1, <1>2, <2>1, <2>2, <2>4, <3>0 DEF Progress, Follows, Deciding, Linked, Decided
    <3>4. Linkage(t)'
      BY <1>0, <1>1, <1>2, <2>1, <2>2, <2>4, <3>0 DEF Linkage, Linked, HasPR
    <3>5. Merged(t)'
      BY <1>0, <1>1, <1>2, <2>1, <2>2, <2>4, <3>0 DEF Merged, WantsMerge, Progress, Follows, Linkage, Linked, HasPR
    <3> QED BY <3>1, <3>2, <3>3, <3>4, <3>5 DEF TicketInv
  <2> QED BY <2>2, <2>3, <2>5, LocalStep
<1>4. CASE Return(t, "done")
  <2>1. /\ pc' \in [Ticket -> Pc] /\ slots' \in 0..MaxConcurrent /\ SlotsBalance'
        /\ pc'[t] = "done" /\ mem' \in [Ticket -> Copy]
        /\ \A u \in Ticket \ {t} : pc'[u] = pc[u] /\ mem'[u] = mem[u]
    BY <1>0, <1>4, ReturnStep DEF Ended
  <2>2. PipelineTypeOK' /\ Local(t)
    BY <1>0, <1>2, <2>1 DEF PipelineInv, PipelineTypeOK, StoreTypeOK, Local, Same
  <2>3. TicketInv(t)'
    <3>0. Fresh(t) /\ History(t) /\ Progress(t) /\ Linkage(t) /\ Merged(t)
      BY DEF PipelineInv, TicketInv
    <3>1. Fresh(t)'
      BY <1>0, <1>1, <1>2, <2>1, <3>0 DEF Fresh
    <3>2. History(t)'
      BY <1>0, <1>1, <1>2, <2>1, <3>0 DEF History, Deciding
    <3>3. Progress(t)'
      BY <1>0, <1>1, <1>2, <2>1, <3>0 DEF Progress, Follows, Deciding, Linked, Decided
    <3>4. Linkage(t)'
      BY <1>0, <1>1, <1>2, <2>1, <3>0 DEF Linkage, Linked, HasPR
    <3>5. Merged(t)'
      BY <1>0, <1>1, <1>2, <2>1, <3>0 DEF Merged, WantsMerge, Progress, Follows, Linkage, Linked, HasPR
    <3> QED BY <3>1, <3>2, <3>3, <3>4, <3>5 DEF TicketInv
  <2> QED BY <2>1, <2>2, <2>3, LocalStep
<1> QED BY <1>3, <1>4 DEF MirrorPR

LEMMA MergePRInv ==
    ASSUME PipelineInv, NEW t \in Ticket, MergePR(t)
    PROVE  PipelineInv'
<1>0. /\ pc[t] = "merge" /\ pc[t] \in Active
      /\ UNCHANGED <<row, created, safe, paused, mirror, resolving>>
  BY DEF MergePR, Active, storeVars
<1>1. CASE /\ github[t] = "open" /\ github' = [github EXCEPT ![t] = "automerged"]
           /\ goal' = [goal EXCEPT ![t] = "fix_applied"] /\ Continue(t, "link")
  <2>1. pc' = [pc EXCEPT ![t] = "link"] /\ mem' = mem /\ slots' = slots
    BY <1>1 DEF Continue
  <2>2. /\ pc' \in [Ticket -> Pc] /\ slots' \in 0..MaxConcurrent /\ SlotsBalance'
        /\ pc'[t] = "link" /\ \A u \in Ticket \ {t} : pc'[u] = pc[u]
    BY <1>0, <2>1, ContinueStep DEF Active
  <2>3. PipelineTypeOK' /\ Local(t) /\ github'[t] = "automerged" /\ goal'[t] = "fix_applied"
    BY <1>0, <1>1, <2>1, <2>2 DEF PipelineInv, PipelineTypeOK, StoreTypeOK, Local, Same, Status, OpenStatus
  <2>4. TicketInv(t)'
    <3>0. Fresh(t) /\ History(t) /\ Progress(t) /\ Linkage(t) /\ Merged(t)
      BY DEF PipelineInv, TicketInv
    <3>1. Fresh(t)'
      BY <1>0, <1>1, <2>1, <2>2, <2>3, <3>0 DEF Fresh
    <3>2. History(t)'
      BY <1>0, <1>1, <2>1, <2>2, <2>3, <3>0 DEF History, Deciding
    <3>3. Progress(t)'
      BY <1>0, <1>1, <2>1, <2>2, <2>3, <3>0 DEF Progress, Follows, Deciding, Linked, Decided, Merged, WantsMerge
    <3>4. Linkage(t)'
      BY <1>0, <1>1, <2>1, <2>2, <2>3, <3>0 DEF Linkage, Linked, HasPR
    <3>5. Merged(t)'
      BY <1>0, <1>1, <2>1, <2>2, <2>3, <3>0 DEF Merged, WantsMerge, Progress, Follows, Linkage, Linked, HasPR
    <3> QED BY <3>1, <3>2, <3>3, <3>4, <3>5 DEF TicketInv
  <2> QED BY <2>2, <2>3, <2>4, LocalStep
<1>2. CASE /\ IF github[t] = "open" THEN GitHubFails(t, "automerged") ELSE UNCHANGED github
           /\ UNCHANGED goal /\ Return(t, "done")
  <2>1. github' = github \/ (github[t] = "open" /\ github' = [github EXCEPT ![t] = "automerged"])
    BY <1>2 DEF GitHubFails
  <2>2. /\ pc' \in [Ticket -> Pc] /\ slots' \in 0..MaxConcurrent /\ SlotsBalance'
        /\ pc'[t] = "done" /\ mem' \in [Ticket -> Copy]
        /\ \A u \in Ticket \ {t} : pc'[u] = pc[u] /\ mem'[u] = mem[u]
    BY <1>0, <1>2, ReturnStep DEF Ended
  <2>3. /\ PipelineTypeOK' /\ Local(t)
        /\ github'[t] = github[t] \/ (github[t] = "open" /\ github'[t] = "automerged")
    BY <1>0, <1>2, <2>1, <2>2 DEF PipelineInv, PipelineTypeOK, StoreTypeOK, Local, Same
  <2>4. TicketInv(t)'
    <3>0. Fresh(t) /\ History(t) /\ Progress(t) /\ Linkage(t) /\ Merged(t)
      BY DEF PipelineInv, TicketInv
    <3>1. Fresh(t)'
      BY <1>0, <1>2, <2>2, <2>3, <3>0 DEF Fresh
    <3>2. History(t)'
      BY <1>0, <1>2, <2>2, <2>3, <3>0 DEF History, Deciding
    <3>3. Progress(t)'
      BY <1>0, <1>2, <2>2, <2>3, <3>0 DEF Progress, Follows, Deciding, Linked, Decided
    <3>4. Linkage(t)'
      BY <1>0, <1>2, <2>2, <2>3, <3>0 DEF Linkage, Linked, HasPR
    <3>5. Merged(t)'
      BY <1>0, <1>2, <2>2, <2>3, <3>0 DEF Merged, WantsMerge, Progress, Follows, Linkage, Linked, HasPR
    <3> QED BY <3>1, <3>2, <3>3, <3>4, <3>5 DEF TicketInv
  <2> QED BY <2>2, <2>3, <2>4, LocalStep
<1> QED BY <1>1, <1>2 DEF MergePR

LEMMA PersistInv ==
    ASSUME PipelineInv, NEW t \in Ticket, Persist(t)
    PROVE  PipelineInv'
<1>0. /\ pc[t] \in {"persist", "giveUp"} /\ pc[t] \in Active
      /\ UNCHANGED <<goal, safe, paused, github, mirror, resolving>>
      /\ UNCHANGED <<goal, safe, paused, outsideVars>>
  BY DEF Persist, Active, outsideVars
<1>1. /\ goal[t] \in Status
      /\ goal[t] \in {"escalated", "fix_proposed"}
      /\ row[t].status = mem[t].status \/ row[t].status = "resolved"
  BY <1>0 DEF PipelineInv, PipelineTypeOK, TicketInv, Progress, Follows, Deciding
<1>2. CASE StoreFails(t)
  BY <1>0, <1>2, StoreFailsInv
<1>3. CASE /\ row[t].status = mem[t].status
           /\ SetDiagnosisFromStatus(t, mem[t].status, goal[t])
           /\ created' = created /\ Continue(t, "mirror")
  <2>1. pc' = [pc EXCEPT ![t] = "mirror"] /\ mem' = mem /\ slots' = slots
    BY <1>3 DEF Continue
  <2>2. /\ pc' \in [Ticket -> Pc] /\ slots' \in 0..MaxConcurrent /\ SlotsBalance'
        /\ pc'[t] = "mirror" /\ \A u \in Ticket \ {t} : pc'[u] = pc[u]
    BY <1>0, <2>1, ContinueStep DEF Active
  <2>3. Writes(t, goal[t], row[t].pr, row[t].took \cup {goal[t]})
    BY <1>1, <1>3, DiagnosisWrites DEF PipelineInv, PipelineTypeOK
  <2>4. PipelineTypeOK' /\ Local(t)
    BY <1>0, <1>3, <2>1, <2>2, <2>3 DEF PipelineInv, PipelineTypeOK, StoreTypeOK, Writes, Local, Same
  <2>5. row'[t].status = goal[t] /\ row'[t].pr = row[t].pr /\ row'[t].took = row[t].took \cup {goal[t]}
    BY <2>3 DEF Writes
  <2>6. TicketInv(t)'
    <3>0. Fresh(t) /\ History(t) /\ Progress(t) /\ Linkage(t) /\ Merged(t)
      BY DEF PipelineInv, TicketInv
    <3>1. Fresh(t)'
      BY <1>0, <1>1, <1>3, <2>1, <2>2, <2>5, <3>0 DEF Fresh
    <3>2. History(t)'
      BY <1>0, <1>1, <1>3, <2>1, <2>2, <2>5, <3>0 DEF History, Deciding
    <3>3. Progress(t)'
      BY <1>0, <1>1, <1>3, <2>1, <2>2, <2>5, <3>0 DEF Progress, Follows, Deciding, Linked, Decided
    <3>4. Linkage(t)'
      BY <1>0, <1>1, <1>3, <2>1, <2>2, <2>5, <3>0 DEF Linkage, Linked, HasPR
    <3>5. Merged(t)'
      BY <1>0, <1>1, <1>3, <2>1, <2>2, <2>5, <3>0 DEF Merged, WantsMerge, Progress, Follows, Linkage, Linked, HasPR
    <3> QED BY <3>1, <3>2, <3>3, <3>4, <3>5 DEF TicketInv
  <2> QED BY <2>2, <2>4, <2>6, LocalStep
<1>4. CASE /\ row[t].status # mem[t].status
           /\ SetDiagnosisFromStatus(t, mem[t].status, goal[t])
           /\ created' = created /\ Return(t, "done")
  <2>1. row' = row /\ row[t].status = "resolved"
    BY <1>1, <1>4 DEF SetDiagnosisFromStatus
  <2>2. /\ pc' \in [Ticket -> Pc] /\ slots' \in 0..MaxConcurrent /\ SlotsBalance'
        /\ pc'[t] = "done" /\ mem' \in [Ticket -> Copy]
        /\ \A u \in Ticket \ {t} : pc'[u] = pc[u] /\ mem'[u] = mem[u]
    BY <1>0, <1>4, ReturnStep DEF Ended
  <2>3. PipelineTypeOK' /\ Local(t)
    BY <1>0, <1>4, <2>1, <2>2 DEF PipelineInv, PipelineTypeOK, StoreTypeOK, Local, Same
  <2>4. TicketInv(t)'
    <3>0. Fresh(t) /\ History(t) /\ Progress(t) /\ Linkage(t) /\ Merged(t)
      BY DEF PipelineInv, TicketInv
    <3>1. Fresh(t)'
      BY <1>0, <1>4, <2>1, <2>2, <3>0 DEF Fresh
    <3>2. History(t)'
      BY <1>0, <1>4, <2>1, <2>2, <3>0 DEF History, Deciding
    <3>3. Progress(t)'
      BY <1>0, <1>4, <2>1, <2>2, <3>0 DEF Progress, Follows, Deciding, Linked, Decided
    <3>4. Linkage(t)'
      BY <1>0, <1>4, <2>1, <2>2, <3>0 DEF Linkage, Linked, HasPR
    <3>5. Merged(t)'
      BY <1>0, <1>4, <2>1, <2>2, <3>0 DEF Merged, WantsMerge, Progress, Follows, Linkage, Linked, HasPR
    <3> QED BY <3>1, <3>2, <3>3, <3>4, <3>5 DEF TicketInv
  <2> QED BY <2>2, <2>3, <2>4, LocalStep
<1> QED BY <1>2, <1>3, <1>4 DEF Persist

LEMMA MirrorInv ==
    ASSUME PipelineInv, NEW t \in Ticket, Mirror(t)
    PROVE  PipelineInv'
<1>0. /\ pc[t] = "mirror" /\ pc[t] \in Active
      /\ UNCHANGED <<row, created, goal, safe, paused, github, resolving>>
      /\ UpdateAlert(t, goal[t]) /\ Return(t, "done")
  BY DEF Mirror, Active, storeVars
<1>1. goal[t] \in row[t].took
  BY <1>0 DEF PipelineInv, TicketInv, History
<1>2. /\ mirror' \in [Ticket -> Status \cup {"absent"}]
      /\ \A u \in Ticket \ {t} : mirror'[u] = mirror[u]
      /\ mirror'[t] \in row[t].took \cup {"absent"}
      /\ t > created => mirror'[t] = "absent"
  BY <1>0, <1>1, UpdateAlertMirror
<1>3. /\ pc' \in [Ticket -> Pc] /\ slots' \in 0..MaxConcurrent /\ SlotsBalance'
      /\ pc'[t] = "done" /\ mem' \in [Ticket -> Copy]
      /\ \A u \in Ticket \ {t} : pc'[u] = pc[u] /\ mem'[u] = mem[u]
  BY <1>0, ReturnStep DEF Ended
<1>4. PipelineTypeOK' /\ Local(t)
  BY <1>0, <1>2, <1>3 DEF PipelineInv, PipelineTypeOK, StoreTypeOK, Local, Same
<1>5. TicketInv(t)'
  <2>0. Fresh(t) /\ History(t) /\ Progress(t) /\ Linkage(t) /\ Merged(t)
    BY DEF PipelineInv, TicketInv
  <2>1. Fresh(t)'
    BY <1>0, <1>2, <1>3, <2>0 DEF Fresh
  <2>2. History(t)'
    BY <1>0, <1>2, <1>3, <2>0 DEF History, Deciding
  <2>3. Progress(t)'
    BY <1>0, <1>2, <1>3, <2>0 DEF Progress, Follows, Deciding, Linked, Decided
  <2>4. Linkage(t)'
    BY <1>0, <1>2, <1>3, <2>0 DEF Linkage, Linked, HasPR
  <2>5. Merged(t)'
    BY <1>0, <1>2, <1>3, <2>0 DEF Merged, WantsMerge, Progress, Follows, Linkage, Linked, HasPR
  <2> QED BY <2>1, <2>2, <2>3, <2>4, <2>5 DEF TicketInv
<1> QED BY <1>3, <1>4, <1>5, LocalStep

-----------------------------------------------------------------------------
(* Waiting for a slot, and the environment of a run *)

LEMMA ProcessTicketInv ==
    ASSUME PipelineInv, NEW t \in Ticket, ProcessTicket(t)
    PROVE  PipelineInv'
<1>1. PICK to \in {"skipped", "queued"} : pc' = [pc EXCEPT ![t] = to]
  BY DEF ProcessTicket, Move
<1>2. /\ pc[t] = "created"
      /\ UNCHANGED <<row, created, mem, goal, safe, slots, paused, github, mirror, resolving>>
  BY DEF ProcessTicket, Move, storeVars, outsideVars
<1>3. PipelineTypeOK' /\ Local(t) /\ pc'[t] = to
  BY <1>1, <1>2 DEF PipelineInv, PipelineTypeOK, StoreTypeOK, Local, Same, Pc, Waiting, Ended
<1>4. SlotsBalance'
  BY <1>1, <1>2, SlotsKept DEF PipelineInv, PipelineTypeOK, Active
<1>5. TicketInv(t)'
  <2>0. Fresh(t) /\ History(t) /\ Progress(t) /\ Linkage(t) /\ Merged(t)
    BY DEF PipelineInv, TicketInv
  <2>1. Fresh(t)'
    BY <1>1, <1>2, <1>3, <2>0 DEF Fresh, Active
  <2>2. History(t)'
    BY <1>1, <1>2, <1>3, <2>0 DEF History, Deciding
  <2>3. Progress(t)'
    BY <1>1, <1>2, <1>3, <2>0 DEF Progress, Follows, Deciding, Linked, Decided
  <2>4. Linkage(t)'
    BY <1>1, <1>2, <1>3, <2>0 DEF Linkage, Linked, HasPR
  <2>5. Merged(t)'
    BY <1>1, <1>2, <1>3, <2>0 DEF Merged, WantsMerge
  <2> QED BY <2>1, <2>2, <2>3, <2>4, <2>5 DEF TicketInv
<1> QED BY <1>3, <1>4, <1>5, LocalStep

LEMMA AcquireSemInv ==
    ASSUME PipelineInv, NEW t \in Ticket, AcquireSem(t)
    PROVE  PipelineInv'
<1>1. /\ pc[t] = "queued" /\ pc' = [pc EXCEPT ![t] = "start"]
      /\ slots > 0 /\ slots' = slots - 1
      /\ UNCHANGED <<row, created, mem, goal, safe, paused, github, mirror, resolving>>
  BY DEF AcquireSem, Move, storeVars, outsideVars
<1>2. pc \in [Ticket -> Pc] /\ slots \in 0..MaxConcurrent /\ SlotsBalance
  BY DEF PipelineInv, PipelineTypeOK
<1>3. SlotsBalance' /\ slots' \in 0..MaxConcurrent
  BY <1>1, <1>2, SlotTaken DEF Active
<1>4. PipelineTypeOK' /\ Local(t) /\ pc'[t] = "start"
  BY <1>1, <1>3 DEF PipelineInv, PipelineTypeOK, StoreTypeOK, Local, Same, Pc, Active
<1>5. TicketInv(t)'
  <2>0. Fresh(t) /\ History(t) /\ Progress(t) /\ Linkage(t) /\ Merged(t)
    BY DEF PipelineInv, TicketInv
  <2>1. Fresh(t)'
    BY <1>1, <1>4, <2>0 DEF Fresh, Active
  <2>2. History(t)'
    BY <1>1, <1>4, <2>0 DEF History, Deciding
  <2>3. Progress(t)'
    BY <1>1, <1>4, <2>0 DEF Progress, Follows, Deciding, Linked, Decided
  <2>4. Linkage(t)'
    BY <1>1, <1>4, <2>0 DEF Linkage, Linked, HasPR
  <2>5. Merged(t)'
    BY <1>1, <1>4, <2>0 DEF Merged, WantsMerge
  <2> QED BY <2>1, <2>2, <2>3, <2>4, <2>5 DEF TicketInv
<1> QED BY <1>3, <1>4, <1>5, LocalStep

LEMMA DeliverResolveInv ==
    ASSUME PipelineInv, NEW t \in Ticket, DeliverResolve(t)
    PROVE  PipelineInv'
<1>1. /\ resolving[t] > 0 /\ resolving' = [resolving EXCEPT ![t] = @ - 1]
      /\ UpdateAlert(t, "resolved")
      /\ UNCHANGED <<row, created, pc, mem, goal, safe, slots, paused, github>>
  BY DEF DeliverResolve, storeVars, runVars
<1>2. "resolved" \in row[t].took
  BY <1>1 DEF PipelineInv, TicketInv, History
<1>3. /\ mirror' \in [Ticket -> Status \cup {"absent"}]
      /\ \A u \in Ticket \ {t} : mirror'[u] = mirror[u]
      /\ mirror'[t] \in row[t].took \cup {"absent"}
      /\ t > created => mirror'[t] = "absent"
  BY <1>1, <1>2, UpdateAlertMirror
<1>4. PipelineTypeOK' /\ Local(t)
  <2>1. resolving \in [Ticket -> Nat] /\ resolving[t] \in Nat
    BY DEF PipelineInv, PipelineTypeOK
  <2>2. resolving' \in [Ticket -> Nat] /\ \A u \in Ticket \ {t} : resolving'[u] = resolving[u]
    BY <1>1, <2>1
  <2> QED BY <1>1, <1>3, <2>2 DEF PipelineInv, PipelineTypeOK, StoreTypeOK, Local, Same
<1>5. SlotsBalance'
  BY <1>1, SlotsKept DEF PipelineInv
<1>6. TicketInv(t)'
  <2>0. Fresh(t) /\ History(t) /\ Progress(t) /\ Linkage(t) /\ Merged(t)
    BY DEF PipelineInv, TicketInv
  <2>1. Fresh(t)'
    BY <1>1, <1>2, <1>3, <2>0 DEF Fresh, Active
  <2>2. History(t)'
    BY <1>1, <1>2, <1>3, <2>0 DEF History, Deciding
  <2>3. Progress(t)'
    BY <1>1, <1>2, <1>3, <2>0 DEF Progress, Follows, Deciding, Linked, Decided
  <2>4. Linkage(t)'
    BY <1>1, <1>2, <1>3, <2>0 DEF Linkage, Linked, HasPR
  <2>5. Merged(t)'
    BY <1>1, <1>2, <1>3, <2>0 DEF Merged, WantsMerge
  <2> QED BY <2>1, <2>2, <2>3, <2>4, <2>5 DEF TicketInv
<1> QED BY <1>4, <1>5, <1>6, LocalStep

LEMMA NewTicketInv ==
    ASSUME PipelineInv, NEW src \in Source, NEW k \in Key, NEW F \in SUBSET Fp,
           NewTicket(src, k, F)
    PROVE  PipelineInv'
<1> DEFINE m == [status |-> "open", fps |-> F, pr |-> FALSE]
<1>1. Insert(src, k, F) /\ StoreTypeOK
  BY DEF NewTicket, PipelineInv, PipelineTypeOK
<1>a. created + 1 \in Ticket
  BY <1>1, InsertWrites
<1>b. PICK t \in Ticket : t = created + 1
  BY <1>a
<1>2. created' = t /\ Writes(t, "open", FALSE, {"open"})
  BY <1>1, <1>b, InsertWrites
<1>3. /\ pc' = [pc EXCEPT ![t] = "created"] /\ mem' = [mem EXCEPT ![t] = m]
      /\ UNCHANGED <<goal, safe, slots, paused, github, mirror, resolving>>
  BY <1>b DEF NewTicket, outsideVars
<1>4. m \in Copy
  BY DEF Copy, Status, OpenStatus
<1>5. created \in Nat /\ t > created /\ ~(t > created')
  BY <1>1, <1>2, <1>b, StoreAssumption DEF StoreTypeOK
<1> HIDE DEF m
<1>6. PipelineTypeOK' /\ pc'[t] = "created" /\ \A u \in Ticket \ {t} : Same(u)
  BY <1>2, <1>3, <1>4 DEF PipelineInv, PipelineTypeOK, StoreTypeOK, Writes, Same, Pc, Waiting, Ticket
<1>7. Fresh(t) /\ History(t) /\ Progress(t) /\ Linkage(t) /\ Merged(t)
  BY <1>2 DEF PipelineInv, TicketInv
<1>8. pc[t] = "none" /\ github[t] = "none" /\ mirror[t] = "absent" /\ resolving[t] = 0
  BY <1>5, <1>7 DEF Fresh
<1>9. SlotsBalance'
  BY <1>3, <1>8, <1>6, SlotsKept DEF PipelineInv, PipelineTypeOK, Active
<1>10. /\ row'[t].status = "open" /\ row'[t].took = {"open"} /\ pc'[t] = "created"
       /\ github'[t] = "none" /\ mirror'[t] = "absent" /\ resolving'[t] = 0
  BY <1>2, <1>3, <1>6, <1>8 DEF Writes
<1>11. TicketInv(t)'
  BY <1>5, <1>10 DEF TicketInv, Fresh, History, Progress, Linkage, HasPR, Merged, Deciding, Linked
<1>12. ASSUME NEW u \in Ticket \ {t} PROVE TicketInv(u)'
  <2>1. u > created' => u > created
    BY <1>2, <1>5, <1>b DEF Ticket
  <2> QED BY <2>1, <1>6, Frame DEF PipelineInv
<1> QED BY <1>6, <1>9, <1>11, <1>12 DEF PipelineInv

\* A statement of another actor that leaves status, pull request and history.
LEMMA UnrelatedWrite ==
    ASSUME PipelineInv, NEW t \in Ticket, Writes(t, row[t].status, row[t].pr, row[t].took),
           UNCHANGED <<created, runVars, outsideVars, paused>>
    PROVE  PipelineInv'
<1>1. UNCHANGED <<created, pc, mem, goal, safe, slots, paused, github, mirror, resolving>>
  BY DEF runVars, outsideVars
<1>2. PipelineTypeOK' /\ Local(t)
  BY <1>1 DEF PipelineInv, PipelineTypeOK, StoreTypeOK, Local, Same, Writes
<1>3. SlotsBalance'
  BY <1>1, SlotsKept DEF PipelineInv
<1>4. row'[t].status = row[t].status /\ row'[t].pr = row[t].pr /\ row'[t].took = row[t].took
  BY DEF Writes
<1>5. TicketInv(t)'
  <2>0. Fresh(t) /\ History(t) /\ Progress(t) /\ Linkage(t) /\ Merged(t)
    BY DEF PipelineInv, TicketInv
  <2>1. Fresh(t)'
    BY <1>1, <1>4, <2>0 DEF Fresh, Active
  <2>2. History(t)'
    BY <1>1, <1>4, <2>0 DEF History, Deciding
  <2>3. Progress(t)'
    BY <1>1, <1>4, <2>0 DEF Progress, Follows, Deciding, Linked, Decided
  <2>4. Linkage(t)'
    BY <1>1, <1>4, <2>0 DEF Linkage, Linked, HasPR
  <2>5. Merged(t)'
    BY <1>1, <1>4, <2>0 DEF Merged, WantsMerge
  <2> QED BY <2>1, <2>2, <2>3, <2>4, <2>5 DEF TicketInv
<1> QED BY <1>2, <1>3, <1>5, LocalStep

LEMMA ExistingTickets == PipelineInv => Existing \subseteq Ticket
BY StoreAssumption DEF PipelineInv, PipelineTypeOK, StoreTypeOK, Existing, Ticket

LEMMA TouchedInv == PipelineInv /\ Touched => PipelineInv'
<1> SUFFICES ASSUME PipelineInv, Touched PROVE PipelineInv'
  OBVIOUS
<1>1. PICK t \in Existing, F \in SUBSET Fp : TouchWithFingerprint(t, F)
  BY DEF Touched
<1>2. t \in Ticket /\ StoreTypeOK
  BY ExistingTickets DEF PipelineInv, PipelineTypeOK
<1>3. Writes(t, row[t].status, row[t].pr, row[t].took)
  BY <1>1, <1>2, TouchWrites
<1> QED BY <1>2, <1>3, UnrelatedWrite DEF Touched, Others

LEMMA ClockInv == PipelineInv /\ Clock => PipelineInv'
<1> SUFFICES ASSUME PipelineInv, Clock PROVE PipelineInv'
  OBVIOUS
<1>1. PICK t \in Existing : Grow(t, pc[t] \in Active) \/ CooldownEnds(t)
  BY DEF Clock
<1>2. t \in Ticket /\ StoreTypeOK
  BY ExistingTickets DEF PipelineInv, PipelineTypeOK
<1> DEFINE b == pc[t] \in Active
<1>3. b \in BOOLEAN /\ (Grow(t, b) \/ CooldownEnds(t))
  BY <1>1
<1> HIDE DEF b
<1>4. Writes(t, row[t].status, row[t].pr, row[t].took)
  BY <1>2, <1>3, ClockWrites
<1> QED BY <1>2, <1>4, UnrelatedWrite DEF Clock, Others

LEMMA ResolvedInv ==
    ASSUME PipelineInv, NEW S \in SUBSET ListOpen, NEW told \in SUBSET S, Resolved(S, told)
    PROVE  PipelineInv'
<1>1. /\ ResolveRows(S) /\ StoreTypeOK
      /\ resolving' = [t \in Ticket |-> IF t \in told THEN resolving[t] + 1 ELSE resolving[t]]
      /\ UNCHANGED <<created, pc, mem, goal, safe, slots, paused, github, mirror>>
  BY DEF Resolved, Others, runVars, PipelineInv, PipelineTypeOK
<1>2. S \in SUBSET Ticket
  BY ExistingTickets DEF ListOpen
<1>3. /\ row' \in [Ticket -> Row]
      /\ \A t \in Ticket \ S : row'[t] = row[t]
      /\ \A t \in S : /\ row'[t].status = "resolved" /\ row'[t].pr = row[t].pr
                      /\ row'[t].took = row[t].took \cup {"resolved"}
  BY <1>1, <1>2, ResolveWrites
<1>4. PipelineTypeOK'
  BY <1>1, <1>3 DEF PipelineInv, PipelineTypeOK, StoreTypeOK
<1>5. SlotsBalance'
  BY <1>1, SlotsKept DEF PipelineInv
<1>6. ASSUME NEW t \in S PROVE TicketInv(t)'
  <2>a. /\ row'[t].status = "resolved" /\ row'[t].pr = row[t].pr
        /\ row'[t].took = row[t].took \cup {"resolved"} /\ t \in Ticket
        /\ row[t].status # "none" /\ ~(t > created)
    BY <1>2, <1>3 DEF ListOpen, OpenStatus, Existing, PipelineInv, PipelineTypeOK, StoreTypeOK
  <2>0. Fresh(t) /\ History(t) /\ Progress(t) /\ Linkage(t) /\ Merged(t)
    BY <2>a DEF PipelineInv, TicketInv
  <2>1. Fresh(t)'
    BY <1>1, <2>a, <2>0 DEF Fresh, Active
  <2>2. History(t)'
    BY <1>1, <2>a, <2>0 DEF History, Deciding
  <2>3. Progress(t)'
    BY <1>1, <2>a, <2>0 DEF Progress, Follows, Deciding, Linked, Decided
  <2>4. Linkage(t)'
    BY <1>1, <2>a, <2>0 DEF Linkage, Linked, HasPR
  <2>5. Merged(t)'
    BY <1>1, <2>a, <2>0 DEF Merged, WantsMerge
  <2> QED BY <2>1, <2>2, <2>3, <2>4, <2>5 DEF TicketInv
<1>7. ASSUME NEW t \in Ticket \ S PROVE TicketInv(t)'
  BY <1>1, <1>3, Frame DEF Same, PipelineInv
<1> QED BY <1>2, <1>4, <1>5, <1>6, <1>7 DEF PipelineInv

LEMMA ReviewInv ==
    ASSUME PipelineInv, NEW t \in Ticket, Review(t)
    PROVE  PipelineInv'
<1>1. PICK s \in {"merged", "closed"} : github' = [github EXCEPT ![t] = s]
  BY DEF Review
<1>2. /\ github[t] = "open"
      /\ UNCHANGED <<row, created, mirror, resolving, pc, mem, goal, safe, slots, paused>>
  BY DEF Review, Others, storeVars, runVars
<1>3. PipelineTypeOK' /\ Local(t) /\ github'[t] = s
  BY <1>1, <1>2 DEF PipelineInv, PipelineTypeOK, StoreTypeOK, Local, Same
<1>4. SlotsBalance'
  BY <1>2, SlotsKept DEF PipelineInv
<1>5. TicketInv(t)'
  <2>0. Fresh(t) /\ History(t) /\ Progress(t) /\ Linkage(t) /\ Merged(t)
    BY DEF PipelineInv, TicketInv
  <2>1. Fresh(t)'
    BY <1>2, <1>3, <2>0 DEF Fresh, Active
  <2>2. History(t)'
    BY <1>2, <1>3, <2>0 DEF History, Deciding
  <2>3. Progress(t)'
    BY <1>2, <1>3, <2>0 DEF Progress, Follows, Deciding, Linked, Decided
  <2>4. Linkage(t)'
    BY <1>2, <1>3, <2>0 DEF Linkage, Linked, HasPR
  <2>5. Merged(t)'
    BY <1>2, <1>3, <2>0 DEF Merged, WantsMerge
  <2> QED BY <2>1, <2>2, <2>3, <2>4, <2>5 DEF TicketInv
<1> QED BY <1>3, <1>4, <1>5, LocalStep

\* A step that leaves every ticket alone.
LEMMA NothingMoves ==
    ASSUME PipelineInv, UNCHANGED <<storeVars, runVars, outsideVars>>, paused' \in BOOLEAN
    PROVE  PipelineInv'
<1>1. UNCHANGED <<row, created, pc, mem, goal, safe, slots, github, mirror, resolving>>
  BY DEF storeVars, runVars, outsideVars
<1>2. PipelineTypeOK'
  BY <1>1 DEF PipelineInv, PipelineTypeOK, StoreTypeOK
<1>3. SlotsBalance'
  BY <1>1, SlotsKept DEF PipelineInv
<1>4. ASSUME NEW t \in Ticket PROVE TicketInv(t)'
  BY <1>1, Frame DEF Same, PipelineInv
<1> QED BY <1>2, <1>3, <1>4 DEF PipelineInv

LEMMA CrashInv == PipelineInv /\ Crash => PipelineInv'
<1> SUFFICES ASSUME PipelineInv, LoseRuns PROVE PipelineInv'
  BY DEF Crash
<1>1. /\ pc' = [t \in Ticket |-> IF Running(t) THEN "lost" ELSE pc[t]]
      /\ mem' = [t \in Ticket |-> Blank] /\ slots' = MaxConcurrent /\ paused' = FALSE
      /\ resolving' = [t \in Ticket |-> 0]
      /\ UNCHANGED <<row, created, goal, safe, github, mirror>>
  BY DEF LoseRuns, storeVars
<1>2. PipelineTypeOK'
  <2>1. pc' \in [Ticket -> Pc]
    BY <1>1 DEF PipelineInv, PipelineTypeOK, Pc, Ended
  <2>2. mem' \in [Ticket -> Copy] /\ resolving' \in [Ticket -> Nat]
    BY <1>1 DEF Blank, Copy
  <2>3. slots' \in 0..MaxConcurrent
    BY <1>1, PipelineAssumption
  <2>4. paused' \in BOOLEAN
    BY <1>1
  <2> QED BY <1>1, <2>1, <2>2, <2>3, <2>4 DEF PipelineInv, PipelineTypeOK, StoreTypeOK
<1>3. ASSUME NEW t \in Ticket PROVE pc'[t] \in {"none", "lost"} \cup Ended
                                    /\ (pc'[t] = "lost" \/ pc'[t] = pc[t])
  BY <1>1 DEF PipelineInv, PipelineTypeOK, Running, Pc
<1>4. SlotsBalance'
  <2>1. Holding' = {}
    BY <1>3 DEF Holding, Active, Ended
  <2> QED BY <2>1, <1>1, FS_EmptySet, PipelineAssumption DEF SlotsBalance
<1>5. ASSUME NEW t \in Ticket PROVE TicketInv(t)'
  <2>a. t > created => pc'[t] = "none"
    BY <1>1 DEF PipelineInv, TicketInv, Fresh, Running, Waiting, Active
  <2>b. resolving'[t] = 0
    BY <1>1
  <2>0. Fresh(t) /\ History(t) /\ Progress(t) /\ Linkage(t) /\ Merged(t)
    BY DEF PipelineInv, TicketInv
  <2>1. Fresh(t)'
    BY <1>1, <1>3, <2>a, <2>b, <2>0 DEF Fresh, Active
  <2>2. History(t)'
    BY <1>1, <1>3, <2>a, <2>b, <2>0 DEF History, Deciding, Ended
  <2>3. Progress(t)'
    BY <1>1, <1>3, <2>a, <2>b, <2>0 DEF Progress, Follows, Deciding, Linked, Decided, Ended
  <2>4. Linkage(t)'
    BY <1>1, <1>3, <2>a, <2>b, <2>0 DEF Linkage, Linked, HasPR, Ended
  <2>5. Merged(t)'
    BY <1>1, <1>3, <2>a, <2>b, <2>0 DEF Merged, WantsMerge, Ended
  <2> QED BY <2>1, <2>2, <2>3, <2>4, <2>5 DEF TicketInv
<1> QED BY <1>2, <1>4, <1>5 DEF PipelineInv

-----------------------------------------------------------------------------
(* The invariant *)

LEMMA InitInv == PipelineInit => PipelineInv
<1> SUFFICES ASSUME PipelineInit PROVE PipelineInv
  OBVIOUS
<1>1. NoRow \in Row /\ NoRow.status = "none" /\ NoRow.took = {}
  <2>1. (CHOOSE s \in Source : TRUE) \in Source
    BY StoreAssumption
  <2>2. Key # {}
    <3>1. PICK w \in Workload, a \in AlertName : TRUE
      BY StoreAssumption
    <3>2. <<w, a>> \in Workload \X AlertName
      BY <3>1
    <3> QED BY <3>2 DEF Key
  <2>3. (CHOOSE k \in Key : TRUE) \in Key
    BY <2>2
  <2> QED BY <2>1, <2>3, ZeroAge DEF NoRow, Row
<1> HIDE DEF NoRow
<1>2. PipelineTypeOK
  <2>1. StoreTypeOK
    BY <1>1, StoreAssumption DEF PipelineInit, StoreInit, StoreTypeOK
  <2>2. Blank \in Copy
    BY DEF Blank, Copy
  <2>3. slots \in 0..MaxConcurrent
    BY PipelineAssumption DEF PipelineInit, RunInit
  <2> QED BY <2>1, <2>2, <2>3 DEF PipelineInit, RunInit, PipelineTypeOK, Pc, Status, OpenStatus
<1>3. SlotsBalance
  <2>1. Holding = {}
    BY DEF Holding, Active, PipelineInit, RunInit
  <2> QED BY <2>1, FS_EmptySet, PipelineAssumption DEF SlotsBalance, PipelineInit, RunInit
<1>4. ASSUME NEW t \in Ticket PROVE TicketInv(t)
  BY <1>1 DEF PipelineInit, StoreInit, RunInit, TicketInv, Fresh, History, Progress, Linkage, HasPR,
              Merged, Deciding, Linked
<1> QED BY <1>2, <1>3, <1>4 DEF PipelineInv

LEMMA RunStepInv ==
    ASSUME PipelineInv, NEW t \in Ticket, RunStep(t)
    PROVE  PipelineInv'
BY MarkAnalyzingInv, PublishAlertInv, ReloadInv, NoDiagnosisInv, DiagnosedInv, SyncDiagnosisInv,
   AdviseInv, SuggestInv, StartFixInv, FixStopsInv, FixReadyInv, CheckLimitsInv, PushBranchInv,
   OpenPRInv, LinkInv, LinkOnlyInv, MirrorPRInv, MergePRInv, PersistInv, MirrorInv
   DEF RunStep

LEMMA EnvironmentInv == PipelineInv /\ Environment => PipelineInv'
<1> SUFFICES ASSUME PipelineInv, Environment PROVE PipelineInv'
  OBVIOUS
<1>1. CASE Pause \/ Resume
  BY <1>1, NothingMoves DEF Pause, Resume
<1> QED BY <1>1, NewTicketInv, TouchedInv, ResolvedInv, DeliverResolveInv, ReviewInv, ClockInv, CrashInv
        DEF Environment, Surroundings

LEMMA NextInv == PipelineInv /\ [PipelineNext]_pipelineVars => PipelineInv'
<1> SUFFICES ASSUME PipelineInv, [PipelineNext]_pipelineVars PROVE PipelineInv'
  OBVIOUS
<1>1. CASE UNCHANGED pipelineVars
  <2>1. UNCHANGED <<storeVars, runVars, outsideVars>> /\ paused' \in BOOLEAN
    BY <1>1 DEF pipelineVars, PipelineInv, PipelineTypeOK
  <2> QED BY <2>1, NothingMoves
<1>2. CASE Environment
  BY <1>2, EnvironmentInv
<1>3. ASSUME NEW t \in Ticket, PipelineStep(t) PROVE PipelineInv'
  BY <1>3, ProcessTicketInv, AcquireSemInv, RunStepInv DEF PipelineStep
<1> QED BY <1>1, <1>2, <1>3 DEF PipelineNext

\* The invariant holds in every state of every behaviour: types, slots, and per
\* ticket what the run believes of the row, of GitHub and of mctl-api.
THEOREM Invariance == PipelineSpec => []PipelineInv
BY InitInv, NextInv, PTL DEF PipelineSpec

\* Type correctness, for any number of tickets and slots.
THEOREM TypeCorrect == PipelineSpec => []PipelineTypeOK
<1>1. PipelineInv => PipelineTypeOK
  BY DEF PipelineInv
<1> QED BY <1>1, Invariance, PTL

\* No run that returned without a failed store call leaves its ticket open or
\* analyzing (escalate, persistDiagnosisAndMirror, recordAndMirrorPR).
THEOREM RunsDecide == PipelineSpec => []FinishedRunIsDecided
<1>1. PipelineInv => FinishedRunIsDecided
  BY DEF PipelineInv, TicketInv, Progress, FinishedRunIsDecided, Decided
<1> QED BY <1>1, Invariance, PTL

\* mctl-api is only ever told of statuses the store took (updateAlert,
\* publishAlert, ResolveAlert), whatever is lost and in whatever order.
THEOREM MirrorFollows == PipelineSpec => []MirrorNeverAhead
<1>1. PipelineInv => MirrorNeverAhead
  BY DEF PipelineInv, TicketInv, History, MirrorNeverAhead
<1> QED BY <1>1, Invariance, PTL

\* A pull request that CreatePR reported is in the row when the run ends, also
\* when the guarded transition of RecordPRLinkage missed.
THEOREM LinkageKept == PipelineSpec => []PRNeverForgotten
<1>1. PipelineInv => PRNeverForgotten
  BY DEF PipelineInv, TicketInv, Linkage, HasPR, PRNeverForgotten
<1> QED BY <1>1, Invariance, PTL

\* MergePR runs only under AUTO_MERGE, outside dry run, for an auto-merge safe
\* skill, and on top of a linked fix_proposed transition the store took.
THEOREM MergeRecorded == PipelineSpec => []MergeOnlyOnRecord
<1>1. PipelineInv => MergeOnlyOnRecord
  BY DEF PipelineInv, TicketInv, Merged, MergeOnlyOnRecord
<1> QED BY <1>1, Invariance, PTL

\* The semaphore of NewPipeline never leaks a slot nor frees one twice.
THEOREM SemaphoreSound == PipelineSpec => []SlotsBalance
<1>1. PipelineInv => SlotsBalance
  BY DEF PipelineInv
<1> QED BY <1>1, Invariance, PTL

-----------------------------------------------------------------------------
(* The guards on fromStatus *)

\* Ticket t was closed behind the back of a run past its reload.
ClosedBehind(t) == /\ IsClosed(t) /\ mem[t].status \notin Closed
                   /\ pc[t] \in Active \ {"start", "publish", "reload"}

LEMMA RunKeepsClosure ==
    ASSUME PipelineInv, NEW u \in Ticket, ClosedBehind(u), NEW t \in Ticket, RunStep(t)
    PROVE  row'[u].status = row[u].status
<1>1. row[u].status # mem[u].status /\ StoreTypeOK
  BY DEF ClosedBehind, IsClosed, PipelineInv, PipelineTypeOK
<1>2. CASE row' = row
  BY <1>2
<1>3. CASE MarkAnalyzing(t)
  <2>1. t # u
    BY <1>3 DEF MarkAnalyzing, ClosedBehind
  <2> QED BY <2>1, <1>1, <1>2, <1>3 DEF MarkAnalyzing, Update, Write, StoreFails, storeVars, StoreTypeOK
<1>4. CASE Link(t)
  BY <1>1, <1>2, <1>4 DEF Link, RecordPRLinkage, Write, StoreFails, storeVars, StoreTypeOK
<1>5. CASE LinkOnly(t)
  <2>1. CASE RecordPRCoordinates(t, mem[t].pr)
    <3>1. mem[t].pr \in BOOLEAN
      BY DEF PipelineInv, PipelineTypeOK, Copy
    <3> QED BY <1>1, <2>1, <3>1, CoordinatesWrites DEF Writes
  <2> QED BY <1>2, <1>5, <2>1 DEF LinkOnly, StoreFails, storeVars
<1>6. CASE Persist(t)
  BY <1>1, <1>2, <1>6 DEF Persist, SetDiagnosisFromStatus, Write, StoreFails, storeVars, StoreTypeOK
<1>7. \/ row' = row \/ MarkAnalyzing(t) \/ Link(t) \/ LinkOnly(t) \/ Persist(t)
  BY Zenon DEF RunStep, PublishAlert, Reload, StoreFails, NoDiagnosis, Diagnosed, SyncDiagnosis, Advise,
         Suggest, StartFix, FixStops, FixReady, CheckLimits, PushBranch, OpenPR, MirrorPR, MergePR,
         Mirror, storeVars
<1> QED BY <1>2, <1>3, <1>4, <1>5, <1>6, <1>7

LEMMA EnvironmentKeepsClosure ==
    ASSUME PipelineInv, NEW u \in Ticket, ClosedBehind(u), Environment
    PROVE  row'[u].status \in Closed
<1>1. row[u].status \in Closed /\ StoreTypeOK
  BY DEF ClosedBehind, IsClosed, PipelineInv, PipelineTypeOK
<1>2. CASE row' = row
  BY <1>1, <1>2
<1>3. ASSUME NEW src \in Source, NEW k \in Key, NEW F \in SUBSET Fp, NewTicket(src, k, F)
      PROVE  row'[u].status \in Closed
  <2>1. created + 1 \in Ticket /\ Writes(created + 1, "open", FALSE, {"open"})
    BY <1>1, <1>3, InsertWrites DEF NewTicket
  <2>2. u # created + 1
    <3>1. created + 1 > created
      BY StoreAssumption, <1>1 DEF StoreTypeOK
    <3> QED BY <3>1 DEF PipelineInv, TicketInv, Fresh, ClosedBehind, Active
  <2> QED BY <1>1, <2>1, <2>2 DEF Writes
<1>4. CASE Touched
  <2>1. PICK t \in Existing, F \in SUBSET Fp : TouchWithFingerprint(t, F)
    BY <1>4 DEF Touched
  <2>2. t \in Ticket
    BY ExistingTickets
  <2> QED BY <1>1, <2>1, <2>2, TouchWrites DEF Writes
<1>5. ASSUME NEW S \in SUBSET ListOpen, NEW told \in SUBSET S, Resolved(S, told)
      PROVE  row'[u].status \in Closed
  <2>1. ResolveRows(S) /\ S \in SUBSET Ticket
    BY <1>5, ExistingTickets DEF Resolved, ListOpen
  <2> QED BY <1>1, <2>1, ResolveWrites DEF Closed
<1>6. CASE Clock
  <2>1. PICK t \in Existing : Grow(t, pc[t] \in Active) \/ CooldownEnds(t)
    BY <1>6 DEF Clock
  <2>2. t \in Ticket
    BY ExistingTickets
  <2> DEFINE b == pc[t] \in Active
  <2>3. b \in BOOLEAN /\ (Grow(t, b) \/ CooldownEnds(t))
    BY <2>1
  <2> HIDE DEF b
  <2> QED BY <1>1, <2>2, <2>3, ClockWrites DEF Writes
<1>7. CASE (\E t \in Ticket : DeliverResolve(t) \/ Review(t)) \/ Pause \/ Resume \/ Crash
  <2>1. row' = row
    BY <1>7 DEF DeliverResolve, Review, Pause, Resume, Crash, LoseRuns, storeVars
  <2> QED BY <1>2, <2>1
<1> QED BY <1>3, <1>4, <1>5, <1>6, <1>7 DEF Environment, Surroundings

\* A resolution that lands after the run's reload stands: SetDiagnosisFromStatus
\* and RecordPRLinkage never overwrite it, whatever the run still does.
THEOREM GuardsHold == PipelineSpec => NoReopenAfterReload
<1> DEFINE Kept == \A t \in Ticket : ClosedBehind(t) => row'[t].status \in Closed
<1>1. PipelineInv /\ [PipelineNext]_pipelineVars => Kept \/ UNCHANGED pipelineVars
  <2> SUFFICES ASSUME PipelineInv, PipelineNext, NEW u \in Ticket, ClosedBehind(u)
               PROVE  row'[u].status \in Closed
    OBVIOUS
  <2>1. row[u].status \in Closed
    BY DEF ClosedBehind, IsClosed
  <2>2. ASSUME NEW t \in Ticket, PipelineStep(t) PROVE row'[u].status \in Closed
    <3>1. CASE ProcessTicket(t) \/ AcquireSem(t)
      BY <2>1, <3>1 DEF ProcessTicket, AcquireSem, storeVars
    <3>2. CASE RunStep(t)
      BY <2>1, <3>2, RunKeepsClosure
    <3> QED BY <2>2, <3>1, <3>2 DEF PipelineStep
  <2> QED BY <2>2, EnvironmentKeepsClosure DEF PipelineNext
<1>2. Kept \/ UNCHANGED pipelineVars
      => [\A t \in Ticket :
            IsClosed(t) /\ mem[t].status \notin Closed /\ pc[t] \in Active \ {"start", "publish", "reload"}
              => row'[t].status \in Closed]_pipelineVars
  BY DEF ClosedBehind
<1> QED BY <1>1, <1>2, Invariance, PTL DEF PipelineSpec, NoReopenAfterReload

-----------------------------------------------------------------------------
(* How many pull requests there can be *)

\* The step makes no ticket count and leaves every copy backed.
Spares(u) == (Counted(u)' => Counted(u)) /\ CopyBacked(u)'

Apart(u) ==
    /\ row'[u].pr = row[u].pr /\ pc'[u] = pc[u] /\ mem'[u] = mem[u] /\ github'[u] = github[u]

LEMMA ApartSpares ==
    ASSUME NEW u, CopyBacked(u), Apart(u)
    PROVE  Spares(u)
BY DEF Apart, Spares, Counted, CopyBacked, HasPR

LEMMA MovingOn ==
    ASSUME NEW t, CopyBacked(t), pc[t] \in Active, pc'[t] \in Active \ {"branch", "openPR"},
           row'[t].pr = row[t].pr, mem'[t].pr => mem[t].pr \/ row[t].pr,
           HasPR(t)' <=> HasPR(t)
    PROVE  Spares(t)
BY DEF Spares, Counted, CopyBacked

LEMMA Ending ==
    ASSUME NEW t, CopyBacked(t), pc[t] \in Active, pc'[t] \in Ended, mem'[t] = Blank,
           row'[t].pr => row[t].pr \/ mem[t].pr
    PROVE  Spares(t)
BY DEF Spares, Counted, CopyBacked, Blank, Active, Ended

LEMMA Functions ==
    ASSUME PipelineInv
    PROVE  /\ row \in [Ticket -> Row] /\ pc \in [Ticket -> Pc] /\ mem \in [Ticket -> Copy]
           /\ DOMAIN github = Ticket
BY DEF PipelineInv, PipelineTypeOK, StoreTypeOK

\* Return, whatever was written of the row before.
LEMMA ReturnSpares ==
    ASSUME PipelineInv, NEW t \in Ticket, CopyBacked(t), pc[t] \in Active, NEW how \in Ended,
           Return(t, how), row'[t].pr => row[t].pr \/ mem[t].pr,
           \A u \in Ticket \ {t} : row'[u].pr = row[u].pr /\ github'[u] = github[u]
    PROVE  Spares(t) /\ \A u \in Ticket \ {t} : Apart(u)
<1>1. pc'[t] = how /\ mem'[t] = Blank
      /\ \A u \in Ticket \ {t} : pc'[u] = pc[u] /\ mem'[u] = mem[u]
  BY Functions DEF Return
<1> QED BY <1>1, Ending DEF Apart

\* A step of the run that writes nothing of the row's or the copy's pull request.
LEMMA ContinueSpares ==
    ASSUME PipelineInv, NEW t \in Ticket, CopyBacked(t), pc[t] \in Active,
           NEW to \in Active \ {"branch", "openPR"}, pc' = [pc EXCEPT ![t] = to],
           mem' = mem, github' = github, \A u \in Ticket : row'[u].pr = row[u].pr
    PROVE  Spares(t) /\ \A u \in Ticket \ {t} : Apart(u)
<1>1. pc'[t] = to /\ \A u \in Ticket \ {t} : pc'[u] = pc[u]
  BY Functions
<1>2. HasPR(t)' <=> HasPR(t)
  BY DEF HasPR
<1> QED BY <1>1, <1>2, MovingOn DEF Apart

LEMMA StoreFailsSpares ==
    ASSUME PipelineInv, NEW t \in Ticket, CopyBacked(t), pc[t] \in Active, StoreFails(t),
           github' = github
    PROVE  Spares(t) /\ \A u \in Ticket \ {t} : Apart(u)
<1>1. "aborted" \in Ended /\ Return(t, "aborted") /\ row' = row
  BY DEF StoreFails, storeVars, Ended
<1> QED BY <1>1, ReturnSpares

LEMMA MarkAnalyzingSpares ==
    ASSUME PipelineInv, NEW t \in Ticket, CopyBacked(t), MarkAnalyzing(t)
    PROVE  Spares(t) /\ \A u \in Ticket \ {t} : Apart(u)
<1>1. pc[t] = "start" /\ pc[t] \in Active /\ github' = github
  BY DEF MarkAnalyzing, Active, outsideVars
<1>2. CASE StoreFails(t)
  BY <1>1, <1>2, StoreFailsSpares
<1>3. CASE ~StoreFails(t)
  <2> DEFINE m == [mem[t] EXCEPT !.status = "analyzing"]
  <2>1. Update(t, m) /\ mem' = [mem EXCEPT ![t] = m] /\ pc' = [pc EXCEPT ![t] = "publish"]
    BY <1>3 DEF MarkAnalyzing
  <2>2. m \in Copy /\ m.status \in Status /\ m.pr = mem[t].pr
    <3>1. mem[t] \in Copy
      BY Functions
    <3> QED BY <3>1 DEF Copy, Status, OpenStatus
  <2> HIDE DEF m
  <2>3. Writes(t, m.status, m.pr, row[t].took \cup {m.status})
    <3>1. StoreTypeOK
      BY DEF PipelineInv, PipelineTypeOK
    <3> QED BY <2>1, <2>2, <3>1, UpdateWrites
  <2>4. row'[t].pr = mem[t].pr /\ \A u \in Ticket \ {t} : row'[u] = row[u]
    BY <2>2, <2>3 DEF Writes
  <2>5. mem'[t].pr = mem[t].pr /\ pc'[t] = "publish"
        /\ \A u \in Ticket \ {t} : mem'[u] = mem[u] /\ pc'[u] = pc[u]
    BY <2>1, <2>2, Functions
  <2>6. Spares(t)
    BY <1>1, <2>4, <2>5 DEF Spares, Counted, CopyBacked, HasPR
  <2> QED BY <1>1, <2>4, <2>5, <2>6 DEF Apart
<1> QED BY <1>2, <1>3

LEMMA ReloadSpares ==
    ASSUME PipelineInv, NEW t \in Ticket, CopyBacked(t), Reload(t)
    PROVE  Spares(t) /\ \A u \in Ticket \ {t} : Apart(u)
<1>1. pc[t] = "reload" /\ pc[t] \in Active /\ github' = github
  BY DEF Reload, Active, outsideVars
<1>2. CASE StoreFails(t)
  BY <1>1, <1>2, StoreFailsSpares
<1>3. CASE ~StoreFails(t)
  <2>1. mem' = [mem EXCEPT ![t] = Get(t)] /\ pc' = [pc EXCEPT ![t] = "diagnose"] /\ row' = row
    BY <1>3 DEF Reload, storeVars
  <2>2. mem'[t].pr = row[t].pr /\ pc'[t] = "diagnose"
        /\ \A u \in Ticket \ {t} : mem'[u] = mem[u] /\ pc'[u] = pc[u]
    BY <2>1, Functions DEF Get
  <2>3. pc'[t] \in Active \ {"branch", "openPR"} /\ (HasPR(t)' <=> HasPR(t))
    BY <1>1, <2>2 DEF Active, HasPR
  <2>4. Spares(t)
    BY <1>1, <2>1, <2>2, <2>3, MovingOn
  <2> QED BY <1>1, <2>1, <2>2, <2>4 DEF Apart
<1> QED BY <1>2, <1>3

\* Between the reload and the choice of a fix nothing about pull requests is written.
LEMMA DecidingSpares ==
    ASSUME PipelineInv, NEW t \in Ticket, CopyBacked(t),
           \/ PublishAlert(t) \/ NoDiagnosis(t) \/ Diagnosed(t) \/ SyncDiagnosis(t)
           \/ Advise(t) \/ Suggest(t) \/ StartFix(t) \/ FixStops(t) \/ FixReady(t)
    PROVE  Spares(t) /\ \A u \in Ticket \ {t} : Apart(u)
<1>1. \E to \in Active \ {"branch", "openPR"} :
        pc[t] \in Active /\ pc' = [pc EXCEPT ![t] = to] /\ mem' = mem /\ github' = github /\ row' = row
  BY DEF PublishAlert, NoDiagnosis, Diagnosed, SyncDiagnosis, Advise, Suggest, StartFix, FixStops,
         FixReady, Move, Active, storeVars, outsideVars
<1> QED BY <1>1, ContinueSpares

\* A write that keeps the row's pull request.
LEMMA WrittenBeside ==
    ASSUME NEW t \in Ticket, NEW s, NEW T, Writes(t, s, row[t].pr, T)
    PROVE  \A u \in Ticket : row'[u].pr = row[u].pr
BY DEF Writes

\* Before its pull request is opened a ticket has none.
LEMMA NotYet ==
    ASSUME PipelineInv, NEW t \in Ticket, pc[t] \in {"queued", "branch", "openPR"}
    PROVE  ~HasPR(t)
BY DEF PipelineInv, TicketInv, Linkage, Linked

LEMMA PushBranchSpares ==
    ASSUME PipelineInv, NEW t \in Ticket, CopyBacked(t), PushBranch(t)
    PROVE  Spares(t) /\ \A u \in Ticket \ {t} : Apart(u)
<1>1. pc[t] = "branch" /\ row' = row /\ mem' = mem /\ ~HasPR(t)
  BY NotYet DEF PushBranch, Continue, storeVars
<1>2. \E to \in {"openPR", "giveUp"} : pc' = [pc EXCEPT ![t] = to]
  BY DEF PushBranch, Continue
<1>3. \A u \in Ticket \ {t} : pc'[u] = pc[u] /\ github'[u] = github[u]
  BY <1>2, Functions DEF PushBranch, GitHubFails
<1>4. mem[t].pr => row[t].pr
  BY <1>1 DEF CopyBacked
<1> QED BY <1>1, <1>3, <1>4 DEF Spares, Counted, CopyBacked, Apart

LEMMA OpenPRSpares ==
    ASSUME PipelineInv, NEW t \in Ticket, CopyBacked(t), OpenPR(t)
    PROVE  Spares(t) /\ \A u \in Ticket \ {t} : Apart(u)
<1>1. pc[t] = "openPR" /\ row' = row /\ ~HasPR(t)
  BY NotYet DEF OpenPR, storeVars
<1>2. mem[t].pr => row[t].pr
  BY <1>1 DEF CopyBacked
<1>3. CASE /\ github' = [github EXCEPT ![t] = "open"]
           /\ mem' = [mem EXCEPT ![t].pr = TRUE]
           /\ pc' = [pc EXCEPT ![t] = "link"]
  <2>1. pc'[t] = "link" /\ github'[t] = "open"
        /\ \A u \in Ticket \ {t} : pc'[u] = pc[u] /\ github'[u] = github[u] /\ mem'[u] = mem[u]
    BY <1>3, Functions
  <2>2. HasPR(t)' /\ pc'[t] \in Active
    BY <2>1 DEF HasPR, Active
  <2> QED BY <1>1, <2>1, <2>2 DEF Spares, Counted, CopyBacked, Apart
<1>4. CASE GitHubFails(t, "open") /\ Continue(t, "giveUp")
  <2>1. mem' = mem /\ \A u \in Ticket \ {t} : pc'[u] = pc[u] /\ github'[u] = github[u]
    BY <1>4, Functions DEF GitHubFails, Continue
  <2> QED BY <1>1, <1>2, <2>1 DEF Spares, Counted, CopyBacked, Apart
<1> QED BY <1>3, <1>4 DEF OpenPR

LEMMA LinkSpares ==
    ASSUME PipelineInv, NEW t \in Ticket, CopyBacked(t), Link(t)
    PROVE  Spares(t) /\ \A u \in Ticket \ {t} : Apart(u)
<1>1. pc[t] = "link" /\ pc[t] \in Active /\ github' = github
  BY DEF Link, Active, outsideVars
<1>2. CASE StoreFails(t)
  BY <1>1, <1>2, StoreFailsSpares
<1>3. CASE ~StoreFails(t)
  <2>1. RecordPRLinkage(t, mem[t].status, goal[t], mem[t].pr)
        /\ mem' = [mem EXCEPT ![t].status = goal[t]]
    BY <1>3 DEF Link
  <2>2. PICK to \in {"mirrorPR", "linkOnly"} : pc' = [pc EXCEPT ![t] = to]
    BY <1>3 DEF Link
  <2>3. StoreTypeOK /\ goal[t] \in Status /\ mem[t] \in Copy /\ mem[t].pr \in BOOLEAN
    BY DEF PipelineInv, PipelineTypeOK, Copy
  <2>4. /\ \A u \in Ticket \ {t} : row'[u] = row[u]
        /\ row'[t].pr = mem[t].pr \/ row'[t].pr = row[t].pr
    <3>1. IF row[t].status = mem[t].status
          THEN Writes(t, goal[t], mem[t].pr, row[t].took \cup {goal[t]})
          ELSE row' = row
      BY <2>1, <2>3, LinkageWrites
    <3>2. CASE row' = row
      BY <3>2
    <3>3. CASE Writes(t, goal[t], mem[t].pr, row[t].took \cup {goal[t]})
      BY <3>3 DEF Writes
    <3> QED BY <3>1, <3>2, <3>3
  <2>5. mem'[t].pr = mem[t].pr
        /\ \A u \in Ticket \ {t} : mem'[u] = mem[u] /\ pc'[u] = pc[u]
    BY <2>1, <2>2, <2>3, Functions DEF Copy
  <2>6. pc'[t] \in Active /\ pc'[t] \notin {"branch", "openPR"} /\ (HasPR(t)' <=> HasPR(t))
    BY <1>1, <2>2, Functions DEF Active, HasPR
  <2>7. Spares(t)
    BY <1>1, <2>4, <2>5, <2>6 DEF Spares, Counted, CopyBacked
  <2> QED BY <1>1, <2>4, <2>5, <2>7 DEF Apart
<1> QED BY <1>2, <1>3

LEMMA LinkOnlySpares ==
    ASSUME PipelineInv, NEW t \in Ticket, CopyBacked(t), LinkOnly(t)
    PROVE  Spares(t) /\ \A u \in Ticket \ {t} : Apart(u)
<1>1. pc[t] = "linkOnly" /\ pc[t] \in Active /\ github' = github /\ "done" \in Ended
  BY DEF LinkOnly, Active, outsideVars, Ended
<1>2. CASE StoreFails(t)
  BY <1>1, <1>2, StoreFailsSpares
<1>3. CASE RecordPRCoordinates(t, mem[t].pr) /\ Return(t, "done")
  <2>1. StoreTypeOK /\ mem[t] \in Copy /\ mem[t].pr \in BOOLEAN
    BY DEF PipelineInv, PipelineTypeOK, Copy
  <2>2. row'[t].pr = mem[t].pr /\ \A u \in Ticket \ {t} : row'[u] = row[u]
    BY <1>3, <2>1, CoordinatesWrites DEF Writes
  <2> QED BY <1>1, <1>3, <2>2, ReturnSpares
<1> QED BY <1>2, <1>3 DEF LinkOnly

LEMMA MirrorPRSpares ==
    ASSUME PipelineInv, NEW t \in Ticket, CopyBacked(t), MirrorPR(t)
    PROVE  Spares(t) /\ \A u \in Ticket \ {t} : Apart(u)
<1>1. pc[t] = "mirrorPR" /\ pc[t] \in Active /\ github' = github /\ row' = row
      /\ "done" \in Ended /\ "merge" \in Active \ {"branch", "openPR"}
  BY DEF MirrorPR, Active, storeVars, Ended
<1>2. CASE Continue(t, "merge")
  BY <1>1, <1>2, ContinueSpares DEF Continue
<1>3. CASE Return(t, "done")
  BY <1>1, <1>3, ReturnSpares
<1> QED BY <1>2, <1>3 DEF MirrorPR

LEMMA MergePRSpares ==
    ASSUME PipelineInv, NEW t \in Ticket, CopyBacked(t), MergePR(t)
    PROVE  Spares(t) /\ \A u \in Ticket \ {t} : Apart(u)
<1>1. pc[t] = "merge" /\ pc[t] \in Active /\ row' = row /\ "done" \in Ended
  BY DEF MergePR, Active, storeVars, Ended
<1>0. github' = github \/ (github[t] = "open" /\ github' = [github EXCEPT ![t] = "automerged"])
  BY DEF MergePR, GitHubFails
<1>2. github'[t] = github[t] \/ (github[t] = "open" /\ github'[t] = "automerged")
  BY <1>0, Functions
<1>3. HasPR(t)' <=> HasPR(t)
  BY <1>2 DEF HasPR
<1>4. \A u \in Ticket \ {t} : github'[u] = github[u]
  BY <1>0, Functions
<1>5. CASE Continue(t, "link")
  <2>1. pc'[t] = "link" /\ mem' = mem /\ \A u \in Ticket \ {t} : pc'[u] = pc[u]
    BY <1>5, Functions DEF Continue
  <2>2. pc'[t] \in Active \ {"branch", "openPR"}
    BY <2>1 DEF Active
  <2> QED BY <1>1, <1>3, <1>4, <2>1, <2>2, MovingOn DEF Apart
<1>6. CASE Return(t, "done")
  BY <1>1, <1>4, <1>6, ReturnSpares
<1> QED BY <1>5, <1>6 DEF MergePR

LEMMA PersistSpares ==
    ASSUME PipelineInv, NEW t \in Ticket, CopyBacked(t), Persist(t)
    PROVE  Spares(t) /\ \A u \in Ticket \ {t} : Apart(u)
<1>1. pc[t] \in Active /\ github' = github
      /\ "done" \in Ended /\ "mirror" \in Active \ {"branch", "openPR"}
  BY DEF Persist, Active, outsideVars, Ended
<1>2. CASE StoreFails(t)
  BY <1>1, <1>2, StoreFailsSpares
<1>3. CASE ~StoreFails(t)
  <2>1. SetDiagnosisFromStatus(t, mem[t].status, goal[t])
        /\ (Continue(t, "mirror") \/ Return(t, "done"))
    BY <1>3 DEF Persist
  <2>2. StoreTypeOK /\ goal[t] \in Status
    BY DEF PipelineInv, PipelineTypeOK
  <2>3. \A u \in Ticket : row'[u].pr = row[u].pr
    BY <2>1, <2>2, DiagnosisWrites, WrittenBeside
  <2> QED BY <1>1, <2>1, <2>3, ContinueSpares, ReturnSpares DEF Continue
<1> QED BY <1>2, <1>3

LEMMA MirrorSpares ==
    ASSUME PipelineInv, NEW t \in Ticket, CopyBacked(t), Mirror(t)
    PROVE  Spares(t) /\ \A u \in Ticket \ {t} : Apart(u)
<1>1. pc[t] \in Active /\ row' = row /\ github' = github /\ "done" \in Ended /\ Return(t, "done")
  BY DEF Mirror, Active, storeVars, Ended
<1> QED BY <1>1, ReturnSpares

LEMMA EnteringSpares ==
    ASSUME PipelineInv, NEW t \in Ticket, CopyBacked(t), ProcessTicket(t) \/ AcquireSem(t)
    PROVE  Spares(t) /\ \A u \in Ticket \ {t} : Apart(u)
<1>1. row' = row /\ mem' = mem /\ github' = github
  BY DEF ProcessTicket, AcquireSem, storeVars, outsideVars
<1>2. PICK from \in Waiting, to \in {"skipped", "queued", "start"} :
        Move(t, from, to) /\ (to = "start" => from = "queued")
  BY DEF ProcessTicket, AcquireSem, Waiting
<1>3. pc[t] = from /\ pc'[t] = to /\ \A u \in Ticket \ {t} : pc'[u] = pc[u]
  BY <1>2, Functions DEF Move
<1>4. pc[t] \notin Active /\ pc'[t] \notin {"branch", "openPR"}
  BY <1>3 DEF Waiting, Active
<1>5. to = "start" => ~HasPR(t)
  BY <1>2, <1>3, NotYet
<1>6. to # "start" => pc'[t] \notin Active
  BY <1>2, <1>3 DEF Active
<1>7. HasPR(t)' <=> HasPR(t)
  BY <1>1 DEF HasPR
<1> QED BY <1>1, <1>3, <1>4, <1>5, <1>6, <1>7 DEF Spares, Counted, CopyBacked, Apart

\* What can be counted, and the bound on it, when no ticket begins to count.
LEMMA CountedFinite == IsFiniteSet(Ticket) /\ \A S \in SUBSET Ticket : IsFiniteSet(S) /\ Cardinality(S) \in Nat
<1>1. IsFiniteSet(Ticket)
  BY StoreAssumption, FS_Interval DEF Ticket
<1> QED BY <1>1, FS_Subset, FS_CardinalityType

LEMMA SparingStep ==
    ASSUME PipelineInv, PipelineInv', OvershootInv, created' >= created,
           \A u \in Ticket : Spares(u)
    PROVE  OvershootInv'
<1>1. created \in Nat /\ created' \in Nat
  BY StoreAssumption DEF PipelineInv, PipelineTypeOK, StoreTypeOK
<1>2. ASSUME NEW u \in Ticket PROVE CopyBacked(u)' /\ (Counted(u)' => u \in Existing')
  BY <1>1 DEF OvershootInv, Spares, Existing, Ticket
<1> DEFINE Before == {t \in Ticket : Counted(t)}
           After == {t \in Ticket : Counted(t)'}
<1>3. After \subseteq Before
  BY DEF Spares
<1>4. IsFiniteSet(Before) /\ Cardinality(Before) \in Nat /\ Cardinality(After) \in Nat
  BY CountedFinite
<1>5. Cardinality(After) <= Cardinality(Before)
  BY <1>3, <1>4, FS_Subset
<1>6. Cardinality(Before) <= MaxPR + MaxConcurrent - 1
  BY DEF OvershootInv
<1>7. Cardinality(After) <= MaxPR + MaxConcurrent - 1
  <2> HIDE DEF Before, After
  <2> QED BY <1>4, <1>5, <1>6, PipelineAssumption
<1> QED BY <1>2, <1>7 DEF OvershootInv

LEMMA LocalOvershoot ==
    ASSUME PipelineInv, PipelineInv', OvershootInv, created' >= created, NEW t \in Ticket,
           Spares(t), \A u \in Ticket \ {t} : Apart(u)
    PROVE  OvershootInv'
<1>1. ASSUME NEW u \in Ticket PROVE Spares(u)
  BY ApartSpares DEF OvershootInv
<1> QED BY <1>1, SparingStep

\* The check of the limit is the one step after which a ticket counts that did
\* not: fewer than MaxPR are recorded, and whoever else counts holds a slot.
LEMMA CheckLimitsOvershoot ==
    ASSUME PipelineInv, PipelineInv', OvershootInv, NEW t \in Ticket, CheckLimits(t)
    PROVE  OvershootInv'
<1>1. pc[t] = "limit" /\ pc[t] \in Active /\ row' = row /\ created' = created /\ mem' = mem
      /\ github' = github /\ CopyBacked(t)
  BY DEF CheckLimits, Active, storeVars, outsideVars, Continue, OvershootInv
<1>2. created \in Nat
  BY StoreAssumption DEF PipelineInv, PipelineTypeOK, StoreTypeOK
<1>3. CASE \E to \in {"link", "giveUp"} : Continue(t, to)
  <2>1. PICK to \in {"link", "giveUp"} : Continue(t, to)
    BY <1>3
  <2>2. to \in Active \ {"branch", "openPR"} /\ pc' = [pc EXCEPT ![t] = to]
    BY <2>1 DEF Active, Continue
  <2>3. Spares(t) /\ \A u \in Ticket \ {t} : Apart(u)
    BY <1>1, <2>2, ContinueSpares
  <2> QED BY <1>1, <1>2, <2>3, LocalOvershoot
<1>4. CASE CountPRsInWindow < MaxPR /\ Continue(t, "branch")
  <2>1. pc'[t] = "branch" /\ \A u \in Ticket \ {t} : pc'[u] = pc[u]
    BY <1>4, Functions DEF Continue
  <2>2. \A u \in Ticket : pc'[u] \in Active <=> pc[u] \in Active
    BY <1>1, <2>1 DEF Active
  <2>3. ASSUME NEW u \in Ticket PROVE HasPR(u)' <=> HasPR(u)
    BY <1>1 DEF HasPR
  <2>4. t \in Existing
    BY <1>1, <1>2 DEF PipelineInv, TicketInv, Fresh, Existing, Ticket
  <2>5. ASSUME NEW u \in Ticket PROVE CopyBacked(u)' /\ (Counted(u)' => u \in Existing')
    <3>1. CopyBacked(u)'
      BY <1>1, <2>2, <2>3 DEF OvershootInv, CopyBacked
    <3>2. Counted(u)' => u = t \/ Counted(u)
      BY <1>1, <2>1, <2>3 DEF Counted
    <3> QED BY <1>1, <2>4, <3>1, <3>2 DEF OvershootInv, Existing
  <2> DEFINE Recorded == {u \in Existing : row[u].pr}
             After == {u \in Ticket : Counted(u)'}
  <2>6. After \subseteq Recorded \cup Holding
    <3>1. ASSUME NEW u \in Ticket, Counted(u)', ~row[u].pr PROVE pc[u] \in Active
      BY <1>1, <2>2, <3>1 DEF Counted, Active
    <3>2. ASSUME NEW u \in Ticket, row[u].pr PROVE u \in Existing
      BY <3>2 DEF OvershootInv, Counted
    <3> QED BY <3>1, <3>2 DEF Holding
  <2>7. Recorded \in SUBSET Ticket /\ Holding \in SUBSET Ticket
    BY ExistingTickets DEF Holding
  <2>8. IsFiniteSet(Recorded) /\ IsFiniteSet(Holding) /\ IsFiniteSet(Recorded \cup Holding)
    BY <2>7, CountedFinite
  <2>9. /\ Cardinality(Recorded) \in Nat /\ Cardinality(Holding) \in Nat
        /\ Cardinality(Recorded \cup Holding) \in Nat /\ Cardinality(After) \in Nat
    BY <2>7, CountedFinite
  <2>10. Cardinality(After) <= Cardinality(Recorded \cup Holding)
    BY <2>6, <2>8, FS_Subset
  <2>11. Cardinality(Recorded \cup Holding) <= Cardinality(Recorded) + Cardinality(Holding)
    <3>1. /\ Cardinality(Recorded \cup Holding)
               = Cardinality(Recorded) + Cardinality(Holding) - Cardinality(Recorded \cap Holding)
          /\ Cardinality(Recorded \cap Holding) \in Nat
      BY <2>7, <2>8, CountedFinite, FS_Union
    <3> HIDE DEF Recorded
    <3> QED BY <2>9, <3>1
  <2>12. Cardinality(Recorded) < MaxPR
    BY <1>4 DEF CountPRsInWindow
  <2>13. Cardinality(Holding) <= MaxConcurrent
    BY <2>9, PipelineAssumption DEF PipelineInv, SlotsBalance, PipelineTypeOK
  <2>14. Cardinality(After) <= MaxPR + MaxConcurrent - 1
    <3> HIDE DEF Recorded, After
    <3> QED BY <2>9, <2>10, <2>11, <2>12, <2>13, PipelineAssumption
  <2> QED BY <2>5, <2>14 DEF OvershootInv
<1> QED BY <1>3, <1>4 DEF CheckLimits

LEMMA PipelineStepOvershoot ==
    ASSUME PipelineInv, PipelineInv', OvershootInv, NEW t \in Ticket, PipelineStep(t)
    PROVE  OvershootInv'
<1>1. CopyBacked(t)
  BY DEF OvershootInv
<1>2. created' >= created
  <2>1. created' = created
    BY Zenon DEF PipelineStep, RunStep, ProcessTicket, AcquireSem, MarkAnalyzing, StoreFails,
           PublishAlert, Reload, NoDiagnosis, Diagnosed, SyncDiagnosis, Advise, Suggest, StartFix,
           FixStops, FixReady, CheckLimits, PushBranch, OpenPR, Link, LinkOnly, MirrorPR, MergePR,
           Persist, Mirror, storeVars
  <2>2. created \in Nat
    BY StoreAssumption DEF PipelineInv, PipelineTypeOK, StoreTypeOK
  <2> QED BY <2>1, <2>2
<1>3. CASE CheckLimits(t)
  BY <1>3, CheckLimitsOvershoot
<1>4. CASE ~CheckLimits(t)
  <2>1. Spares(t) /\ \A u \in Ticket \ {t} : Apart(u)
    BY <1>1, <1>4, EnteringSpares, MarkAnalyzingSpares, ReloadSpares, DecidingSpares,
       PushBranchSpares, OpenPRSpares, LinkSpares, LinkOnlySpares, MirrorPRSpares, MergePRSpares,
       PersistSpares, MirrorSpares DEF PipelineStep, RunStep
  <2> QED BY <1>2, <2>1, LocalOvershoot
<1> QED BY <1>3, <1>4

LEMMA NewTicketOvershoot ==
    ASSUME PipelineInv, PipelineInv', OvershootInv,
           NEW src \in Source, NEW k \in Key, NEW F \in SUBSET Fp, NewTicket(src, k, F)
    PROVE  OvershootInv'
<1> DEFINE n == created + 1
<1>1. StoreTypeOK /\ created \in Nat
  BY StoreAssumption DEF PipelineInv, PipelineTypeOK, StoreTypeOK
<1>2. n \in Ticket /\ created' = n /\ Writes(n, "open", FALSE, {"open"})
  BY <1>1, InsertWrites DEF NewTicket
<1>3. PICK c \in Ticket : c = n
  BY <1>2
<1>4. /\ pc' = [pc EXCEPT ![c] = "created"] /\ github' = github
      /\ mem' = [mem EXCEPT ![c] = [status |-> "open", fps |-> F, pr |-> FALSE]]
  BY <1>3 DEF NewTicket, outsideVars
<1>5. pc'[c] = "created" /\ ~row'[c].pr /\ ~mem'[c].pr
  BY <1>2, <1>3, <1>4, Functions DEF Writes
<1>6. \A u \in Ticket \ {c} : Apart(u)
  BY <1>2, <1>3, <1>4, Functions DEF Apart, Writes
<1>7. Spares(c)
  BY <1>5 DEF Spares, Counted, CopyBacked, Active
<1> QED BY <1>1, <1>2, <1>6, <1>7, LocalOvershoot

\* Touches, resolves and the clock leave every row's pull request.
LEMMA EnvironmentOvershoot ==
    ASSUME PipelineInv, PipelineInv', OvershootInv, Environment
    PROVE  OvershootInv'
<1>1. StoreTypeOK /\ created \in Nat
  BY StoreAssumption DEF PipelineInv, PipelineTypeOK, StoreTypeOK
<1>2. ASSUME \A u \in Ticket : row'[u].pr = row[u].pr,
             UNCHANGED <<created, pc, mem, github>>
      PROVE  OvershootInv'
  <2>1. \A u \in Ticket : Apart(u)
    BY <1>2 DEF Apart
  <2>2. \A u \in Ticket : Spares(u)
    BY <2>1, ApartSpares DEF OvershootInv
  <2> QED BY <1>1, <1>2, <2>2, SparingStep
<1>3. ASSUME NEW src \in Source, NEW k \in Key, NEW F \in SUBSET Fp, NewTicket(src, k, F)
      PROVE  OvershootInv'
  BY <1>3, NewTicketOvershoot
<1>4. CASE Touched
  <2>1. PICK t \in Existing, F \in SUBSET Fp : TouchWithFingerprint(t, F)
    BY <1>4 DEF Touched
  <2>2. t \in Ticket
    BY ExistingTickets
  <2>3. \A u \in Ticket : row'[u].pr = row[u].pr
    BY <1>1, <2>1, <2>2, TouchWrites, WrittenBeside
  <2>4. UNCHANGED <<created, pc, mem, github>>
    BY <1>4 DEF Touched, Others, runVars, outsideVars
  <2> QED BY <1>2, <2>3, <2>4
<1>5. ASSUME NEW S \in SUBSET ListOpen, NEW told \in SUBSET S, Resolved(S, told)
      PROVE  OvershootInv'
  <2>1. ResolveRows(S) /\ S \in SUBSET Ticket
    BY <1>5, ExistingTickets DEF Resolved, ListOpen
  <2>2. \A u \in Ticket : row'[u].pr = row[u].pr
    BY <1>1, <2>1, ResolveWrites
  <2>3. UNCHANGED <<created, pc, mem, github>>
    BY <1>5 DEF Resolved, Others, runVars
  <2> QED BY <1>2, <2>2, <2>3
<1>6. CASE Clock
  <2>1. PICK t \in Existing : Grow(t, pc[t] \in Active) \/ CooldownEnds(t)
    BY <1>6 DEF Clock
  <2>2. t \in Ticket
    BY ExistingTickets
  <2> DEFINE b == pc[t] \in Active
  <2>3. b \in BOOLEAN /\ (Grow(t, b) \/ CooldownEnds(t))
    BY <2>1
  <2> HIDE DEF b
  <2>4. \A u \in Ticket : row'[u].pr = row[u].pr
    BY <1>1, <2>2, <2>3, ClockWrites, WrittenBeside
  <2>5. UNCHANGED <<created, pc, mem, github>>
    BY <1>6 DEF Clock, Others, runVars, outsideVars
  <2> QED BY <1>2, <2>4, <2>5
<1>7. ASSUME NEW t \in Ticket, Review(t) PROVE OvershootInv'
  <2>1. row' = row /\ pc' = pc /\ mem' = mem /\ created' = created
    BY <1>7 DEF Review, Others, storeVars, runVars
  <2>2. \A u \in Ticket \ {t} : Apart(u)
    BY <1>7, <2>1 DEF Review, Apart
  <2>3. HasPR(t)' <=> HasPR(t)
    BY <1>7, Functions DEF Review, HasPR
  <2>4. CopyBacked(t)
    BY DEF OvershootInv
  <2>5. Spares(t)
    BY <2>1, <2>3, <2>4 DEF Spares, Counted, CopyBacked
  <2> QED BY <1>1, <2>1, <2>2, <2>5, LocalOvershoot
<1>8. CASE Crash
  <2>1. row' = row /\ created' = created
    BY <1>8 DEF Crash, LoseRuns, storeVars
  <2>2. ASSUME NEW u \in Ticket PROVE Spares(u)
    <3>1. pc'[u] = (IF Running(u) THEN "lost" ELSE pc[u]) /\ mem'[u] = Blank
      BY <1>8 DEF Crash, LoseRuns
    <3>2. pc'[u] \notin Active
      BY <3>1 DEF Running, Active
    <3>3. "branch" \in Active /\ "openPR" \in Active
      BY DEF Active
    <3> QED BY <2>1, <3>1, <3>2, <3>3 DEF Spares, Counted, CopyBacked, Blank
  <2> QED BY <1>1, <2>1, <2>2, SparingStep
<1>9. CASE (\E t \in Ticket : DeliverResolve(t)) \/ Pause \/ Resume
  <2>1. UNCHANGED <<row, created, pc, mem, github>>
    BY <1>9 DEF DeliverResolve, Pause, Resume, storeVars, runVars, outsideVars
  <2> QED BY <1>2, <2>1
<1> QED BY <1>3, <1>4, <1>5, <1>6, <1>7, <1>8, <1>9 DEF Environment, Surroundings

LEMMA InitOvershoot == PipelineInit => OvershootInv
<1> SUFFICES ASSUME PipelineInit PROVE OvershootInv
  OBVIOUS
<1>1. ASSUME NEW t \in Ticket PROVE CopyBacked(t) /\ ~Counted(t)
  BY DEF PipelineInit, StoreInit, RunInit, NoRow, Blank, CopyBacked, Counted, HasPR
<1>2. {t \in Ticket : Counted(t)} = {}
  BY <1>1
<1> QED BY <1>1, <1>2, FS_EmptySet, PipelineAssumption DEF OvershootInv

LEMMA NextOvershoot ==
    ASSUME PipelineInv, PipelineInv', OvershootInv, [PipelineNext]_pipelineVars
    PROVE  OvershootInv'
<1>1. CASE UNCHANGED pipelineVars
  <2>1. UNCHANGED <<row, created, pc, mem, github>>
    BY <1>1 DEF pipelineVars, storeVars, runVars, outsideVars
  <2>2. \A u \in Ticket : Spares(u)
    BY <2>1, ApartSpares DEF Apart, OvershootInv
  <2>3. created' >= created
    BY <2>1, StoreAssumption DEF PipelineInv, PipelineTypeOK, StoreTypeOK
  <2> QED BY <2>2, <2>3, SparingStep
<1>2. CASE Environment
  BY <1>2, EnvironmentOvershoot
<1>3. ASSUME NEW t \in Ticket, PipelineStep(t) PROVE OvershootInv'
  BY <1>3, PipelineStepOvershoot
<1> QED BY <1>1, <1>2, <1>3 DEF PipelineNext

\* However many runs pass the check of the limit together, the pull requests that
\* are recorded or may still be are at most MaxPR and one per slot but one.
THEOREM OvershootBounded == PipelineSpec => []PROvershootBounded
<1>1. OvershootInv => PROvershootBounded
  <2> SUFFICES ASSUME OvershootInv PROVE PROvershootBounded
    OBVIOUS
  <2> DEFINE All == {t \in Ticket : Counted(t)}
             Open == {t \in Ticket : HasPR(t) /\ (row[t].pr \/ pc[t] \in Active)}
  <2>1. Open \subseteq All
    BY DEF Counted
  <2>2. IsFiniteSet(All) /\ Cardinality(All) \in Nat /\ Cardinality(Open) \in Nat
    BY CountedFinite
  <2>3. Cardinality(Open) <= Cardinality(All)
    BY <2>1, <2>2, FS_Subset
  <2>4. Cardinality(All) <= MaxPR + MaxConcurrent - 1
    BY DEF OvershootInv
  <2>5. Cardinality(Open) <= MaxPR + MaxConcurrent - 1
    <3> HIDE DEF All, Open
    <3> QED BY <2>2, <2>3, <2>4, PipelineAssumption
  <2> QED BY <2>5 DEF PROvershootBounded
<1>2. OvershootInv /\ PipelineInv /\ PipelineInv' /\ [PipelineNext]_pipelineVars => OvershootInv'
  BY NextOvershoot
<1> QED BY <1>1, <1>2, InitOvershoot, Invariance, PTL DEF PipelineSpec

-----------------------------------------------------------------------------
(***************************************************************************)
(* The pipeline implements TicketLife.  The inductive invariant above      *)
(* supplies what the abstract guards need.                                 *)
(***************************************************************************)

(* A step of one ticket, seen through the mapping *)

OthersSame(t) == \A u \in Ticket \ {t} : Same(u)

LEMMA StepAt ==
    ASSUME PipelineInv, PipelineInv', NEW t \in Ticket, OthersSame(t)
    PROVE  /\ Statuses' = [Statuses EXCEPT ![t] = row'[t].status]
           /\ Histories' = [Histories EXCEPT ![t] = row'[t].took]
           /\ Stages' = [Stages EXCEPT ![t] = Stage(t)']
           /\ Sights' = [Sights EXCEPT ![t] = Seen(t)']
           /\ Requests' = [Requests EXCEPT ![t] = PullRequest(t)']
           /\ mirror' = [mirror EXCEPT ![t] = mirror'[t]]
<1>1. ASSUME NEW u \in Ticket \ {t}
      PROVE  /\ row'[u] = row[u] /\ mirror'[u] = mirror[u]
             /\ Stage(u)' = Stage(u) /\ Seen(u)' = Seen(u) /\ PullRequest(u)' = PullRequest(u)
  BY DEF OthersSame, Same, Stage, Seen, PullRequest, HasPR
<1>2. Statuses' = [Statuses EXCEPT ![t] = row'[t].status]
  BY <1>1 DEF Statuses
<1>3. Histories' = [Histories EXCEPT ![t] = row'[t].took]
  BY <1>1 DEF Histories
<1>4. Stages' = [Stages EXCEPT ![t] = Stage(t)']
  BY <1>1 DEF Stages
<1>5. Sights' = [Sights EXCEPT ![t] = Seen(t)']
  BY <1>1 DEF Sights
<1>6. Requests' = [Requests EXCEPT ![t] = PullRequest(t)']
  BY <1>1 DEF Requests
<1>7. mirror' = [mirror EXCEPT ![t] = mirror'[t]]
  BY <1>1 DEF PipelineInv, PipelineTypeOK
<1> QED BY <1>2, <1>3, <1>4, <1>5, <1>6, <1>7

\* The same, for the values the mapping has at t before the step.
LEMMA At ==
    ASSUME NEW t \in Ticket
    PROVE  /\ Statuses[t] = row[t].status /\ Histories[t] = row[t].took
           /\ Stages[t] = Stage(t) /\ Sights[t] = Seen(t) /\ Requests[t] = PullRequest(t)
BY DEF Statuses, Histories, Stages, Sights, Requests

\* What the step may leave alone at t.
StatusStays(t) == row'[t].status = row[t].status /\ row'[t].took = row[t].took
RunStays(t) == Stage(t)' = Stage(t) /\ Seen(t)' = Seen(t)
WorldStays(t) == PullRequest(t)' = PullRequest(t) /\ mirror'[t] = mirror[t]

LEMMA MappingStays ==
    ASSUME PipelineInv, PipelineInv', NEW t \in Ticket, OthersSame(t)
    PROVE  /\ StatusStays(t) => UNCHANGED <<Statuses, Histories>>
           /\ RunStays(t) => UNCHANGED <<Stages, Sights>>
           /\ PullRequest(t)' = PullRequest(t) => UNCHANGED Requests
           /\ mirror'[t] = mirror[t] => UNCHANGED mirror
<1>1. /\ Statuses = [Statuses EXCEPT ![t] = Statuses[t]]
      /\ Histories = [Histories EXCEPT ![t] = Histories[t]]
      /\ Stages = [Stages EXCEPT ![t] = Stages[t]]
      /\ Sights = [Sights EXCEPT ![t] = Sights[t]]
      /\ Requests = [Requests EXCEPT ![t] = Requests[t]]
  BY DEF Statuses, Histories, Stages, Sights, Requests
<1>2. mirror = [mirror EXCEPT ![t] = mirror[t]]
  BY DEF PipelineInv, PipelineTypeOK
<1> QED BY <1>1, <1>2, StepAt, At DEF StatusStays, RunStays

LEMMA Stutters ==
    ASSUME PipelineInv, PipelineInv', NEW t \in Ticket, OthersSame(t),
           StatusStays(t), RunStays(t), WorldStays(t)
    PROVE  UNCHANGED TL!lifeVars
BY MappingStays DEF WorldStays, TL!lifeVars

\* The run of t is over without a decision.
LEMMA GivesUp ==
    ASSUME PipelineInv, PipelineInv', NEW t \in Ticket, OthersSame(t),
           StatusStays(t), WorldStays(t),
           Stage(t) \in {"waiting", "analysing", "deciding", "settling"},
           Stage(t)' = "given up", Seen(t)' = "none"
    PROVE  TL!Next
<1>1. Stages' = [u \in Ticket |-> IF u \in {t} THEN "given up" ELSE Stages[u]]
  BY StepAt DEF Stages
<1>2. Sights' = [u \in Ticket |-> IF u \in {t} THEN "none" ELSE Sights[u]]
  BY StepAt DEF Sights
<1>3. \A u \in {t} : Stages[u] \in {"waiting", "analysing", "deciding", "settling"}
  BY At
<1>4. TL!GiveUp({t})
  BY <1>1, <1>2, <1>3, MappingStays DEF WorldStays, TL!GiveUp
<1>5. {t} \in SUBSET Ticket
  OBVIOUS
<1> QED BY <1>4, <1>5 DEF TL!Next

\* mctl-api was told something, or not; the run goes on, or it is over.
LEMMA TellsHeld ==
    ASSUME PipelineInv, PipelineInv', NEW t \in Ticket, OthersSame(t),
           StatusStays(t), PullRequest(t)' = PullRequest(t),
           mirror'[t] \in row[t].took \cup {mirror[t]},
           \/ RunStays(t)
           \/ /\ Stage(t) \in {"deciding", "settling"} /\ row[t].status \in Decided
              /\ Stage(t)' = "done" /\ Seen(t)' = "none"
    PROVE  TL!Next \/ UNCHANGED TL!lifeVars
<1>1. TL!Ends(t) \/ UNCHANGED <<Stages, Sights>>
  BY StepAt, At, MappingStays DEF TL!Ends, TL!Goes, TL!Settled, Decided
<1>2. UNCHANGED <<Statuses, Histories, Requests>>
  BY MappingStays
<1>3. CASE mirror'[t] \in row[t].took
  <2>1. TL!Tell(t)
    BY <1>1, <1>2, <1>3, StepAt, At DEF TL!Tell
  <2> QED BY <2>1 DEF TL!Next, TL!TicketStep
<1>4. CASE mirror'[t] = mirror[t]
  <2>1. UNCHANGED mirror
    BY <1>4, MappingStays
  <2>2. TL!Finish(t) \/ UNCHANGED TL!lifeVars
    BY <1>1, <1>2, <2>1 DEF TL!Finish, TL!lifeVars
  <2> QED BY <2>2 DEF TL!Next, TL!TicketStep
<1> QED BY <1>3, <1>4

\* Stage at each place a run can be.
LEMMA StageAt ==
    ASSUME NEW t \in Ticket
    PROVE  /\ pc[t] = "none" => Stage(t) = "none"
           /\ pc[t] \in Waiting \cup {"start"} => Stage(t) = "waiting"
           /\ pc[t] \in {"publish", "reload"} => Stage(t) = "analysing"
           /\ pc[t] \in Comparing => Stage(t) = "deciding"
           /\ pc[t] \in {"mirror", "linkOnly"} => Stage(t) = "settling"
           /\ pc[t] = "done" => Stage(t) = "done"
           /\ pc[t] \in {"aborted", "skipped", "lost"} => Stage(t) = "given up"
<1>1. CASE pc[t] = "none"
  BY <1>1 DEF Stage, StageOf, Pc, Active, Waiting, Comparing, Deciding, Linked, Ended
<1>2. CASE pc[t] \in Waiting \cup {"start"}
  BY <1>2 DEF Stage, StageOf, Pc, Active, Waiting, Comparing, Deciding, Linked, Ended
<1>3. CASE pc[t] \in {"publish", "reload"}
  BY <1>3 DEF Stage, StageOf, Pc, Active, Waiting, Comparing, Deciding, Linked, Ended
<1>4. CASE pc[t] \in Comparing
  BY <1>4 DEF Stage, StageOf, Pc, Active, Waiting, Comparing, Deciding, Linked, Ended
<1>5. CASE pc[t] \in {"mirror", "linkOnly"}
  BY <1>5 DEF Stage, StageOf, Pc, Active, Waiting, Comparing, Deciding, Linked, Ended
<1>6. CASE pc[t] = "done"
  BY <1>6 DEF Stage, StageOf, Pc, Active, Waiting, Comparing, Deciding, Linked, Ended
<1>7. CASE pc[t] \in {"aborted", "skipped", "lost"}
  BY <1>7 DEF Stage, StageOf, Pc, Active, Waiting, Comparing, Deciding, Linked, Ended
<1> QED BY <1>1, <1>2, <1>3, <1>4, <1>5, <1>6, <1>7

LEMMA StageNext ==
    ASSUME NEW t \in Ticket
    PROVE  /\ pc'[t] = "none" => Stage(t)' = "none"
           /\ pc'[t] \in Waiting \cup {"start"} => Stage(t)' = "waiting"
           /\ pc'[t] \in {"publish", "reload"} => Stage(t)' = "analysing"
           /\ pc'[t] \in Comparing => Stage(t)' = "deciding"
           /\ pc'[t] \in {"mirror", "linkOnly"} => Stage(t)' = "settling"
           /\ pc'[t] = "done" => Stage(t)' = "done"
           /\ pc'[t] \in {"aborted", "skipped", "lost"} => Stage(t)' = "given up"
<1>1. (/\ pc[t] = "none" => Stage(t) = "none"
       /\ pc[t] \in Waiting \cup {"start"} => Stage(t) = "waiting"
       /\ pc[t] \in {"publish", "reload"} => Stage(t) = "analysing"
       /\ pc[t] \in Comparing => Stage(t) = "deciding"
       /\ pc[t] \in {"mirror", "linkOnly"} => Stage(t) = "settling"
       /\ pc[t] = "done" => Stage(t) = "done"
       /\ pc[t] \in {"aborted", "skipped", "lost"} => Stage(t) = "given up")'
  BY StageAt, PTL
<1> QED BY <1>1 DEF Waiting, Comparing, Deciding, Linked

-----------------------------------------------------------------------------
(* The steps of a run *)

\* What a step changes at most outside the row: mem, pc and GitHub at t.
LEMMA OutsideRow ==
    ASSUME PipelineInv, NEW t \in Ticket, RunStep(t), \A u \in Ticket \ {t} : row'[u] = row[u]
    PROVE  OthersSame(t)
<1>1. /\ pc \in [Ticket -> Pc] /\ mem \in [Ticket -> Copy] /\ goal \in [Ticket -> Status]
      /\ safe \in [Ticket -> BOOLEAN] /\ DOMAIN github = Ticket
      /\ mirror \in [Ticket -> Status \cup {"absent"}] /\ resolving \in [Ticket -> Nat]
  BY DEF PipelineInv, PipelineTypeOK
<1>2. CASE MarkAnalyzing(t) \/ PublishAlert(t) \/ Reload(t)
  BY <1>1, <1>2 DEF MarkAnalyzing, PublishAlert, Reload, StoreFails, Return, Move, ApiCall,
       storeVars, outsideVars, OthersSame, Same
<1>3. CASE NoDiagnosis(t) \/ Diagnosed(t) \/ Advise(t) \/ Suggest(t) \/ FixReady(t)
  BY <1>1, <1>3 DEF NoDiagnosis, Diagnosed, Advise, Suggest, FixReady, Move,
       storeVars, outsideVars, OthersSame, Same
<1>4. CASE StartFix(t) \/ FixStops(t)
  BY <1>1, <1>4 DEF StartFix, FixStops, Move, storeVars, outsideVars, OthersSame, Same
<1>5. CASE SyncDiagnosis(t) \/ MirrorPR(t) \/ Mirror(t)
  BY <1>1, <1>5 DEF SyncDiagnosis, MirrorPR, Mirror, Move, UpdateAlert, ApiCall, Continue, Return,
       storeVars, outsideVars, OthersSame, Same
<1>6. CASE CheckLimits(t)
  BY <1>1, <1>6 DEF CheckLimits, Continue, storeVars, outsideVars, OthersSame, Same
<1>7. CASE PushBranch(t)
  BY <1>1, <1>7 DEF PushBranch, GitHubFails, Continue, storeVars, OthersSame, Same
<1>8. CASE OpenPR(t)
  BY <1>1, <1>8 DEF OpenPR, GitHubFails, Continue, storeVars, OthersSame, Same
<1>9. CASE MergePR(t)
  BY <1>1, <1>9 DEF MergePR, GitHubFails, Continue, Return, storeVars, OthersSame, Same
<1>10. CASE Link(t) \/ LinkOnly(t) \/ Persist(t)
  BY <1>1, <1>10 DEF Link, LinkOnly, Persist, StoreFails, Continue, Return,
       storeVars, outsideVars, OthersSame, Same
<1> QED BY <1>2, <1>3, <1>4, <1>5, <1>6, <1>7, <1>8, <1>9, <1>10 DEF RunStep

\* The run goes from one place where it compares to another and shows nothing.
LEMMA Unseen ==
    ASSUME PipelineInv, PipelineInv', NEW t \in Ticket, OthersSame(t), row' = row, mem' = mem,
           pc[t] \in Comparing, pc'[t] \in Comparing, WorldStays(t)
    PROVE  UNCHANGED TL!lifeVars
<1>1. StatusStays(t)
  BY DEF StatusStays
<1>2. RunStays(t)
  BY StageAt, StageNext DEF RunStays, Seen, Comparing, Deciding, Linked
<1> QED BY <1>1, <1>2, Stutters

LEMMA QuietLife ==
    ASSUME PipelineInv, PipelineInv', NEW t \in Ticket,
           \/ NoDiagnosis(t) \/ Diagnosed(t) \/ Advise(t) \/ Suggest(t) \/ StartFix(t)
           \/ FixStops(t) \/ FixReady(t) \/ CheckLimits(t)
    PROVE  UNCHANGED TL!lifeVars
<1>1. RunStep(t)
  BY DEF RunStep
<1>2. /\ row' = row /\ mem' = mem /\ github' = github /\ mirror' = mirror
      /\ \E to \in Comparing : pc' = [pc EXCEPT ![t] = to]
      /\ pc[t] \in Comparing
  BY DEF NoDiagnosis, Diagnosed, Advise, Suggest, StartFix, FixStops, FixReady, CheckLimits, Move,
       Continue, storeVars, outsideVars, Comparing, Deciding, Linked
<1>3. pc'[t] \in Comparing
  BY <1>2 DEF PipelineInv, PipelineTypeOK
<1>4. WorldStays(t)
  BY <1>2 DEF WorldStays, PullRequest, HasPR
<1> QED BY <1>1, <1>2, <1>3, <1>4, OutsideRow, Unseen

LEMMA PushBranchLife ==
    ASSUME PipelineInv, PipelineInv', NEW t \in Ticket, PushBranch(t)
    PROVE  UNCHANGED TL!lifeVars
<1>1. RunStep(t) /\ DOMAIN github = Ticket /\ DOMAIN pc = Ticket
  BY DEF RunStep, PipelineInv, PipelineTypeOK
<1>2. /\ row' = row /\ mem' = mem /\ mirror' = mirror /\ pc[t] = "branch"
      /\ github'[t] \in {github[t], "branch"} /\ pc'[t] \in {"openPR", "giveUp"}
  BY <1>1 DEF PushBranch, GitHubFails, Continue, storeVars
<1>3. ~HasPR(t)
  BY <1>2 DEF PipelineInv, TicketInv, Linkage, Linked
<1>4. WorldStays(t)
  BY <1>2, <1>3 DEF WorldStays, PullRequest, HasPR
<1> QED BY <1>1, <1>2, <1>4, OutsideRow, Unseen DEF Comparing, Deciding

\* A statement failed and the run returned.
LEMMA StoreFailsLife ==
    ASSUME PipelineInv, PipelineInv', NEW t \in Ticket, pc[t] \in Active, RunStep(t),
           StoreFails(t), UNCHANGED outsideVars
    PROVE  TL!Next
<1>1. row' = row /\ github' = github /\ mirror' = mirror /\ Return(t, "aborted")
  BY DEF StoreFails, storeVars, outsideVars
<1>2. pc'[t] = "aborted"
  BY <1>1 DEF Return, PipelineInv, PipelineTypeOK
<1>3. OthersSame(t) /\ StatusStays(t) /\ WorldStays(t)
  BY <1>1, OutsideRow DEF StatusStays, WorldStays, PullRequest, HasPR
<1>4. Stage(t) \in {"waiting", "analysing", "deciding", "settling"}
  BY StageAt DEF Active, Comparing, Deciding, Linked
<1>5. Stage(t)' = "given up" /\ Seen(t)' = "none"
  BY <1>2, StageNext DEF Seen, Comparing, Deciding, Linked
<1> QED BY <1>3, <1>4, <1>5, GivesUp

LEMMA MarkAnalyzingLife ==
    ASSUME PipelineInv, PipelineInv', NEW t \in Ticket, MarkAnalyzing(t)
    PROVE  TL!Next
<1> DEFINE m == [mem[t] EXCEPT !.status = "analyzing"]
<1>0. pc[t] = "start" /\ pc[t] \in Active /\ RunStep(t) /\ UNCHANGED outsideVars
  BY DEF MarkAnalyzing, Active, RunStep
<1>1. CASE StoreFails(t)
  BY <1>0, <1>1, StoreFailsLife
<1>2. CASE Update(t, m) /\ pc' = [pc EXCEPT ![t] = "publish"]
  <2>1. m \in Copy /\ m.status = "analyzing" /\ m.status \in Status /\ StoreTypeOK
    BY DEF PipelineInv, PipelineTypeOK, Copy, Status, OpenStatus
  <2>2. Writes(t, "analyzing", m.pr, row[t].took \cup {"analyzing"})
    BY <1>2, <2>1, UpdateWrites
  <2>3. OthersSame(t)
    BY <1>0, <2>2, OutsideRow DEF Writes
  <2>4. pc'[t] = "publish"
    BY <1>2 DEF PipelineInv, PipelineTypeOK
  <2>5. Stage(t) = "waiting" /\ Stage(t)' = "analysing" /\ Seen(t)' = "none"
    BY <1>0, <2>4, StageAt, StageNext DEF Seen, Comparing, Deciding, Linked
  <2>6. UNCHANGED <<Requests, mirror>>
    BY <1>0, <2>3, MappingStays DEF outsideVars, PullRequest, HasPR
  <2>7. TL!Takes(t, "analyzing")
    BY <2>2, <2>3, StepAt, At DEF Writes, TL!Takes
  <2>8. TL!Analyse(t)
    BY <2>3, <2>5, <2>6, <2>7, StepAt, At DEF TL!Analyse, TL!Goes
  <2> QED BY <2>8 DEF TL!Next, TL!TicketStep
<1> QED BY <1>1, <1>2 DEF MarkAnalyzing

\* A call to mctl-api tells what it is given, or nothing.
LEMMA ToldOrNot ==
    ASSUME PipelineInv, NEW t \in Ticket, NEW s \in row[t].took, ApiCall(t, s) \/ UpdateAlert(t, s)
    PROVE  mirror'[t] \in row[t].took \cup {mirror[t]}
BY DEF UpdateAlert, ApiCall, Known, PipelineInv, PipelineTypeOK

LEMMA PublishAlertLife ==
    ASSUME PipelineInv, PipelineInv', NEW t \in Ticket, PublishAlert(t)
    PROVE  TL!Next \/ UNCHANGED TL!lifeVars
<1>1. /\ RunStep(t) /\ pc[t] = "publish" /\ pc'[t] = "reload"
      /\ row' = row /\ github' = github /\ ApiCall(t, mem[t].status)
  BY DEF PublishAlert, RunStep, Move, storeVars, PipelineInv, PipelineTypeOK
<1>2. mem[t].status \in row[t].took
  BY <1>1 DEF PipelineInv, TicketInv, History
<1>3. RunStays(t)
  BY <1>1, StageAt, StageNext DEF RunStays, Seen, Comparing, Deciding, Linked
<1>4. OthersSame(t) /\ StatusStays(t) /\ PullRequest(t)' = PullRequest(t)
  BY <1>1, OutsideRow DEF StatusStays, PullRequest, HasPR
<1> QED BY <1>1, <1>2, <1>3, <1>4, ToldOrNot, TellsHeld

LEMMA ReloadLife ==
    ASSUME PipelineInv, PipelineInv', NEW t \in Ticket, Reload(t)
    PROVE  TL!Next
<1>0. pc[t] = "reload" /\ pc[t] \in Active /\ RunStep(t) /\ UNCHANGED outsideVars
  BY DEF Reload, Active, RunStep
<1>1. CASE StoreFails(t)
  BY <1>0, <1>1, StoreFailsLife
<1>2. CASE /\ mem' = [mem EXCEPT ![t] = Get(t)]
           /\ pc' = [pc EXCEPT ![t] = "diagnose"] /\ UNCHANGED storeVars
  <2>1. row' = row /\ mem'[t].status = row[t].status /\ pc'[t] = "diagnose"
    BY <1>2 DEF storeVars, Get, PipelineInv, PipelineTypeOK
  <2>2. OthersSame(t) /\ StatusStays(t)
    BY <1>0, <2>1, OutsideRow DEF StatusStays
  <2>3. UNCHANGED <<Statuses, Histories, Requests, mirror>>
    BY <1>0, <2>2, MappingStays DEF outsideVars, PullRequest, HasPR
  <2>4. Stage(t) = "analysing" /\ Stage(t)' = "deciding" /\ Seen(t)' = row[t].status
    BY <1>0, <2>1, StageAt, StageNext DEF Seen, Comparing, Deciding
  <2>5. TL!Read(t)
    BY <2>2, <2>3, <2>4, StepAt, At DEF TL!Read, TL!Goes
  <2> QED BY <2>5 DEF TL!Next, TL!TicketStep
<1> QED BY <1>1, <1>2 DEF Reload

LEMMA SyncDiagnosisLife ==
    ASSUME PipelineInv, PipelineInv', NEW t \in Ticket, SyncDiagnosis(t)
    PROVE  TL!Next \/ UNCHANGED TL!lifeVars
<1>1. /\ RunStep(t) /\ pc[t] = "sync" /\ pc'[t] = "route"
      /\ row' = row /\ mem' = mem /\ github' = github /\ UpdateAlert(t, mem[t].status)
  BY DEF SyncDiagnosis, RunStep, Move, storeVars, PipelineInv, PipelineTypeOK
<1>2. mem[t].status \in row[t].took
  BY <1>1 DEF PipelineInv, TicketInv, History, Deciding
<1>3. RunStays(t)
  BY <1>1, StageAt, StageNext DEF RunStays, Seen, Comparing, Deciding
<1>4. OthersSame(t) /\ StatusStays(t) /\ PullRequest(t)' = PullRequest(t)
  BY <1>1, OutsideRow DEF StatusStays, PullRequest, HasPR
<1> QED BY <1>1, <1>2, <1>3, <1>4, ToldOrNot, TellsHeld

LEMMA OpenPRLife ==
    ASSUME PipelineInv, PipelineInv', NEW t \in Ticket, OpenPR(t)
    PROVE  TL!Next \/ UNCHANGED TL!lifeVars
<1>1. /\ RunStep(t) /\ pc[t] = "openPR" /\ pc'[t] \in {"link", "giveUp"}
      /\ row' = row /\ mirror' = mirror /\ github'[t] \in {github[t], "open"}
      /\ mem'[t].status = mem[t].status
  BY DEF OpenPR, RunStep, GitHubFails, Continue, storeVars, PipelineInv, PipelineTypeOK, Copy
<1>2. OthersSame(t) /\ StatusStays(t)
  BY <1>1, OutsideRow DEF StatusStays
<1>3. RunStays(t) /\ Stage(t) = "deciding"
  BY <1>1, StageAt, StageNext DEF RunStays, Seen, Comparing, Deciding, Linked
<1>4. ~HasPR(t)
  BY <1>1 DEF PipelineInv, TicketInv, Linkage, Linked
<1>5. CASE github'[t] = github[t]
  BY <1>1, <1>2, <1>3, <1>5, Stutters DEF WorldStays, PullRequest, HasPR
<1>6. CASE github'[t] = "open"
  <2>1. PullRequest(t) = "none" /\ PullRequest(t)' = "open"
    BY <1>4, <1>6 DEF PullRequest, HasPR
  <2>2. UNCHANGED <<Statuses, Histories, Stages, Sights, mirror>>
    BY <1>1, <1>2, <1>3, MappingStays
  <2>3. TL!Request(t)
    BY <1>2, <1>3, <2>1, <2>2, StepAt, At DEF TL!Request
  <2> QED BY <2>3 DEF TL!Next, TL!TicketStep
<1> QED BY <1>1, <1>5, <1>6

\* The row took the status the run wanted, from the one the run had seen.
LEMMA Decides ==
    ASSUME PipelineInv, PipelineInv', NEW t \in Ticket, OthersSame(t), NEW s,
           row'[t].status = s, row'[t].took = row[t].took \cup {s}, WorldStays(t),
           pc[t] \in Comparing, mem[t].status = row[t].status,
           \/ mem[t].status # "fix_proposed" /\ s \in {"escalated", "fix_proposed"}
           \/ mem[t].status = "fix_proposed" /\ s = "fix_applied" /\ github[t] = "automerged",
           \/ pc'[t] \in Comparing /\ mem'[t].status = s
           \/ pc'[t] \in {"mirror", "linkOnly"}
    PROVE  TL!Next
<1>1. Stage(t) = "deciding" /\ Seen(t) = mem[t].status
  BY StageAt DEF Seen
<1>2. TL!Takes(t, s)
  BY StepAt, At DEF TL!Takes
<1>3. TL!Goes(t, "deciding", s) \/ TL!Goes(t, "settling", "none")
  <2>1. CASE pc'[t] \in Comparing /\ mem'[t].status = s
    BY <2>1, StageNext, StepAt DEF Seen, TL!Goes
  <2>2. CASE pc'[t] \in {"mirror", "linkOnly"}
    BY <2>2, StageNext, StepAt DEF Seen, TL!Goes, Comparing, Deciding, Linked
  <2> QED BY <2>1, <2>2
<1>4. s \in TL!Follow(t)
  BY <1>1, At DEF TL!Follow, PullRequest, HasPR
<1>5. UNCHANGED <<Requests, mirror>>
  BY MappingStays DEF WorldStays
<1>6. TL!Decide(t)
  BY <1>1, <1>2, <1>3, <1>4, <1>5, At DEF TL!Decide
<1> QED BY <1>6 DEF TL!Next, TL!TicketStep

LEMMA LinkLife ==
    ASSUME PipelineInv, PipelineInv', NEW t \in Ticket, Link(t)
    PROVE  TL!Next
<1>0. /\ pc[t] = "link" /\ pc[t] \in Active /\ pc[t] \in Comparing /\ RunStep(t)
      /\ UNCHANGED outsideVars
  BY DEF Link, Active, RunStep, Comparing
<1>1. CASE StoreFails(t)
  BY <1>0, <1>1, StoreFailsLife
<1>2. CASE /\ RecordPRLinkage(t, mem[t].status, goal[t], mem[t].pr)
           /\ mem' = [mem EXCEPT ![t].status = goal[t]]
           /\ pc' = [pc EXCEPT ![t] = IF row[t].status = mem[t].status
                                      THEN "mirrorPR" ELSE "linkOnly"]
  <2>1. /\ goal[t] \in Status /\ mem[t].pr \in BOOLEAN /\ StoreTypeOK
        /\ mem'[t].status = goal[t]
    BY <1>2 DEF PipelineInv, PipelineTypeOK, Copy
  <2>2. /\ goal[t] \in {"fix_proposed", "fix_applied"}
        /\ goal[t] = "fix_applied" => Follows(t, "fix_proposed") /\ github[t] = "automerged"
        /\ goal[t] = "fix_proposed" => \/ Follows(t, "analyzing")
                                       \/ mem[t].status = "resolved" /\ row[t].status = "resolved"
    BY <1>0 DEF PipelineInv, TicketInv, Progress, Merged
  <2>3. /\ \A u \in Ticket \ {t} : row'[u] = row[u]
        /\ row[t].status = mem[t].status =>
             row'[t].status = goal[t] /\ row'[t].took = row[t].took \cup {goal[t]}
        /\ row[t].status # mem[t].status => row' = row
    <3>1. RecordPRLinkage(t, mem[t].status, goal[t], mem[t].pr)
      BY <1>2
    <3>2. IF row[t].status = mem[t].status
          THEN Writes(t, goal[t], mem[t].pr, row[t].took \cup {goal[t]})
          ELSE row' = row
      BY <2>1, <3>1, LinkageWrites
    <3> QED BY <3>2 DEF Writes
  <2>4. OthersSame(t)
    BY <1>0, <2>3, OutsideRow
  <2>5. WorldStays(t)
    BY <1>0 DEF WorldStays, outsideVars, PullRequest, HasPR
  <2>6. CASE row[t].status = mem[t].status
    <3>1. pc'[t] \in Comparing
      BY <1>2, <2>6 DEF PipelineInv, PipelineTypeOK, Comparing, Linked
    <3> QED BY <1>0, <2>1, <2>2, <2>3, <2>4, <2>5, <2>6, <3>1, Decides DEF Follows
  <2>7. CASE row[t].status # mem[t].status
    <3>1. pc'[t] = "linkOnly"
      BY <1>2, <2>7 DEF PipelineInv, PipelineTypeOK
    <3>2. row[t].status = "resolved" /\ mem[t].status # "resolved"
      BY <2>2, <2>7 DEF Follows
    <3>3. Stage(t) = "deciding" /\ Seen(t) = mem[t].status
      BY <1>0, StageAt DEF Seen
    <3>4. Stage(t)' = "settling" /\ Seen(t)' = "none"
      BY <3>1, StageNext DEF Seen, Comparing, Deciding, Linked
    <3>5. UNCHANGED <<Statuses, Histories, Requests, mirror>>
      BY <2>3, <2>4, <2>5, <2>7, MappingStays DEF StatusStays, WorldStays
    <3>6. TL!Yield(t)
      BY <2>4, <3>2, <3>3, <3>4, <3>5, StepAt, At DEF TL!Yield, TL!Goes
    <3> QED BY <3>6 DEF TL!Next, TL!TicketStep
  <2> QED BY <2>6, <2>7
<1> QED BY <1>1, <1>2 DEF Link

\* The run of a decided ticket is over.
LEMMA Finishes ==
    ASSUME PipelineInv, PipelineInv', NEW t \in Ticket, OthersSame(t), StatusStays(t),
           PullRequest(t)' = PullRequest(t), mirror'[t] \in row[t].took \cup {mirror[t]},
           pc[t] \in Comparing \cup {"mirror", "linkOnly"}, row[t].status \in Decided,
           pc'[t] = "done"
    PROVE  TL!Next \/ UNCHANGED TL!lifeVars
<1>1. Stage(t) \in {"deciding", "settling"}
  BY StageAt
<1>2. Stage(t)' = "done" /\ Seen(t)' = "none"
  BY StageNext DEF Seen, Comparing, Deciding, Linked
<1> QED BY <1>1, <1>2, TellsHeld

LEMMA LinkOnlyLife ==
    ASSUME PipelineInv, PipelineInv', NEW t \in Ticket, LinkOnly(t)
    PROVE  TL!Next \/ UNCHANGED TL!lifeVars
<1>0. pc[t] = "linkOnly" /\ pc[t] \in Active /\ RunStep(t) /\ UNCHANGED outsideVars
  BY DEF LinkOnly, Active, RunStep
<1>1. CASE StoreFails(t)
  BY <1>0, <1>1, StoreFailsLife
<1>2. CASE RecordPRCoordinates(t, mem[t].pr) /\ Return(t, "done")
  <2>1. mem[t].pr \in BOOLEAN /\ StoreTypeOK /\ pc'[t] = "done"
    BY <1>2 DEF PipelineInv, PipelineTypeOK, Copy, Return
  <2>2. Writes(t, row[t].status, mem[t].pr, row[t].took)
    BY <1>2, <2>1, CoordinatesWrites
  <2>3. OthersSame(t) /\ StatusStays(t)
    BY <1>0, <2>2, OutsideRow DEF Writes, StatusStays
  <2>4. PullRequest(t)' = PullRequest(t) /\ mirror'[t] = mirror[t]
    BY <1>0 DEF outsideVars, PullRequest, HasPR
  <2>5. row[t].status \in Decided
    BY <1>0 DEF PipelineInv, TicketInv, Progress
  <2> QED BY <1>0, <2>1, <2>3, <2>4, <2>5, Finishes
<1> QED BY <1>1, <1>2 DEF LinkOnly

LEMMA MirrorPRLife ==
    ASSUME PipelineInv, PipelineInv', NEW t \in Ticket, MirrorPR(t)
    PROVE  TL!Next \/ UNCHANGED TL!lifeVars
<1>1. /\ RunStep(t) /\ pc[t] = "mirrorPR" /\ pc[t] \in Comparing
      /\ row' = row /\ github' = github /\ UpdateAlert(t, mem[t].status)
  BY DEF MirrorPR, RunStep, storeVars, Comparing, Linked
<1>2. mem[t].status \in row[t].took /\ row[t].status \in Decided
  BY <1>1 DEF PipelineInv, TicketInv, History, Progress, Linked, Follows, Decided
<1>3. OthersSame(t) /\ StatusStays(t) /\ PullRequest(t)' = PullRequest(t)
  BY <1>1, OutsideRow DEF StatusStays, PullRequest, HasPR
<1>4. CASE Continue(t, "merge")
  <2>1. mem' = mem /\ pc'[t] = "merge" /\ pc'[t] \in Comparing
    BY <1>4 DEF Continue, PipelineInv, PipelineTypeOK, Comparing, Linked
  <2>2. RunStays(t)
    BY <1>1, <2>1, StageAt, StageNext DEF RunStays, Seen
  <2> QED BY <1>1, <1>2, <1>3, <2>2, ToldOrNot, TellsHeld
<1>5. CASE Return(t, "done")
  <2>1. pc'[t] = "done"
    BY <1>5 DEF Return, PipelineInv, PipelineTypeOK
  <2> QED BY <1>1, <1>2, <1>3, <2>1, ToldOrNot, Finishes
<1> QED BY <1>4, <1>5 DEF MirrorPR

LEMMA MirrorLife ==
    ASSUME PipelineInv, PipelineInv', NEW t \in Ticket, Mirror(t)
    PROVE  TL!Next \/ UNCHANGED TL!lifeVars
<1>1. /\ RunStep(t) /\ pc[t] = "mirror" /\ pc'[t] = "done"
      /\ row' = row /\ github' = github /\ UpdateAlert(t, goal[t])
  BY DEF Mirror, RunStep, Return, storeVars, PipelineInv, PipelineTypeOK
<1>2. goal[t] \in row[t].took /\ row[t].status \in Decided
  BY <1>1 DEF PipelineInv, TicketInv, History, Progress
<1>3. OthersSame(t) /\ StatusStays(t) /\ PullRequest(t)' = PullRequest(t)
  BY <1>1, OutsideRow DEF StatusStays, PullRequest, HasPR
<1> QED BY <1>1, <1>2, <1>3, ToldOrNot, Finishes

LEMMA MergePRLife ==
    ASSUME PipelineInv, PipelineInv', NEW t \in Ticket, MergePR(t)
    PROVE  TL!Next \/ UNCHANGED TL!lifeVars
<1>1. /\ RunStep(t) /\ pc[t] = "merge" /\ pc[t] \in Comparing
      /\ row' = row /\ mirror' = mirror
      /\ github'[t] = github[t] \/ (github[t] = "open" /\ github'[t] = "automerged")
      /\ (Continue(t, "link") /\ github'[t] = "automerged") \/ Return(t, "done")
  BY DEF MergePR, GitHubFails, RunStep, storeVars, Comparing, Linked, PipelineInv, PipelineTypeOK
<1>2. OthersSame(t) /\ StatusStays(t)
  BY <1>1, OutsideRow DEF StatusStays
<1>3. "fix_proposed" \in row[t].took /\ row[t].status \in Decided
  BY <1>1 DEF PipelineInv, TicketInv, Merged, Progress, Linked, Follows, Decided
<1>4. \/ mem' = mem /\ pc'[t] = "link" /\ pc'[t] \in Comparing /\ github'[t] = "automerged"
      \/ pc'[t] = "done"
  BY <1>1 DEF Continue, Return, PipelineInv, PipelineTypeOK, Comparing
<1>5. github[t] # "automerged"
  BY <1>1 DEF PipelineInv, TicketInv, Merged
<1>6. CASE github'[t] = github[t]
  BY <1>1, <1>2, <1>3, <1>4, <1>5, <1>6, Finishes DEF PullRequest, HasPR
<1>7. CASE github[t] = "open" /\ github'[t] = "automerged"
  <2>1. PullRequest(t) = "open" /\ PullRequest(t)' = "automerged" /\ Stage(t) = "deciding"
    BY <1>1, <1>7, StageAt DEF PullRequest, HasPR
  <2>2. UNCHANGED <<Statuses, Histories, mirror>>
    BY <1>1, <1>2, MappingStays
  <2>3. TL!Ends(t) \/ UNCHANGED <<Stages, Sights>>
    <3>1. CASE mem' = mem /\ pc'[t] = "link" /\ pc'[t] \in Comparing
      BY <1>1, <1>2, <3>1, StageAt, StageNext, MappingStays DEF RunStays, Seen
    <3>2. CASE pc'[t] = "done"
      <4>1. Stage(t)' = "done" /\ Seen(t)' = "none"
        BY <3>2, StageNext DEF Seen, Comparing, Deciding, Linked
      <4> QED BY <1>2, <1>3, <2>1, <4>1, StepAt, At DEF TL!Ends, TL!Goes, TL!Settled, Decided
    <3> QED BY <1>4, <3>1, <3>2
  <2>4. TL!Merge(t)
    BY <1>2, <1>3, <2>1, <2>2, <2>3, StepAt, At DEF TL!Merge
  <2> QED BY <2>4 DEF TL!Next, TL!TicketStep
<1> QED BY <1>1, <1>6, <1>7

LEMMA PersistLife ==
    ASSUME PipelineInv, PipelineInv', NEW t \in Ticket, Persist(t)
    PROVE  TL!Next \/ UNCHANGED TL!lifeVars
<1>0. /\ pc[t] \in {"persist", "giveUp"} /\ pc[t] \in Active /\ pc[t] \in Comparing
      /\ RunStep(t) /\ UNCHANGED outsideVars
  BY DEF Persist, Active, RunStep, Comparing, Deciding
<1>1. CASE StoreFails(t)
  BY <1>0, <1>1, StoreFailsLife
<1>2. CASE /\ SetDiagnosisFromStatus(t, mem[t].status, goal[t])
           /\ IF row[t].status = mem[t].status THEN Continue(t, "mirror") ELSE Return(t, "done")
  <2>1. goal[t] \in Status /\ StoreTypeOK
    BY DEF PipelineInv, PipelineTypeOK
  <2>2. /\ goal[t] \in {"escalated", "fix_proposed"}
        /\ \/ Follows(t, "analyzing")
           \/ mem[t].status = "resolved" /\ row[t].status = "resolved"
    BY <1>0 DEF PipelineInv, TicketInv, Progress, Deciding
  <2>3. /\ \A u \in Ticket \ {t} : row'[u] = row[u]
        /\ row[t].status = mem[t].status =>
             row'[t].status = goal[t] /\ row'[t].took = row[t].took \cup {goal[t]}
        /\ row[t].status # mem[t].status => row' = row
    BY <1>2, <2>1, DiagnosisWrites DEF Writes
  <2>4. OthersSame(t) /\ WorldStays(t)
    BY <1>0, <2>3, OutsideRow DEF WorldStays, outsideVars, PullRequest, HasPR
  <2>5. CASE row[t].status = mem[t].status
    <3>1. pc'[t] = "mirror"
      BY <1>2, <2>5 DEF Continue, PipelineInv, PipelineTypeOK
    <3>2. mem[t].status # "fix_proposed"
      BY <2>2 DEF Follows
    <3> QED BY <1>0, <2>2, <2>3, <2>4, <2>5, <3>1, <3>2, Decides
  <2>6. CASE row[t].status # mem[t].status
    <3>1. pc'[t] = "done"
      BY <1>2, <2>6 DEF Return, PipelineInv, PipelineTypeOK
    <3>2. row[t].status \in Decided
      BY <2>2, <2>6 DEF Follows, Decided
    <3> QED BY <1>0, <2>3, <2>4, <2>6, <3>1, <3>2, Finishes DEF StatusStays, WorldStays
  <2> QED BY <2>5, <2>6
<1> QED BY <1>1, <1>2 DEF Persist

LEMMA RunLife ==
    ASSUME PipelineInv, PipelineInv', NEW t \in Ticket, RunStep(t)
    PROVE  TL!Next \/ UNCHANGED TL!lifeVars
BY QuietLife, PushBranchLife, MarkAnalyzingLife, PublishAlertLife, ReloadLife, SyncDiagnosisLife,
   OpenPRLife, LinkLife, LinkOnlyLife, MirrorPRLife, MirrorLife, MergePRLife, PersistLife
   DEF RunStep

-----------------------------------------------------------------------------
(* Entering the pipeline, and everybody else *)

LEMMA EnterLife ==
    ASSUME PipelineInv, PipelineInv', NEW t \in Ticket, ProcessTicket(t) \/ AcquireSem(t)
    PROVE  TL!Next \/ UNCHANGED TL!lifeVars
<1>1. /\ row' = row /\ mem' = mem /\ github' = github /\ mirror' = mirror
      /\ pc[t] \in Waiting /\ pc'[t] \in {"skipped", "queued", "start"}
      /\ OthersSame(t)
  BY DEF ProcessTicket, AcquireSem, Move, storeVars, outsideVars, Waiting, OthersSame, Same,
         PipelineInv, PipelineTypeOK
<1>2. StatusStays(t) /\ WorldStays(t)
  BY <1>1 DEF StatusStays, WorldStays, PullRequest, HasPR
<1>3. Stage(t) = "waiting" /\ Seen(t) = "none" /\ Seen(t)' = "none"
  BY <1>1, StageAt DEF Seen, Waiting, Comparing, Deciding, Linked
<1>4. CASE pc'[t] = "skipped"
  BY <1>1, <1>2, <1>3, <1>4, StageNext, GivesUp
<1>5. CASE pc'[t] \in {"queued", "start"}
  BY <1>1, <1>2, <1>3, <1>5, StageNext, Stutters DEF RunStays, Waiting
<1> QED BY <1>1, <1>4, <1>5

LEMMA NewTicketLife ==
    ASSUME PipelineInv, PipelineInv', NEW src \in Source, NEW k \in Key, NEW F \in SUBSET Fp,
           NewTicket(src, k, F)
    PROVE  TL!Next
<1>0. created + 1 \in Ticket /\ Writes(created + 1, "open", FALSE, {"open"})
  BY InsertWrites DEF NewTicket, PipelineInv, PipelineTypeOK
<1>a. PICK t \in Ticket : t = created + 1
  BY <1>0
<1>1. Writes(t, "open", FALSE, {"open"})
  BY <1>0, <1>a
<1>2. t > created
  BY <1>a, StoreAssumption DEF PipelineInv, PipelineTypeOK, StoreTypeOK
<1>3. /\ pc' = [pc EXCEPT ![t] = "created"] /\ github' = github /\ mirror' = mirror
      /\ \A u \in Ticket \ {t} : mem'[u] = mem[u]
      /\ UNCHANGED <<goal, safe, resolving>>
  BY <1>a DEF NewTicket, outsideVars, PipelineInv, PipelineTypeOK
<1>4. pc'[t] = "created" /\ \A u \in Ticket \ {t} : pc'[u] = pc[u]
  BY <1>1, <1>3 DEF PipelineInv, PipelineTypeOK
<1>5. OthersSame(t)
  BY <1>1, <1>3, <1>4 DEF Writes, OthersSame, Same
<1>6. pc[t] = "none" /\ row[t].took = {}
  BY <1>1, <1>2 DEF PipelineInv, TicketInv, Fresh
<1>7. Stage(t) = "none" /\ Stage(t)' = "waiting" /\ Seen(t)' = "none"
  BY <1>1, <1>4, <1>6, StageAt, StageNext DEF Seen, Waiting, Comparing, Deciding, Linked
<1>8. UNCHANGED <<Requests, mirror>>
  BY <1>1, <1>3, <1>5, MappingStays DEF PullRequest, HasPR
<1>9. TL!Takes(t, "open")
  BY <1>1, <1>5, <1>6, StepAt, At DEF Writes, TL!Takes
<1>10. TL!Open(t)
  BY <1>1, <1>5, <1>7, <1>8, <1>9, StepAt, At DEF TL!Open, TL!Goes
<1> QED BY <1>1, <1>10 DEF TL!Next, TL!TicketStep

\* A write to a row that keeps its status.
LEMMA WriteLife ==
    ASSUME PipelineInv, PipelineInv', NEW t \in Ticket,
           Writes(t, row[t].status, row[t].pr, row[t].took), UNCHANGED <<runVars, outsideVars>>
    PROVE  UNCHANGED TL!lifeVars
<1>1. UNCHANGED <<pc, mem, goal, safe, github, mirror, resolving>>
  BY DEF runVars, outsideVars
<1>2. OthersSame(t) /\ StatusStays(t)
  BY <1>1 DEF Writes, OthersSame, Same, StatusStays
<1>3. RunStays(t) /\ WorldStays(t)
  BY <1>1 DEF RunStays, WorldStays, Stage, Seen, PullRequest, HasPR
<1> QED BY <1>2, <1>3, Stutters

LEMMA ResolvedLife ==
    ASSUME PipelineInv, NEW S \in SUBSET ListOpen, NEW told \in SUBSET S, Resolved(S, told)
    PROVE  TL!Next
<1>1. ResolveRows(S) /\ S \in SUBSET Ticket /\ UNCHANGED <<pc, mem, github, mirror>>
  BY ExistingTickets DEF Resolved, ListOpen, Others, runVars
<1>2. /\ \A t \in Ticket \ S : row'[t] = row[t]
      /\ \A t \in S : row'[t].status = "resolved" /\ row'[t].took = row[t].took \cup {"resolved"}
  BY <1>1, ResolveWrites DEF PipelineInv, PipelineTypeOK
<1>3. UNCHANGED <<Stages, Sights, Requests, mirror>>
  BY <1>1 DEF Stages, Stage, Sights, Seen, Requests, PullRequest, HasPR
<1>4. Statuses' = [t \in Ticket |-> IF t \in S THEN "resolved" ELSE Statuses[t]]
  BY <1>2 DEF Statuses
<1>5. Histories' = [t \in Ticket |-> IF t \in S THEN Histories[t] \cup {"resolved"} ELSE Histories[t]]
  BY <1>2 DEF Histories
<1>6. \A t \in S : Statuses[t] \in TL!Unresolved
  BY <1>1 DEF ListOpen, OpenStatus, Statuses, TL!Unresolved
<1>7. TL!Resolve(S)
  BY <1>3, <1>4, <1>5, <1>6 DEF TL!Resolve
<1> QED BY <1>1, <1>7 DEF TL!Next

LEMMA DeliverResolveLife ==
    ASSUME PipelineInv, PipelineInv', NEW t \in Ticket, DeliverResolve(t)
    PROVE  TL!Next \/ UNCHANGED TL!lifeVars
<1>1. /\ UNCHANGED <<row, pc, mem, goal, safe, github>> /\ UpdateAlert(t, "resolved")
      /\ resolving[t] > 0
  BY DEF DeliverResolve, storeVars, runVars
<1>2. "resolved" \in row[t].took
  BY <1>1 DEF PipelineInv, TicketInv, History
<1>3. \A u \in Ticket \ {t} : mirror'[u] = mirror[u] /\ resolving'[u] = resolving[u]
  BY DEF DeliverResolve, UpdateAlert, ApiCall, PipelineInv, PipelineTypeOK
<1>4. OthersSame(t) /\ StatusStays(t) /\ PullRequest(t)' = PullRequest(t) /\ RunStays(t)
  BY <1>1, <1>3 DEF OthersSame, Same, StatusStays, RunStays, Stage, Seen, PullRequest, HasPR
<1> QED BY <1>1, <1>2, <1>4, ToldOrNot, TellsHeld

LEMMA ReviewLife ==
    ASSUME PipelineInv, PipelineInv', NEW t \in Ticket, Review(t)
    PROVE  TL!Next
<1>1. PICK s \in {"merged", "closed"} : github' = [github EXCEPT ![t] = s]
  BY DEF Review
<1>2. /\ github[t] = "open" /\ github'[t] = s /\ \A u \in Ticket \ {t} : github'[u] = github[u]
      /\ UNCHANGED <<row, pc, mem, goal, safe, mirror, resolving>>
  BY <1>1 DEF Review, Others, runVars, storeVars, PipelineInv, PipelineTypeOK
<1>3. OthersSame(t) /\ StatusStays(t) /\ RunStays(t)
  BY <1>2 DEF OthersSame, Same, StatusStays, RunStays, Stage, Seen
<1>4. PullRequest(t) = "open" /\ PullRequest(t)' = s
  BY <1>2 DEF PullRequest, HasPR
<1>5. UNCHANGED <<Statuses, Histories, Stages, Sights, mirror>>
  BY <1>2, <1>3, MappingStays
<1>6. TL!Review(t)
  BY <1>3, <1>4, <1>5, StepAt, At DEF TL!Review
<1> QED BY <1>6 DEF TL!Next, TL!TicketStep

LEMMA CrashLife ==
    ASSUME PipelineInv, LoseRuns
    PROVE  TL!Next
<1> DEFINE S == {t \in Ticket : Running(t)}
<1>1. /\ \A t \in Ticket : pc'[t] = IF Running(t) THEN "lost" ELSE pc[t]
      /\ UNCHANGED <<row, github, mirror>>
  BY DEF LoseRuns, storeVars
<1>2. ASSUME NEW t \in S
      PROVE  /\ Stages[t] \in {"waiting", "analysing", "deciding", "settling"}
             /\ Stage(t)' = "given up" /\ Seen(t)' = "none"
  <2>1. pc[t] \in Waiting \cup Active /\ pc'[t] = "lost"
    BY <1>1 DEF Running
  <2> QED BY <2>1, StageAt, StageNext, At DEF Active, Seen, Comparing, Deciding, Linked
<1>3. ASSUME NEW t \in Ticket \ S
      PROVE  Stage(t)' = Stage(t) /\ Seen(t)' = Seen(t)
  <2>1. pc'[t] = pc[t] /\ pc[t] \notin Active
    BY <1>1 DEF Running
  <2> QED BY <2>1 DEF Stage, Seen, Active, Comparing, Deciding, Linked
<1>4. Stages' = [t \in Ticket |-> IF t \in S THEN "given up" ELSE Stages[t]]
  BY <1>2, <1>3 DEF Stages
<1>5. Sights' = [t \in Ticket |-> IF t \in S THEN "none" ELSE Sights[t]]
  BY <1>2, <1>3 DEF Sights
<1>6. UNCHANGED <<Statuses, Histories, Requests, mirror>>
  BY <1>1 DEF Statuses, Histories, Requests, PullRequest, HasPR
<1>7. TL!GiveUp(S)
  BY <1>2, <1>4, <1>5, <1>6 DEF TL!GiveUp
<1> QED BY <1>7 DEF TL!Next

LEMMA EnvironmentLife ==
    ASSUME PipelineInv, PipelineInv', Environment
    PROVE  TL!Next \/ UNCHANGED TL!lifeVars
<1>1. CASE Touched
  <2>1. PICK t \in Existing, F \in SUBSET Fp : TouchWithFingerprint(t, F)
    BY <1>1 DEF Touched
  <2>2. UNCHANGED <<runVars, outsideVars>> /\ t \in Ticket /\ StoreTypeOK
    BY <1>1, ExistingTickets DEF Touched, Others, PipelineInv, PipelineTypeOK
  <2> QED BY <2>1, <2>2, TouchWrites, WriteLife
<1>2. CASE Clock
  <2>1. PICK t \in Existing : Grow(t, pc[t] \in Active) \/ CooldownEnds(t)
    BY <1>2 DEF Clock
  <2>2. UNCHANGED <<runVars, outsideVars>> /\ t \in Ticket /\ StoreTypeOK
    BY <1>2, ExistingTickets DEF Clock, Others, PipelineInv, PipelineTypeOK
  <2> DEFINE b == pc[t] \in Active
  <2>3. b \in BOOLEAN /\ (Grow(t, b) \/ CooldownEnds(t))
    BY <2>1
  <2> HIDE DEF b
  <2> QED BY <2>2, <2>3, ClockWrites, WriteLife
<1>3. CASE Pause \/ Resume
  <2>1. UNCHANGED <<row, pc, mem, github, mirror>>
    BY <1>3 DEF Pause, Resume, storeVars, runVars, outsideVars
  <2> QED BY <2>1 DEF TL!lifeVars, Statuses, Histories, Stages, Stage, Sights, Seen, Requests,
                      PullRequest, HasPR
<1>4. CASE \E src \in Source, k \in Key, F \in SUBSET Fp : NewTicket(src, k, F)
  BY <1>4, NewTicketLife
<1>5. CASE \E S \in (SUBSET ListOpen) \ {{}} : Resolved(S, S) \/ ("store" \in Faults /\ Resolved(S, {}))
  <2>1. PICK S \in SUBSET ListOpen : Resolved(S, S) \/ Resolved(S, {})
    BY <1>5
  <2>2. S \in SUBSET S /\ {} \in SUBSET S
    OBVIOUS
  <2> QED BY <2>1, <2>2, ResolvedLife
<1>6. CASE \E t \in Ticket : DeliverResolve(t) \/ Review(t)
  BY <1>6, DeliverResolveLife, ReviewLife
<1>7. CASE Crash
  BY <1>7, CrashLife DEF Crash
<1> QED BY <1>1, <1>2, <1>3, <1>4, <1>5, <1>6, <1>7 DEF Environment, Surroundings

-----------------------------------------------------------------------------
(* The theorem *)

LEMMA InitLife == PipelineInit => TL!Init
<1> SUFFICES ASSUME PipelineInit PROVE TL!Init
  OBVIOUS
<1>1. /\ row = [t \in Ticket |-> NoRow] /\ NoRow.status = "none" /\ NoRow.took = {}
      /\ pc = [t \in Ticket |-> "none"] /\ github = [t \in Ticket |-> "none"]
      /\ mirror = [t \in Ticket |-> "absent"]
  BY DEF PipelineInit, StoreInit, RunInit, NoRow
<1>2. ASSUME NEW t \in Ticket
      PROVE  Stage(t) = "none" /\ Seen(t) = "none" /\ PullRequest(t) = "none"
  BY <1>1, StageAt DEF Seen, Comparing, Deciding, Linked, PullRequest, HasPR
<1> QED BY <1>1, <1>2 DEF TL!Init, Statuses, Histories, Stages, Sights, Requests

LEMMA NextLife ==
    PipelineInv /\ PipelineInv' /\ [PipelineNext]_pipelineVars => [TL!Next]_(TL!lifeVars)
<1> SUFFICES ASSUME PipelineInv, PipelineInv', [PipelineNext]_pipelineVars
             PROVE  TL!Next \/ UNCHANGED TL!lifeVars
  OBVIOUS
<1>1. CASE UNCHANGED pipelineVars
  <2>1. UNCHANGED <<row, pc, mem, github, mirror>>
    BY <1>1 DEF pipelineVars, storeVars, runVars, outsideVars
  <2> QED BY <2>1 DEF TL!lifeVars, Statuses, Histories, Stages, Stage, Sights, Seen, Requests,
                      PullRequest, HasPR
<1>2. CASE Environment
  BY <1>2, EnvironmentLife
<1>3. ASSUME NEW t \in Ticket, PipelineStep(t)
      PROVE  TL!Next \/ UNCHANGED TL!lifeVars
  BY <1>3, RunLife, EnterLife DEF PipelineStep
<1> QED BY <1>1, <1>2, <1>3 DEF PipelineNext

\* The pipeline implements the life of a ticket: whatever statements and calls fail,
\* whoever resolves a ticket when, and whenever the process dies, processTicketSync
\* analyses once, decides by compare-and-set, opens at most one pull request, ends
\* decided or gives up, and reports only statuses the row has held.
THEOREM Implements == PipelineSpec => TicketsLiveAsPromised
<1>1. PipelineInit => TL!Init
  BY InitLife
<1>2. PipelineInv /\ PipelineInv' /\ [PipelineNext]_pipelineVars => [TL!Next]_(TL!lifeVars)
  BY NextLife
<1> QED BY <1>1, <1>2, Invariance, PTL DEF PipelineSpec, TicketsLiveAsPromised, TL!Spec

=============================================================================
