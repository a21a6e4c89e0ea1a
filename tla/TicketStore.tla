----------------------------- MODULE TicketStore -----------------------------
(***************************************************************************)
(* The ticket table of internal/ticket/store.go and its SQL statements.    *)
(*                                                                         *)
(* Every statement is one atomic step of the database, so every operator   *)
(* below that primes `row` is one atomic step of the model; what a caller  *)
(* does between two statements is the caller's interleaving point.  Rows   *)
(* are numbered in creation order: created_at is the ticket's own number.  *)
(* Columns no property can tell apart (summary, severity, analysis text,   *)
(* trace_id, evidence) are left out.                                       *)
(***************************************************************************)
EXTENDS Naturals, FiniteSets

CONSTANTS
    MaxTicket,   \* bound on the number of rows ever created
    Workload,    \* (tenant, service, type) triples
    AlertName,   \* alert names; a key is a workload and an alert name
    Source,      \* ticket sources
    Fp,          \* AlertManager fingerprints
    MaxAge,      \* bound on the age of updated_at, in the thresholds below
    FlapCooldown \* whether a flap cooldown is configured

ASSUME StoreAssumption == /\ MaxTicket \in Nat
                          /\ Workload # {}
                          /\ AlertName # {}
                          /\ Source # {}
                          /\ MaxAge \in 0..2
                          /\ FlapCooldown \in BOOLEAN

Ticket == 1..MaxTicket
NoTicket == 0
Key == Workload \X AlertName

\* alert_name of the tickets that no alert opened.
NoAlertName == ""

Closed == {"resolved", "suppressed"}
OpenStatus == {"open", "analyzing", "escalated", "fix_proposed", "fix_applied"}
Status == OpenStatus \cup Closed

\* How many of the poller's two thresholds updated_at is older than:
\* AMReconcileMinAge, then the stale TTL.
Age == 0..MaxAge
Settled == 1
Stale == 2

VARIABLES
    row,      \* Ticket -> the columns of the row; status "none" before Create
    created   \* number of rows inserted so far, hence the latest created_at

storeVars == <<row, created>>

(***************************************************************************)
(* `cooling`: resolved_at lies within the flap cooldown.  `took` is not a  *)
(* column: it is the history of the statuses the row has held.             *)
(***************************************************************************)
Row == [status: Status \cup {"none"}, source: Source, key: Key,
        fps: SUBSET Fp, pr: BOOLEAN, age: Age, cooling: BOOLEAN,
        took: SUBSET Status]

\* What a Go *Ticket holds of the columns Update writes back.
Copy == [status: Status \cup {"none"}, fps: SUBSET Fp, pr: BOOLEAN]

StoreTypeOK == /\ row \in [Ticket -> Row]
               /\ created \in 0..MaxTicket

Existing == 1..created
IsClosed(t) == row[t].status \in Closed

NoRow == [status |-> "none", source |-> CHOOSE s \in Source : TRUE,
          key |-> CHOOSE k \in Key : TRUE, fps |-> {}, pr |-> FALSE, age |-> 0,
          cooling |-> FALSE, took |-> {}]

StoreInit == created = 0 /\ row = [t \in Ticket |-> NoRow]

-----------------------------------------------------------------------------
(* Reads *)

Get(t) == [status |-> row[t].status, fps |-> row[t].fps, pr |-> row[t].pr]

ListOpen == {t \in Existing : row[t].status \in OpenStatus}

Newest(S) == IF S = {} THEN NoTicket ELSE CHOOSE t \in S : \A u \in S : u <= t

FindDuplicateByWorkload(k) ==
    Newest({t \in Existing : row[t].key[1] = k[1] /\ ~IsClosed(t)})

FindDuplicateUnlessOpen(k) ==
    Newest({t \in Existing : row[t].key = k /\ row[t].status \notin Closed \cup {"open"}})

FindDuplicate(k) ==
    Newest({t \in Existing : row[t].key = k /\ ~IsClosed(t)})

FindRecentlyResolved(k) ==
    {t \in Existing : row[t].key = k /\ row[t].status = "resolved" /\ row[t].cooling}

CountPRsInWindow == Cardinality({t \in Existing : row[t].pr})

-----------------------------------------------------------------------------
(* Writes *)

Write(t, r) == row' = [row EXCEPT ![t] = r]

Insert(src, k, F) ==
    /\ created < MaxTicket
    /\ created' = created + 1
    /\ Write(created + 1,
             [status |-> "open", source |-> src, key |-> k, fps |-> F, pr |-> FALSE,
              age |-> 0, cooling |-> FALSE, took |-> {"open"}])

\* The row after a statement that sets the status, among other columns.
Takes(r, s) == [r EXCEPT !.status = s, !.age = 0, !.took = @ \cup {s}]

\* The full-row write.  resolved_at comes from the copy too; a copy is never
\* written back with status resolved, the only status cooling is read under.
Update(t, m) ==
    Write(t, [Takes(row[t], m.status) EXCEPT !.fps = m.fps, !.pr = m.pr, !.cooling = FALSE])

SetDiagnosis(t, from, to) == Write(t, Takes(row[t], to))

SetDiagnosisFromStatus(t, from, to) ==
    IF row[t].status = from THEN Write(t, Takes(row[t], to)) ELSE UNCHANGED row

\* First statement of RecordPRLinkage: coordinates and status, guarded.
RecordPRLinkage(t, from, to, hasPR) ==
    IF row[t].status = from
    THEN Write(t, [Takes(row[t], to) EXCEPT !.pr = hasPR])
    ELSE UNCHANGED row

PRCoordinatesUnsaved(t, hasPR) == UNCHANGED row

\* Its second statement, run only when the guard of the first one missed.
RecordPRCoordinates(t, hasPR) ==
    Write(t, [row[t] EXCEPT !.pr = hasPR, !.age = 0])

TouchNothing(t) == UNCHANGED row

Touch(t) == Write(t, [row[t] EXCEPT !.age = 0])

TouchOnly(t, F) == Touch(t)

TouchWithFingerprint(t, F) ==
    Write(t, [row[t] EXCEPT !.age = 0, !.fps = @ \cup F])

\* What every resolve statement does to the rows its WHERE clause selects.
ResolveRows(S) ==
    row' = [t \in Ticket |->
              IF t \in S THEN [Takes(row[t], "resolved") EXCEPT !.cooling = FlapCooldown]
              ELSE row[t]]

ResolveAgain(t, from) == {u \in {t} : row[u].status # "none"}

ResolveRegardless(t, from) == {u \in {t} : ~IsClosed(u)}

ResolveByIDFromStatus(t, from) == {u \in {t} : row[u].status = from}
ResolveByID(t) == ResolveByIDFromStatus(t, "open")

ResolveWheneverCreated(w, f, notAfter) ==
    {t \in Existing : row[t].key[1] = w /\ ~IsClosed(t) /\ (row[t].fps = {} \/ f \in row[t].fps)}

\* notAfter is an instant, given as the number of rows that existed then.
ResolveByTenantService(w, f, notAfter) ==
    {t \in Existing : /\ row[t].key[1] = w
                      /\ ~IsClosed(t)
                      /\ row[t].fps = {} \/ f \in row[t].fps
                      /\ t <= notAfter}

-----------------------------------------------------------------------------
(* The clock, as the store's readers see it *)

\* pinned: updated_at cannot be as old as the stale TTL yet.
Grow(t, pinned) ==
    /\ row[t].age < (IF pinned THEN Settled ELSE MaxAge)
    /\ row[t].age < MaxAge
    /\ Write(t, [row[t] EXCEPT !.age = @ + 1])

CooldownEnds(t) ==
    /\ row[t].cooling
    /\ Write(t, [row[t] EXCEPT !.cooling = FALSE])
=============================================================================
