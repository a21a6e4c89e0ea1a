------------------------------- MODULE Notifier ------------------------------
(***************************************************************************)
(* internal/notify/telegram.go as the pipeline uses it: the header of a    *)
(* ticket is held from the start of its run, the first message about the   *)
(* ticket carries it, and what no message carried is flushed when the run  *)
(* returns.  Composed with the pipeline and the operators' commands.       *)
(*                                                                         *)
(* A send reads nothing another goroutine writes, so that it is part of    *)
(* the step of the run it follows.  The wording is left out.               *)
(***************************************************************************)
EXTENDS Operator

CONSTANT ChatFaults   \* fails: a send is lost; answer: only its answer is

ASSUME ChatAssumption == ChatFaults \subseteq {"fails", "answer"}

VARIABLE notice   \* Ticket -> its header, and what the chat has heard of it

notifierVars == <<operatorVars, notice>>

(***************************************************************************)
(* held: the header is in Telegram.pending.  The rest is history.  heard:  *)
(* messages that arrived with the header.  excuse: what may keep them from *)
(* being one.  A quiet or digest-only alert is not announced, nor is one   *)
(* that AlertManager paged the operators for and no skill matches; lost: a *)
(* flush failed; unsure: a send was reported as failed and arrived.        *)
(***************************************************************************)
Excuse == {"quiet", "paged", "lost", "unsure"}
Notice == [held: BOOLEAN, heard: 0..2, excuse: SUBSET Excuse]
NoNotice == [held |-> FALSE, heard |-> 0, excuse |-> {}]

NotifierTypeOK == OperatorTypeOK /\ notice \in [Ticket -> Notice]

NotifierInit == OperatorInit /\ notice = [t \in Ticket |-> NoNotice]

-----------------------------------------------------------------------------
(* The notices that may come of a call *)

Excused(n, why) == [n EXCEPT !.excuse = @ \cup {why}]

HoldNewTicket(n) == [n EXCEPT !.held = TRUE]

DropNewTicket(n) == [n EXCEPT !.held = FALSE]

Heard(n) == [n EXCEPT !.held = FALSE, !.heard = @ + 1]

SendAndForget(n) ==
    IF ~n.held THEN {n}
    ELSE {Heard(n)} \cup (IF "fails" \in ChatFaults THEN {[n EXCEPT !.held = FALSE]} ELSE {})

SendWithoutTaking(n) ==
    IF ~n.held THEN {n}
    ELSE {[n EXCEPT !.heard = @ + 1]} \cup (IF "fails" \in ChatFaults THEN {n} ELSE {})

\* A send that fails puts the header back.
sendWithHeader(n) ==
    IF ~n.held THEN {n}
    ELSE {Heard(n)}
         \cup (IF "fails" \in ChatFaults THEN {n} ELSE {})
         \cup (IF "answer" \in ChatFaults
               THEN {Excused([n EXCEPT !.heard = @ + 1], "unsure")} ELSE {})

\* The header alone, once.
FlushNewTicket(n) ==
    IF ~n.held THEN {n}
    ELSE {Heard(n)}
         \cup (IF "fails" \in ChatFaults THEN {Excused(DropNewTicket(n), "lost")} ELSE {})

\* shouldNotifyNewTicket, which depends on the alert's name, source and severity.
Announce(n) == {HoldNewTicket(n), Excused(n, "quiet")}

\* shouldNotifyDiagnosis is the same predicate.
SendDiagnosis(n) == IF "quiet" \in n.excuse THEN {n} ELSE sendWithHeader(n)

-----------------------------------------------------------------------------

Returns(t) == pc[t] \in Active /\ pc'[t] \in Ended

\* What the run says on its way from pc[t] to pc'[t].
Said(t, n) ==
    CASE pc[t] = "start" -> Announce(n)
      [] pc[t] = "diagnose" /\ pc'[t] = "persist" ->
           {Excused(DropNewTicket(n), "paged")} \cup SendDiagnosis(n)
      [] pc[t] = "route" /\ pc'[t] = "persist" -> SendDiagnosis(n)
      [] \/ pc[t] = "fix" /\ pc'[t] = "persist"
         \/ pc[t] \in {"limit", "branch", "openPR"} /\ pc'[t] = "giveUp"
         \/ pc[t] \in {"link", "linkOnly", "mirrorPR", "merge"} /\ Returns(t) -> sendWithHeader(n)
      [] OTHER -> {n}

\* Whatever the run says, and the deferred flush if it returns.
Speak(t) ==
    \E said \in Said(t, notice[t]) :
      \E n \in IF Returns(t) THEN FlushNewTicket(said) ELSE {said} :
        notice' = [notice EXCEPT ![t] = n]

\* Telegram.pending is in memory.
LoseHeaders == notice' = [t \in Ticket |-> DropNewTicket(notice[t])]

NotifierNext ==
    \/ \E q \in Request : CommandStep(q) /\ UNCHANGED notice
    \/ Surroundings /\ UNCHANGED <<cmd, notice>>
    \/ \E t \in Ticket : PipelineStep(t) /\ UNCHANGED cmd /\ Speak(t)
    \/ Crash /\ cmd' = [q \in Request |-> NoCommand] /\ LoseHeaders

NotifierSpec == NotifierInit /\ [][NotifierNext]_notifierVars

-----------------------------------------------------------------------------
(* Properties *)

\* "A ticket whose processing stopped early is still announced" (FlushNewTicket),
\* and "a header is never held past the ticket's processing" (HoldNewTicket): a run
\* that returned leaves no header behind, and a ticket nobody heard of is one not
\* to be announced, or one whose last resort, the flush, failed too.
EveryRunIsAnnounced ==
    \A t \in Ticket :
        /\ pc[t] \in Ended => ~notice[t].held
        /\ pc[t] \in {"done", "aborted"} /\ notice[t].heard = 0
             => notice[t].excuse \cap {"quiet", "paged", "lost"} # {}

\* An incident is announced once, however often its sends fail, are repeated by the
\* flush, or are followed by further messages; only a send that arrived although
\* it was reported as failed is repeated.
AnnouncedOnce ==
    /\ NotifierTypeOK
    /\ \A t \in Ticket : notice[t].heard > 1 => "unsure" \in notice[t].excuse

-----------------------------------------------------------------------------
(* The inductive invariant behind the properties *)

\* Nothing is held or said before the run starts.  A run speaks once; what it says of
\* a header that is still held afterwards was reported as failed.
Spoken(t) ==
    /\ pc[t] \in {"none", "start"} \cup Waiting => notice[t] = NoNotice
    /\ pc[t] \in Active \ {"start", "persist", "giveUp", "mirror"} => notice[t].heard = 0
    /\ pc[t] \in {"persist", "giveUp", "mirror"} =>
         \/ notice[t].heard = 0
         \/ notice[t].heard = 1 /\ (notice[t].held => "unsure" \in notice[t].excuse)
    /\ pc[t] \in (Active \ {"start"}) \cup {"done", "aborted"} =>
         notice[t].held \/ notice[t].heard > 0 \/ notice[t].excuse \cap {"quiet", "paged", "lost"} # {}

NotifierInv ==
    /\ NotifierTypeOK
    /\ \A t \in Ticket : t > created => pc[t] = "none"
    /\ \A t \in Ticket : Spoken(t)
    /\ EveryRunIsAnnounced /\ AnnouncedOnce
=============================================================================
