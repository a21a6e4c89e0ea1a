------------------------------ MODULE Operator ------------------------------
(***************************************************************************)
(* The Telegram commands of internal/api/router.go beside the pipeline and *)
(* whatever else changes tickets: /approve, /reject and /ignore read a     *)
(* ticket, call GitHub, and write the whole row back; /pause and /resume   *)
(* are the pipeline's.  A command runs on its own request goroutine.       *)
(***************************************************************************)
EXTENDS Pipeline

CONSTANT Request   \* goroutines serving the Telegram webhook at a time

ASSUME RequestAssumption == IsFiniteSet(Request)

VARIABLE cmd       \* Request -> the command it executes

operatorVars == <<pipelineVars, cmd>>

NoCommand == [step |-> "idle", ticket |-> NoTicket, copy |-> Blank]

Command == [step: {"idle", "merge", "close", "persist"}, ticket: Ticket \cup {NoTicket}, copy: Copy]

OperatorTypeOK == PipelineTypeOK /\ cmd \in [Request -> Command]

OperatorInit == PipelineInit /\ cmd = [q \in Request |-> NoCommand]

-----------------------------------------------------------------------------

\* findTicketByPrefix finds tickets of every status.
Begin(q, t, step, copy) ==
    /\ cmd[q] = NoCommand
    /\ t \in Existing
    /\ cmd' = [cmd EXCEPT ![q] = [step |-> step, ticket |-> t, copy |-> copy]]
    /\ UNCHANGED pipelineVars

Approve(q, t) == Get(t).pr /\ Begin(q, t, "merge", Get(t))

Reject(q, t) == Begin(q, t, IF Get(t).pr THEN "close" ELSE "persist",
                      [Get(t) EXCEPT !.status = "suppressed"])

Ignore(q, t) == Begin(q, t, "persist", [Get(t) EXCEPT !.status = "suppressed"])

Answered(q, s) ==
    cmd' = [cmd EXCEPT ![q].step = "persist", ![q].copy.status = s]

OnGitHub == UNCHANGED <<storeVars, runVars, mirror, resolving, paused>>

ApproveFirst(q) ==
    /\ cmd[q].step = "merge"
    /\ Answered(q, "fix_applied")
    /\ UNCHANGED github /\ OnGitHub

\* An error ends the command.
ApproveMerges(q) ==
    /\ cmd[q].step = "merge"
    /\ LET t == cmd[q].ticket IN
         \/ /\ github[t] = "open"
            /\ github' = [github EXCEPT ![t] = "merged"]
            /\ Answered(q, "fix_applied")
         \/ /\ IF github[t] = "open" THEN GitHubFails(t, "merged") ELSE UNCHANGED github
            /\ cmd' = [cmd EXCEPT ![q] = NoCommand]
    /\ OnGitHub

\* An error is ignored.
RejectCloses(q) ==
    /\ cmd[q].step = "close"
    /\ LET t == cmd[q].ticket IN
         IF github[t] = "open"
         THEN github' = [github EXCEPT ![t] = "closed"] \/ GitHubFails(t, "closed")
         ELSE UNCHANGED github
    /\ Answered(q, "suppressed")
    /\ OnGitHub

\* The row as it was read, with the command's status.
PersistCommand(q) ==
    /\ cmd[q].step = "persist"
    /\ \/ Update(cmd[q].ticket, cmd[q].copy)
       \/ "store" \in Faults /\ UNCHANGED row
    /\ cmd' = [cmd EXCEPT ![q] = NoCommand]
    /\ UNCHANGED <<created, outsideVars>> /\ Others

CommandStep(q) ==
    \/ \E t \in Ticket : Approve(q, t) \/ Reject(q, t) \/ Ignore(q, t)
    \/ ApproveMerges(q) \/ RejectCloses(q) \/ PersistCommand(q)

\* A crash takes the commands under way with it.
OperatorNext ==
    \/ \E q \in Request : CommandStep(q)
    \/ Surroundings /\ UNCHANGED cmd
    \/ \E t \in Ticket : PipelineStep(t) /\ UNCHANGED cmd
    \/ Crash /\ cmd' = [q \in Request |-> NoCommand]

OperatorSpec == OperatorInit /\ [][OperatorNext]_operatorVars

-----------------------------------------------------------------------------
(* Properties *)

\* No ticket claims "the opposite of what GitHub now shows" (handleTelegramCommand):
\* one that says the fix is applied has a merged pull request, whoever raced whom
\* to approve, reject, review or merge it automatically.
AppliedMeansMerged ==
    \A t \in Ticket : row[t].status = "fix_applied" => github[t] \in {"merged", "automerged"}

\* A finished run leaves no proposed or applied fix behind whose pull request is not
\* recorded: when the answer of its creation was lost, or a command wrote an older row
\* back, the ticket is escalated or closed; and what the run gave up on is not merged.
OrphanPRIsEscalated ==
    \A t \in Ticket : pc[t] = "done" /\ HasPR(t) /\ ~row[t].pr =>
        /\ row[t].status \in {"escalated"} \cup Closed
        /\ goal[t] = "escalated" => github[t] # "automerged"

\* What an operator suppressed after the run reloaded the ticket is not taken back
\* by the run.
SuppressionStands ==
    [][\A t \in Ticket :
         (/\ row[t].status = "suppressed" /\ mem[t].status # "suppressed"
          /\ pc[t] \in Active \ {"start", "publish", "reload"}
          /\ cmd' = cmd)
           => row'[t].status = "suppressed"]_operatorVars

-----------------------------------------------------------------------------
(* The inductive invariant behind the properties *)

\* Nothing of the run has been on GitHub as a pull request yet.
Early == {"none", "publish", "reload", "start"} \cup Waiting \cup (Deciding \ {"giveUp"})

\* Nor has the row been told of one.
Unlinked == Early \cup {"giveUp", "mirror"}

\* Beside the commands a row leaves the statuses of its run when it is closed only.
Underway(t) ==
    /\ pc[t] = "publish" => mem[t].status = "analyzing"
    /\ pc[t] \in {"publish", "reload"} \cup Deciding => row[t].status \in {"analyzing"} \cup Closed
    /\ pc[t] \in Deciding => \/ mem[t].status = "analyzing"
                             \/ mem[t].status \in Closed /\ row[t].status \in Closed
    /\ pc[t] = "giveUp" => goal[t] = "escalated"
    /\ pc[t] \in Linked => mem[t].status = goal[t]

\* A row knows the pull request from its linkage on; what forgets it again closes the
\* ticket, and what never learns of it escalates.
Records(t) ==
    /\ pc[t] \in Early => ~HasPR(t) /\ ~mem[t].pr
    /\ pc[t] \in Unlinked => ~row[t].pr
    /\ HasPR(t) \/ pc[t] \in {"branch", "openPR"} => ~DryRun
    /\ pc[t] \in {"link", "linkOnly"} \cup Linked => DryRun \/ mem[t].pr
    /\ pc[t] \in {"mirror", "done"} \cup Linked /\ HasPR(t) /\ ~row[t].pr =>
         row[t].status \in {"escalated"} \cup Closed

\* Only a merge makes a fix applied.
Applies(t) ==
    /\ pc[t] = "merge" => goal[t] = "fix_proposed"
    /\ goal[t] = "fix_applied" => github[t] = "automerged"
    /\ github[t] = "automerged" => goal[t] # "escalated"

\* A command is about to suppress the ticket, or to say of a pull request it found in
\* the row that it is merged.
CommandSound(q) ==
    LET t == cmd[q].ticket IN
    /\ cmd[q].step # "idle" => t \in Ticket
    /\ cmd[q].copy.pr => t \in Ticket /\ pc[t] \notin Unlinked
    /\ cmd[q].step = "merge" => cmd[q].copy.pr
    /\ cmd[q].step = "persist" =>
         \/ cmd[q].copy.status = "suppressed"
         \/ cmd[q].copy.status = "fix_applied" /\ cmd[q].copy.pr /\ github[t] \in {"merged", "automerged"}

OperatorInv ==
    /\ OperatorTypeOK /\ SlotsBalance
    /\ \A t \in Ticket : t > created => pc[t] = "none"
    /\ \A t \in Ticket : Underway(t) /\ Records(t) /\ Applies(t)
    /\ \A q \in Request : CommandSound(q)
    /\ AppliedMeansMerged
=============================================================================
