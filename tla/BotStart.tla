------------------------------ MODULE BotStart ------------------------------
(***************************************************************************)
(* internal/botstart/forwarder.go and the shutdown of cmd/agent/main.go    *)
(* around it: private /start observations forwarded in the background, at  *)
(* most MaxInFlight at a time, three attempts each within a deadline, and  *)
(* drained when the process is told to stop.                               *)
(*                                                                         *)
(* One unit of time is a second.  Tick waits for whatever is due, since a  *)
(* goroutine that is due runs within less than a second.                   *)
(***************************************************************************)
EXTENDS Naturals, FiniteSets

CONSTANTS
    Update,       \* the /start updates Telegram delivers
    MaxInFlight,  \* defaultMaxInFlight
    Delays        \* seconds an answer of the bridge takes, of those to explore

defaultAttemptTimeout == 5

ASSUME ForwarderAssumption ==
    /\ IsFiniteSet(Update)
    /\ MaxInFlight \in Nat \ {0}
    /\ Delays \subseteq 0..defaultAttemptTimeout

defaultBackoff == <<1, 4>>
Attempts == 3
TightDeadline == 19
defaultDeadline == 21
HttpDrain == 10
ShortBudget == HttpDrain
DrainBudget == defaultDeadline + 1

VARIABLES
    send,      \* Update -> how far its forwarding is
    sem,       \* tokens in the semaphore channel
    wg,        \* counter of the WaitGroup
    closed,    \* Forwarder.closed
    base,      \* the base context is alive
    phase,     \* where main stands
    clock      \* seconds since the signal

forwarderVars == <<send, sem, wg, closed, base, phase, clock>>

Outcome == {"sent", "rejected", "failed", "dropped"}

\* wait: seconds in the current attempt, or left of the backoff.  early: it was
\* under way when the signal came.
Send == [step: {"none", "arrived", "token", "post", "backoff", "counted", "left"},
         attempt: 0..Attempts, wait: 0..defaultAttemptTimeout, age: 0..defaultDeadline,
         outcome: Outcome \cup {"none"}, early: BOOLEAN]

NotSent == [step |-> "none", attempt |-> 0, wait |-> 0, age |-> 0,
            outcome |-> "none", early |-> FALSE]

ForwarderTypeOK ==
    /\ send \in [Update -> Send]
    /\ sem \in 0..MaxInFlight
    /\ wg \in 0..Cardinality(Update)
    /\ closed \in BOOLEAN
    /\ base \in BOOLEAN
    /\ phase \in {"run", "http", "close", "wait", "cancel", "last", "exit"}
    /\ clock \in 0..DrainBudget

ForwarderInit ==
    /\ send = [u \in Update |-> NotSent]
    /\ sem = 0 /\ wg = 0
    /\ closed = FALSE /\ base = TRUE
    /\ phase = "run" /\ clock = 0

-----------------------------------------------------------------------------
(* Forward, on the goroutine of the webhook request *)

MainWaits == UNCHANGED <<closed, base, phase, clock>>

\* srv.Shutdown closes the listeners first.
Arrive(u) ==
    /\ phase = "run"
    /\ send[u].step = "none"
    /\ send' = [send EXCEPT ![u].step = "arrived"]
    /\ UNCHANGED <<sem, wg>> /\ MainWaits

Ends(u, step, outcome) ==
    send' = [send EXCEPT ![u] = [@ EXCEPT !.step = step, !.outcome = outcome,
                                          !.wait = 0, !.age = 0]]

TakeToken(u) ==
    /\ send[u].step = "arrived"
    /\ \/ /\ sem < MaxInFlight
          /\ sem' = sem + 1
          /\ send' = [send EXCEPT ![u].step = "token"]
       \/ /\ sem = MaxInFlight
          /\ Ends(u, "left", "dropped")
          /\ UNCHANGED sem
    /\ UNCHANGED wg /\ MainWaits

AdmitWhenClosed(u) ==
    /\ send[u].step = "token"
    /\ wg' = wg + 1
    /\ send' = [send EXCEPT ![u].step = "post", ![u].attempt = 1]
    /\ UNCHANGED sem /\ MainWaits

\* Under mu: the check of closed and wg.Add.
Admit(u) ==
    /\ send[u].step = "token"
    /\ \/ /\ ~closed
          /\ wg' = wg + 1
          /\ send' = [send EXCEPT ![u].step = "post", ![u].attempt = 1]
          /\ UNCHANGED sem
       \/ /\ closed
          /\ sem' = sem - 1
          /\ Ends(u, "left", "dropped")
          /\ UNCHANGED wg
    /\ MainWaits

-----------------------------------------------------------------------------
(* send, on its own goroutine *)

\* The context of the send has ended: its deadline, or Shutdown.
CtxDone(u) == send[u].age = defaultDeadline \/ ~base

\* 2xx and 4xx end the send; 5xx, a transport error and the end of the context
\* fail the attempt.
PostEnds(u) ==
    /\ send[u].step = "post"
    /\ send[u].wait \in Delays \cup {defaultAttemptTimeout} \/ CtxDone(u)
    /\ \/ \E outcome \in {"sent", "rejected"} : Ends(u, "counted", outcome)
       \/ /\ send[u].attempt = Attempts \/ CtxDone(u)
          /\ Ends(u, "counted", "failed")
       \/ /\ send[u].attempt < Attempts /\ ~CtxDone(u)
          /\ send' = [send EXCEPT ![u].step = "backoff",
                                  ![u].wait = defaultBackoff[send[u].attempt]]
    /\ UNCHANGED <<sem, wg>> /\ MainWaits

BackoffEnds(u) ==
    /\ send[u].step = "backoff"
    /\ \/ /\ send[u].wait = 0
          /\ send' = [send EXCEPT ![u].step = "post", ![u].attempt = @ + 1]
       \/ /\ CtxDone(u)
          /\ Ends(u, "counted", "failed")
    /\ UNCHANGED <<sem, wg>> /\ MainWaits

\* The deferred receive and wg.Done.
Leave(u) ==
    /\ send[u].step = "counted"
    /\ send' = [send EXCEPT ![u].step = "left"]
    /\ sem' = sem - 1
    /\ wg' = wg - 1
    /\ MainWaits

-----------------------------------------------------------------------------
(* The end of main *)

Sending(u) == send[u].step \in {"post", "backoff"}
Pending == {u \in Update : send[u].step \in {"arrived", "token"}}

SendsGoOn == UNCHANGED <<sem, wg>>

Signal ==
    /\ phase = "run"
    /\ phase' = "http"
    /\ send' = [u \in Update |-> [send[u] EXCEPT !.early = Sending(u)]]
    /\ UNCHANGED <<closed, base, clock>> /\ SendsGoOn

\* srv.Shutdown returns when the requests are answered or its 10 s are over.
HttpDrained ==
    /\ phase = "http"
    /\ Pending = {} \/ clock >= HttpDrain
    /\ phase' = "close"
    /\ UNCHANGED <<send, closed, base, clock>> /\ SendsGoOn

Close ==
    /\ phase = "close"
    /\ closed' = TRUE
    /\ phase' = "wait"
    /\ UNCHANGED <<send, base, clock>> /\ SendsGoOn

BudgetFromHttpDrain == clock >= HttpDrain + DrainBudget

\* botStartCtx runs from the signal.
BudgetOver == clock >= DrainBudget

\* Wait(ctx).
WaitEnds ==
    /\ phase = "wait"
    /\ wg = 0 \/ BudgetOver
    /\ phase' = "cancel"
    /\ UNCHANGED <<send, closed, base, clock>> /\ SendsGoOn

Cancel ==
    /\ phase = "cancel"
    /\ base' = FALSE
    /\ phase' = "last"
    /\ UNCHANGED <<send, closed, clock>> /\ SendsGoOn

LastWaitSkipped ==
    /\ phase = "last"
    /\ phase' = "exit"
    /\ UNCHANGED <<send, closed, base, clock>> /\ SendsGoOn

\* The second wg.Wait; the trace flush and the exit follow.
LastWait ==
    /\ phase = "last"
    /\ wg = 0
    /\ phase' = "exit"
    /\ UNCHANGED <<send, closed, base, clock>> /\ SendsGoOn

Main == Signal \/ HttpDrained \/ Close \/ WaitEnds \/ Cancel \/ LastWait

-----------------------------------------------------------------------------

Due(u) ==
    \/ send[u].step = "counted"
    \/ Sending(u) /\ CtxDone(u)
    \/ send[u].step = "post" /\ send[u].wait = defaultAttemptTimeout
    \/ send[u].step = "backoff" /\ send[u].wait = 0

MainDue ==
    \/ phase = "http" /\ (Pending = {} \/ clock >= HttpDrain)
    \/ phase = "wait" /\ (wg = 0 \/ BudgetOver)
    \/ phase \in {"close", "cancel", "last"}

Older(s) ==
    CASE s.step = "post" -> [s EXCEPT !.age = @ + 1, !.wait = @ + 1]
      [] s.step = "backoff" -> [s EXCEPT !.age = @ + 1, !.wait = @ - 1]
      [] OTHER -> s

Tick ==
    /\ phase # "exit"
    /\ ~MainDue /\ \A u \in Update : ~Due(u)
    /\ phase # "run" \/ \E u \in Update : Sending(u)
    /\ send' = [u \in Update |-> Older(send[u])]
    /\ clock' = IF phase = "run" THEN 0 ELSE clock + 1
    /\ UNCHANGED <<sem, wg, closed, base, phase>>

ForwarderNext ==
    \/ phase # "exit" /\ \E u \in Update : Arrive(u) \/ TakeToken(u) \/ Admit(u)
                                           \/ PostEnds(u) \/ BackoffEnds(u) \/ Leave(u)
    \/ Main
    \/ Tick

ForwarderSpec == ForwarderInit /\ [][ForwarderNext]_forwarderVars

-----------------------------------------------------------------------------
(* Properties *)

\* "No observation leaves mctl_agent_bot_start_forward_total uncounted" (Shutdown):
\* when main goes on to exit, nothing is being sent and everything admitted is
\* counted, also what entered while the HTTP server drained.
NoneVanishes == phase = "exit" => \A u \in Update : send[u].attempt > 0 => send[u].outcome # "none"

\* sync.WaitGroup panics on an Add from zero beside a Wait.
NoAddBesideWait ==
    [][(phase \in {"wait", "cancel", "last"}) => wg' <= wg]_forwarderVars

\* "A smaller cap would silently cut the third attempt exactly when the bridge
\* is slow": no send is under way when its deadline comes.
AttemptsUncut == \A u \in Update : Sending(u) => send[u].age < defaultDeadline

\* main sizes the budget so that it "lets any send already in flight at the signal
\* complete": Shutdown cancels none of them.
EarlySendsComplete == \A u \in Update : Sending(u) /\ send[u].early => base

\* The drains overlap: main is through "at max(HTTP drain, this budget)" after
\* the signal, within Kubernetes' grace period of 30 s less the 5 s trace flush.
ShutdownInTime == clock <= 30 - 5

-----------------------------------------------------------------------------
(* The inductive invariant behind the properties *)

Admitted == {u \in Update : send[u].step \in {"post", "backoff", "counted"}}
Holding == {u \in Update : send[u].step \in {"token", "post", "backoff", "counted"}}

\* The age a send has at most when its attempts begin: after the timeouts of the
\* earlier ones and the backoffs behind them.
Begun == <<0, 6, 15>>

SendSound(u) ==
    /\ send[u].step \in {"none", "arrived", "token"} =>
         send[u].attempt = 0 /\ send[u].wait = 0 /\ send[u].age = 0 /\ ~send[u].early
    /\ send[u].step = "post" =>
         send[u].attempt \in 1..Attempts /\ send[u].age <= send[u].wait + Begun[send[u].attempt]
    /\ send[u].step = "backoff" =>
         /\ send[u].attempt \in 1..(Attempts - 1)
         /\ send[u].age + send[u].wait <= Begun[send[u].attempt + 1]
    /\ send[u].step \in {"counted", "left"} => send[u].outcome # "none"
    /\ Sending(u) /\ send[u].early => clock <= send[u].age

ForwarderInv ==
    /\ ForwarderTypeOK
    /\ wg = Cardinality(Admitted) /\ sem = Cardinality(Holding)
    /\ \A u \in Update : SendSound(u)
    /\ phase = "run" => clock = 0
    /\ phase \in {"http", "close"} => clock <= HttpDrain
    /\ phase \in {"wait", "cancel", "last", "exit"} => closed
    /\ base <=> phase \notin {"last", "exit"}
    /\ phase \in {"cancel", "last", "exit"} => \A u \in Update : ~(Sending(u) /\ send[u].early)
    /\ phase = "exit" => wg = 0

-----------------------------------------------------------------------------
(* The abstract forwarder this one implements *)

Outcomes == [u \in Update |-> send[u].outcome]
Flying == {u \in Update : Sending(u)}
Stage == IF phase = "exit" THEN "gone" ELSE IF closed THEN "closed" ELSE "open"

FW == INSTANCE Forwarding WITH counted <- Outcomes, flying <- Flying, stage <- Stage

\* The forwarder keeps what Forwarding promises: an observation is sent at most once and
\* counted once, with its tokens, its wait group and its three attempts behind it.
ObservationsCounted == FW!Spec

\* What the mapping needs beside ForwarderInv: an outcome stands only when it is counted.
CountedLast == \A u \in Update : send[u].step \notin {"counted", "left"} => send[u].outcome = "none"

RefinementInv == ForwarderInv /\ CountedLast
=============================================================================
