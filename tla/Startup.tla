------------------------------ MODULE Startup ------------------------------
(***************************************************************************)
(* cmd/agent/main.go before and around BotStart: the ticket store is       *)
(* opened with retries, within a budget, while a signal can stop the       *)
(* process; then the server starts, and only then does main listen to the  *)
(* signals that begin the shutdown.                                        *)
(*                                                                         *)
(* One unit of this module's time is a quarter of a second.                *)
(***************************************************************************)
EXTENDS BotStart

CONSTANT MaxElapsed   \* bound on the time a hung migration is watched for

storeInitBudget == 8 * 4
connectTimeout == 3 * 4
firstDelay == 1
second == 4

ASSUME StartupAssumption == MaxElapsed \in Nat /\ MaxElapsed > storeInitBudget

VARIABLES
    boot,     \* where initTicketStore and main stand
    delay,    \* the pause before the next retry
    left,     \* time left of the dial or of the pause
    elapsed,  \* since initTicketStore began
    asked     \* initCtx has seen a signal

bootVars == <<boot, delay, left, elapsed, asked>>
processVars == <<forwarderVars, bootVars>>

\* spent: the budget is, on an error that could clear.  givenUp: on another error, or by a
\* signal.  opened: the store is open and the signals are still initCtx's.  deaf:
\* nobody listens to signals.
StartupTypeOK ==
    /\ ForwarderTypeOK
    /\ boot \in {"dial", "migrate", "pause", "opened", "deaf", "serving",
                 "spent", "givenUp", "killed"}
    /\ delay \in {1, 2, 4}
    /\ left \in 0..connectTimeout
    /\ elapsed \in 0..MaxElapsed
    /\ asked \in BOOLEAN

StartupInit ==
    /\ ForwarderInit
    /\ boot = "dial" /\ left = connectTimeout
    /\ delay = firstDelay
    /\ elapsed = 0
    /\ asked = FALSE

-----------------------------------------------------------------------------
(* initTicketStore *)

Trying == {"dial", "migrate"}
Booting == Trying \cup {"pause"}

Stays == UNCHANGED <<delay, elapsed, asked>>
Becomes(step, time) == boot' = step /\ left' = time

\* NewStore returned an error that isTransientDialError takes for one.
Retry ==
    /\ boot \in Trying
    /\ IF elapsed > storeInitBudget THEN Becomes("spent", 0) ELSE Becomes("pause", delay)
    /\ Stays

GiveUp ==
    /\ boot \in Trying
    /\ Becomes("givenUp", 0)
    /\ Stays

Connected ==
    /\ boot = "dial" /\ ~asked
    /\ Becomes("migrate", 0)
    /\ Stays

\* A signal cancels the statements of the migration.  initTicketStore returns, and its
\* variables are forgotten.
Migrated ==
    /\ boot = "migrate" /\ ~asked
    /\ Becomes("opened", 0)
    /\ delay' = firstDelay /\ elapsed' = 0
    /\ UNCHANGED asked

AlwaysDouble == 2 * delay

NextDelay == IF delay < second THEN 2 * delay ELSE delay

PauseEnds ==
    /\ boot = "pause"
    /\ \/ left = 0 /\ Becomes("dial", connectTimeout) /\ delay' = NextDelay
       \/ asked /\ Becomes("givenUp", 0) /\ UNCHANGED delay
    /\ UNCHANGED <<elapsed, asked>>

\* Somebody stops the process before it serves.  Once the store is open the signal
\* is taken by initCtx, which nobody looks at any more.
Stopped ==
    /\ boot \in Booting \cup {"opened"}
    /\ asked' = TRUE
    /\ UNCHANGED <<boot, delay, left, elapsed>>

StopInitSignals ==
    /\ boot = "opened"
    /\ Becomes("deaf", 0)
    /\ asked' = FALSE
    /\ UNCHANGED <<delay, elapsed>>

\* connect_timeout ends a dial, nothing but a signal a migration.
BootDue ==
    \/ asked
    \/ boot \in {"dial", "pause"} /\ left = 0

BootTick ==
    /\ boot \in Booting
    /\ ~BootDue
    /\ elapsed < MaxElapsed
    /\ elapsed' = elapsed + 1
    /\ left' = IF boot = "migrate" THEN 0 ELSE left - 1
    /\ UNCHANGED <<boot, delay, asked>>

OpenStore ==
    \/ Retry \/ GiveUp \/ Connected \/ Migrated \/ PauseEnds \/ Stopped
    \/ StopInitSignals \/ BootTick

-----------------------------------------------------------------------------
(* The process *)

\* signal.Notify, after the server has begun to serve.
Notify == boot = "deaf" /\ Becomes("serving", 0) /\ Stays

\* The default of a signal that nobody listens to.
Killed == boot = "deaf" /\ Becomes("killed", 0) /\ Stays

Serves ==
    /\ \/ boot = "serving"
       \/ boot = "deaf" /\ phase' = "run"
    /\ ForwarderNext

ProcessNext ==
    \/ OpenStore /\ UNCHANGED forwarderVars
    \/ (Notify \/ Killed) /\ UNCHANGED forwarderVars
    \/ Serves /\ UNCHANGED bootVars

ProcessSpec == StartupInit /\ [][ProcessNext]_processVars

-----------------------------------------------------------------------------
(* Properties *)

\* TestInitTicketStoreRetriesForTheWholeBudget, for every course of the attempts: an
\* error that could clear "must consume the whole budget", and no dial outlasts the
\* budget by the 5 s the test allows, though every dial may hang and the budget is
\* looked at only between a failed attempt and a pause.
StoreInitKeepsItsBudget ==
    /\ StartupTypeOK
    /\ boot = "spent" => elapsed > storeInitBudget
    /\ boot = "dial" => elapsed < storeInitBudget + 5 * second

-----------------------------------------------------------------------------
(* The inductive invariant behind the properties *)

\* The last pause begins within the budget, and a dial after it.
StartupInv ==
    /\ ForwarderInv /\ StartupTypeOK
    /\ boot = "pause" => elapsed + left <= storeInitBudget + second
    /\ boot = "dial" => elapsed + left <= storeInitBudget + second + connectTimeout
    /\ boot = "spent" => elapsed > storeInitBudget
=============================================================================
