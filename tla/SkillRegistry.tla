---------------------------- MODULE SkillRegistry ----------------------------
(***************************************************************************)
(* The skills that tickets are matched against: Registry                   *)
(* (internal/skill/registry.go), the Manager of the remote skills          *)
(* (internal/skill/remote/remote.go), the HTTP and MCP calls that change   *)
(* them, and the runs that walk them.                                      *)
(*                                                                         *)
(* A Match asks every enabled skill while it holds the registry's          *)
(* sync.RWMutex for reading, the remote ones over HTTP.  The lock is       *)
(* modelled with its queue: a Lock that waits for readers holds back every *)
(* later RLock, and its Unlock admits the readers it held back.            *)
(***************************************************************************)
EXTENDS Integers, FiniteSets

CONSTANTS
    Caller,     \* goroutines of requests and runs
    Name,       \* skill names
    Builtin,    \* the names builtin and YAML skills can have
    Endpoint,   \* endpoints a remote skill is registered with
    Calls       \* the calls that are made, see Call

Call == {"register", "unregister", "remotes", "enable", "disable", "list", "match"}

Nobody == "nobody"
NoSkill == "noSkill"
BuiltinSkill == "builtin"

ASSUME RegistryAssumption ==
    /\ IsFiniteSet(Caller) /\ Nobody \notin Caller
    /\ Name # {} /\ Endpoint # {} /\ Builtin \subseteq Name
    /\ NoSkill \notin Endpoint /\ BuiltinSkill \notin Endpoint
    /\ Calls \subseteq Call

VARIABLES
    remote,      \* Manager.skills: Name -> the endpoint of the skill it holds
    registered,  \* Registry.skills: Name -> the skill behind the name
    disabled,    \* Registry.disabled
    holder,      \* who holds Manager.mu while it waits, or Nobody
    readers,     \* how many hold Registry.mu for reading
    writer,      \* who waits in Registry.mu.Lock with new readers held back, or Nobody
    caller,      \* Caller -> the call it is in
    overlapped,  \* history: names with two calls to the Manager at a time
    revived      \* history: names enabled while the Manager did not hold them

registryVars == <<remote, registered, disabled, holder, readers, writer, caller,
                  overlapped, revived>>

\* todo: the skills a Match has still to ask.  ranked: the ones that matched.
CallerState ==
    [step: {"idle", "manager", "lock", "wait", "rlock", "blocked", "inside"},
     call: Call, name: Name, endpoint: Endpoint, todo: SUBSET Name, ranked: SUBSET Name]

RegistryTypeOK ==
    /\ remote \in [Name -> Endpoint \cup {NoSkill}]
    /\ registered \in [Name -> Endpoint \cup {NoSkill, BuiltinSkill}]
    /\ disabled \subseteq Name
    /\ holder \in Caller \cup {Nobody}
    /\ readers \in 0..Cardinality(Caller)
    /\ writer \in Caller \cup {Nobody}
    /\ caller \in [Caller -> CallerState]
    /\ overlapped \subseteq Name
    /\ revived \subseteq Name

Idle ==
    [step |-> "idle", call |-> "list", name |-> CHOOSE n \in Name : TRUE,
     endpoint |-> CHOOSE e \in Endpoint : TRUE, todo |-> {}, ranked |-> {}]

RegistryInit ==
    /\ remote = [n \in Name |-> NoSkill]
    \* A YAML file that fails to load is skipped.
    /\ \E loaded \in SUBSET Builtin :
         registered = [n \in Name |-> IF n \in loaded THEN BuiltinSkill ELSE NoSkill]
    /\ disabled = {}
    /\ holder = Nobody /\ readers = 0 /\ writer = Nobody
    /\ caller = [c \in Caller |-> Idle]
    /\ overlapped = {} /\ revived = {}

-----------------------------------------------------------------------------
(* The calls *)

OfManager == {"register", "unregister"}
FirstStep(call) == CASE call \in OfManager \cup {"remotes"} -> "manager"
                     [] call \in {"enable", "disable"} -> "lock"
                     [] OTHER -> "rlock"

InManager(c, n) == caller[c].step # "idle" /\ caller[c].call \in OfManager /\ caller[c].name = n

Begin(c) ==
    /\ caller[c].step = "idle"
    /\ \E call \in Calls, n \in Name, e \in Endpoint :
         /\ call \in {"list", "match", "remotes"} => n = Idle.name
         /\ call # "register" => e = Idle.endpoint
         /\ caller' = [caller EXCEPT ![c] =
              [Idle EXCEPT !.step = FirstStep(call), !.call = call, !.name = n, !.endpoint = e]]
         /\ overlapped' = IF call \in OfManager /\ \E d \in Caller \ {c} : InManager(d, n)
                          THEN overlapped \cup {n} ELSE overlapped
    /\ UNCHANGED <<remote, registered, disabled, holder, readers, writer, revived>>

Goes(c, step) == caller' = [caller EXCEPT ![c].step = step]
Returns(c) == caller' = [caller EXCEPT ![c] = Idle]

\* Manager.List: nobody but Unregister keeps the lock across a step.
ListRemotes(c) ==
    /\ caller[c].step = "manager" /\ caller[c].call = "remotes"
    /\ holder = Nobody
    /\ Returns(c)
    /\ UNCHANGED <<remote, registered, disabled, holder, readers, writer, overlapped, revived>>

\* Manager.Register gives its lock back before it asks for the registry's.
SetRemote(c) ==
    /\ caller[c].step = "manager" /\ caller[c].call = "register"
    /\ holder = Nobody
    /\ remote' = [remote EXCEPT ![caller[c].name] = caller[c].endpoint]
    /\ Goes(c, "lock")
    /\ UNCHANGED <<registered, disabled, holder, readers, writer, overlapped, revived>>

\* Manager.Unregister keeps its lock until the registry has disabled the name.
DeleteRemote(c) ==
    /\ caller[c].step = "manager" /\ caller[c].call = "unregister"
    /\ holder = Nobody
    /\ IF remote[caller[c].name] = NoSkill
       THEN Returns(c) /\ UNCHANGED <<remote, holder>>
       ELSE /\ remote' = [remote EXCEPT ![caller[c].name] = NoSkill]
            /\ holder' = c
            /\ Goes(c, "lock")
    /\ UNCHANGED <<registered, disabled, readers, writer, overlapped, revived>>

-----------------------------------------------------------------------------
(* Registry.mu *)

\* Lock, once no other writer is ahead: from here on RLock waits.
Announce(c) ==
    /\ caller[c].step = "lock"
    /\ writer = Nobody
    /\ writer' = c
    /\ Goes(c, "wait")
    /\ UNCHANGED <<remote, registered, disabled, holder, readers, overlapped, revived>>

NoReaders == readers = 0

OnlyDisable(call) == call = "disable"
Disables(call) == call \in {"disable", "unregister"}

\* Register, Enable and Disable of the registry.  Disable knows registered names only,
\* Enable disabled ones only; Register leaves `disabled' alone.
Write(c) ==
    LET call == caller[c].call
        n == caller[c].name
        heldBack == {d \in Caller : caller[d].step = "blocked"}
        enables == call = "enable" /\ n \in disabled
    IN
    /\ caller[c].step = "wait"
    /\ NoReaders
    /\ registered' = IF call = "register" THEN [registered EXCEPT ![n] = caller[c].endpoint]
                     ELSE registered
    /\ disabled' = IF Disables(call) /\ registered[n] # NoSkill THEN disabled \cup {n}
                   ELSE IF enables THEN disabled \ {n}
                   ELSE disabled
    /\ revived' = IF enables /\ remote[n] = NoSkill THEN revived \cup {n} ELSE revived
    /\ writer' = Nobody
    /\ holder' = IF holder = c THEN Nobody ELSE holder
    /\ readers' = readers + Cardinality(heldBack)
    /\ caller' = [d \in Caller |->
         IF d = c THEN Idle
         ELSE IF d \in heldBack
         THEN [caller[d] EXCEPT !.step = "inside", !.todo = Name \ disabled']
         ELSE caller[d]]
    /\ UNCHANGED <<remote, overlapped>>

\* As if writers called TryLock until it succeeds.
RLockBesideTryLock(c) ==
    /\ caller[c].step = "rlock"
    /\ readers' = readers + 1
    /\ caller' = [caller EXCEPT ![c].step = "inside", ![c].todo = Name \ disabled]
    /\ UNCHANGED <<remote, registered, disabled, holder, writer, overlapped, revived>>

RLock(c) ==
    /\ caller[c].step = "rlock"
    /\ IF writer = Nobody
       THEN /\ readers' = readers + 1
            /\ caller' = [caller EXCEPT ![c].step = "inside", ![c].todo = Name \ disabled]
       ELSE Goes(c, "blocked") /\ UNCHANGED readers
    /\ UNCHANGED <<remote, registered, disabled, holder, writer, overlapped, revived>>

\* Match asks a skill; a remote one that fails or runs into its timeout does not match.
Asks(c, n) ==
    /\ caller[c].step = "inside" /\ caller[c].call = "match"
    /\ n \in caller[c].todo /\ registered[n] # NoSkill
    /\ \E matched \in BOOLEAN :
         caller' = [caller EXCEPT ![c].todo = @ \ {n},
                                  ![c].ranked = IF matched THEN @ \cup {n} ELSE @]
    /\ UNCHANGED <<remote, registered, disabled, holder, readers, writer, overlapped, revived>>

AsksSkill(c) == \E n \in Name : Asks(c, n)

\* List, or Match when it has asked every skill.
RUnlock(c) == readers' = readers - 1

Leave(c) ==
    /\ caller[c].step = "inside"
    /\ caller[c].call = "match" => \A n \in caller[c].todo : registered[n] = NoSkill
    /\ RUnlock(c)
    /\ Returns(c)
    /\ UNCHANGED <<remote, registered, disabled, holder, writer, overlapped, revived>>

TakesLock(c) == ListRemotes(c) \/ SetRemote(c) \/ DeleteRemote(c) \/ Announce(c)
RegistryNext ==
    \E c \in Caller :
      Begin(c) \/ TakesLock(c) \/ Write(c) \/ RLock(c) \/ AsksSkill(c) \/ Leave(c)

RegistrySpec == RegistryInit /\ [][RegistryNext]_registryVars

\* A remote skill is asked with a client timeout of ten seconds, so that every step
\* but the locks is taken in the end.  A sync.Mutex hands itself to a waiter that has
\* waited a millisecond: whoever keeps asking for it gets it.
RegistryFairness ==
    \A c \in Caller :
      /\ WF_registryVars(Write(c) \/ RLock(c) \/ AsksSkill(c) \/ Leave(c))
      /\ SF_registryVars(TakesLock(c))

FairRegistry == RegistrySpec /\ RegistryFairness

-----------------------------------------------------------------------------
(* Properties *)

Agree(n) ==
    IF remote[n] # NoSkill
    THEN registered[n] = remote[n]
    ELSE registered[n] \in {NoSkill, BuiltinSkill} \/ n \in disabled \cup revived

Settled(n) == \A c \in Caller : ~InManager(c, n)

\* Manager calls on a name that never overlapped leave the two tables in agreement: a
\* skill the Manager holds is the registered one, and one it dropped is not matched
\* unless somebody enabled it.  Register and Unregister each update the tables one
\* after the other, and in no common critical section.
SequentialCallsAgree ==
    /\ RegistryTypeOK
    /\ \A n \in Name : Settled(n) /\ n \notin overlapped => Agree(n)

\* Every call returns, although Unregister waits for the registry with the Manager
\* locked, a waiting writer holds back readers, and a Match keeps both waiting while it
\* asks remote skills.
EveryCallEnds == \A c \in Caller : caller[c].step # "idle" ~> caller[c].step = "idle"

-----------------------------------------------------------------------------
(* The inductive invariant behind SequentialCallsAgree *)

Inside == {c \in Caller : caller[c].step = "inside"}

\* The readers are the callers inside, so that nobody is when a Write goes on.
ReadersCounted == readers = Cardinality(Inside)

\* A call to the Manager ends with the registry's lock, never in a walk of the skills.
CallsKeepStep ==
    \A c \in Caller : caller[c].step # "idle" /\ caller[c].call \in OfManager =>
        caller[c].step \in {"manager", "lock", "wait"}

Alone(n) == \A c, d \in Caller : InManager(c, n) /\ InManager(d, n) => c = d

\* A call that has changed the Manager and not yet the registry.
HalfDone(c, n) == InManager(c, n) /\ caller[c].step # "manager"

HalfDoneSound(c, n) ==
    HalfDone(c, n) =>
        remote[n] = IF caller[c].call = "register" THEN caller[c].endpoint ELSE NoSkill

Coherent(n) ==
    n \notin overlapped =>
        /\ Alone(n)
        /\ \A c \in Caller : HalfDoneSound(c, n)
        /\ (\A c \in Caller : ~HalfDone(c, n)) => Agree(n)

RegistryInv ==
    /\ RegistryTypeOK
    /\ ReadersCounted
    /\ CallsKeepStep
    /\ \A n \in Name : Coherent(n)
=============================================================================
