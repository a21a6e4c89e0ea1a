------------------------ MODULE SkillRegistry_proofs ------------------------
(***************************************************************************)
(* Proofs about SkillRegistry: for any number of callers, names and        *)
(* endpoints.                                                              *)
(***************************************************************************)
EXTENDS SkillRegistry, TLAPS, FiniteSetTheorems

-----------------------------------------------------------------------------
(* A caller's step *)

LEMMA IdleIsState ==
    Idle \in CallerState /\ Idle.step = "idle"
<1>1. (CHOOSE n \in Name : TRUE) \in Name /\ (CHOOSE e \in Endpoint : TRUE) \in Endpoint
  BY RegistryAssumption
<1> QED BY <1>1 DEF Idle, CallerState, Call

\* x is the state s at another step.
StepsTo(s, step, x) ==
    /\ x \in CallerState /\ x.step = step
    /\ x.call = s.call /\ x.name = s.name /\ x.endpoint = s.endpoint

LEMMA Going ==
    ASSUME NEW s \in CallerState, NEW step \in {"lock", "wait", "blocked", "inside"}
    PROVE  StepsTo(s, step, [s EXCEPT !.step = step])
BY DEF CallerState, StepsTo

LEMMA Entering ==
    ASSUME NEW s \in CallerState, NEW todo \in SUBSET Name
    PROVE  StepsTo(s, "inside", [s EXCEPT !.step = "inside", !.todo = todo])
BY DEF CallerState, StepsTo

LEMMA OtherCallers ==
    ASSUME RegistryInv, NEW c \in Caller, NEW x \in CallerState, caller' = [caller EXCEPT ![c] = x]
    PROVE  /\ caller' \in [Caller -> CallerState] /\ caller'[c] = x
           /\ \A d \in Caller \ {c} : /\ caller'[d] = caller[d]
                                      /\ \A n : /\ InManager(d, n)' <=> InManager(d, n)
                                                /\ HalfDone(d, n)' <=> HalfDone(d, n)
<1>1. caller \in [Caller -> CallerState]
  BY DEF RegistryInv, RegistryTypeOK
<1>2. caller' \in [Caller -> CallerState] /\ caller'[c] = x
      /\ \A d \in Caller \ {c} : caller'[d] = caller[d]
  BY <1>1
<1> QED BY <1>2 DEF InManager, HalfDone

-----------------------------------------------------------------------------
(* The readers *)

LEMMA InsideFinite ==
    ASSUME NEW S \in SUBSET Caller
    PROVE  IsFiniteSet(S) /\ Cardinality(S) \in Nat /\ Cardinality(S) <= Cardinality(Caller)
BY RegistryAssumption, FS_Subset, FS_CardinalityType

LEMMA CountedInRange ==
    ASSUME Inside' \in SUBSET Caller, readers' = Cardinality(Inside')
    PROVE  readers' \in 0..Cardinality(Caller)
BY InsideFinite, RegistryAssumption, FS_CardinalityType

LEMMA InsideKept ==
    ASSUME RegistryInv, NEW c \in Caller, NEW x \in CallerState, caller' = [caller EXCEPT ![c] = x],
           x.step # "inside", caller[c].step # "inside", readers' = readers
    PROVE  ReadersCounted'
<1>1. Inside' = Inside
  BY OtherCallers DEF Inside
<1> QED BY <1>1 DEF RegistryInv, ReadersCounted

LEMMA OneEnters ==
    ASSUME RegistryInv, NEW c \in Caller, NEW x \in CallerState, caller' = [caller EXCEPT ![c] = x],
           x.step = "inside", caller[c].step # "inside", readers' = readers + 1
    PROVE  ReadersCounted' /\ readers' \in 0..Cardinality(Caller)
<1>1. Inside' = Inside \cup {c} /\ c \notin Inside /\ Inside \in SUBSET Caller /\ Inside' \in SUBSET Caller
  BY OtherCallers DEF Inside
<1>2. Cardinality(Inside \cup {c}) = Cardinality(Inside) + 1
  BY <1>1, InsideFinite, FS_AddElement
<1>3. readers' = Cardinality(Inside')
  BY <1>1, <1>2 DEF RegistryInv, ReadersCounted
<1> QED BY <1>1, <1>3, CountedInRange DEF ReadersCounted

LEMMA OneLeaves ==
    ASSUME RegistryInv, NEW c \in Caller, NEW x \in CallerState, caller' = [caller EXCEPT ![c] = x],
           x.step # "inside", caller[c].step = "inside", readers' = readers - 1
    PROVE  ReadersCounted' /\ readers' \in 0..Cardinality(Caller)
<1>1. Inside' = Inside \ {c} /\ c \in Inside /\ Inside \in SUBSET Caller /\ Inside' \in SUBSET Caller
  BY OtherCallers DEF Inside
<1>2. Cardinality(Inside \ {c}) = Cardinality(Inside) - 1
  BY <1>1, InsideFinite, FS_RemoveElement
<1>3. readers' = Cardinality(Inside')
  BY <1>1, <1>2 DEF RegistryInv, ReadersCounted
<1> QED BY <1>1, <1>3, CountedInRange DEF ReadersCounted

-----------------------------------------------------------------------------
(* The two tables *)

\* A step that is none of a Manager call on n.
LEMMA CoherentKept ==
    ASSUME RegistryInv, NEW n \in Name, overlapped' = overlapped,
           remote'[n] = remote[n], registered'[n] = registered[n],
           remote[n] = NoSkill /\ n \in disabled \cup revived => n \in disabled' \cup revived',
           \A d \in Caller : /\ InManager(d, n)' => InManager(d, n)
                             /\ HalfDone(d, n)' <=> HalfDone(d, n)
                             /\ HalfDone(d, n) => /\ caller'[d].call = caller[d].call
                                                  /\ caller'[d].endpoint = caller[d].endpoint
    PROVE  Coherent(n)'
<1>1. Coherent(n)
  BY DEF RegistryInv
<1>2. SUFFICES ASSUME n \notin overlapped
               PROVE  /\ Alone(n)' /\ \A c \in Caller : HalfDoneSound(c, n)'
                      /\ (\A c \in Caller : ~HalfDone(c, n)') => Agree(n)'
  BY DEF Coherent
<1>3. Alone(n)'
  BY <1>1, <1>2 DEF Coherent, Alone
<1>4. ASSUME NEW c \in Caller PROVE HalfDoneSound(c, n)'
  BY <1>1, <1>2 DEF Coherent, HalfDoneSound
<1>5. (\A c \in Caller : ~HalfDone(c, n)') => Agree(n)'
  BY <1>1, <1>2 DEF Coherent, Agree
<1> QED BY <1>3, <1>4, <1>5

\* A step of c within one call, or one that begins or ends a call that is none to the
\* Manager, and leaves the tables alone.
LEMMA TablesKept ==
    ASSUME RegistryInv, NEW c \in Caller, NEW x \in CallerState, caller' = [caller EXCEPT ![c] = x],
           UNCHANGED <<remote, registered, disabled, overlapped, revived>>,
           \/ /\ x.call = caller[c].call /\ x.name = caller[c].name /\ x.endpoint = caller[c].endpoint
              /\ caller[c].step \notin {"idle", "manager"} /\ x.step \notin {"idle", "manager"}
           \/ /\ caller[c].step = "idle" \/ caller[c].call \notin OfManager
              /\ x.step = "idle" \/ x.call \notin OfManager,
           NEW n \in Name
    PROVE  Coherent(n)'
<1>1. caller'[c] = x
  BY OtherCallers
<1>2. /\ InManager(c, n)' => InManager(c, n)
      /\ HalfDone(c, n)' <=> HalfDone(c, n)
      /\ HalfDone(c, n) => caller'[c].call = caller[c].call /\ caller'[c].endpoint = caller[c].endpoint
  BY <1>1 DEF InManager, HalfDone
<1>3. \A d \in Caller : /\ InManager(d, n)' => InManager(d, n)
                        /\ HalfDone(d, n)' <=> HalfDone(d, n)
                        /\ HalfDone(d, n) => /\ caller'[d].call = caller[d].call
                                             /\ caller'[d].endpoint = caller[d].endpoint
  BY <1>2, OtherCallers
<1> QED BY <1>3, CoherentKept

\* One caller moves, and the invariant follows from what it does to each part.
LEMMA OneMoves ==
    ASSUME RegistryInv, NEW c \in Caller, NEW x \in CallerState, caller' = [caller EXCEPT ![c] = x],
           remote' \in [Name -> Endpoint \cup {NoSkill}],
           registered' = registered, disabled' = disabled, revived' = revived,
           overlapped' \subseteq Name,
           holder' \in Caller \cup {Nobody}, writer' \in Caller \cup {Nobody},
           readers' \in 0..Cardinality(Caller), ReadersCounted',
           x.step # "idle" /\ x.call \in OfManager => x.step \in {"manager", "lock", "wait"},
           \A n \in Name : Coherent(n)'
    PROVE  RegistryInv'
<1>1. RegistryTypeOK'
  BY OtherCallers DEF RegistryInv, RegistryTypeOK
<1>2. CallsKeepStep'
  BY OtherCallers DEF RegistryInv, CallsKeepStep
<1> QED BY <1>1, <1>2 DEF RegistryInv

LEMMA Typed ==
    ASSUME RegistryInv
    PROVE  /\ remote \in [Name -> Endpoint \cup {NoSkill}]
           /\ registered \in [Name -> Endpoint \cup {NoSkill, BuiltinSkill}]
           /\ overlapped \subseteq Name
           /\ holder \in Caller \cup {Nobody} /\ writer \in Caller \cup {Nobody}
           /\ readers \in 0..Cardinality(Caller) /\ caller \in [Caller -> CallerState]
           /\ \A c \in Caller : /\ caller[c] \in CallerState /\ caller[c].name \in Name
                                /\ caller[c].endpoint \in Endpoint /\ caller[c].todo \subseteq Name
BY DEF RegistryInv, RegistryTypeOK, CallerState

LEMMA BeginSafe ==
    ASSUME RegistryInv, NEW c \in Caller, Begin(c)
    PROVE  RegistryInv'
<1>1. PICK call \in Calls, n \in Name, e \in Endpoint :
        /\ caller' = [caller EXCEPT ![c] =
             [Idle EXCEPT !.step = FirstStep(call), !.call = call, !.name = n, !.endpoint = e]]
        /\ overlapped' = IF call \in OfManager /\ \E d \in Caller \ {c} : InManager(d, n)
                         THEN overlapped \cup {n} ELSE overlapped
  BY DEF Begin
<1> DEFINE x == [Idle EXCEPT !.step = FirstStep(call), !.call = call, !.name = n, !.endpoint = e]
<1>2. caller[c].step = "idle" /\ UNCHANGED <<remote, registered, disabled, holder, readers, writer, revived>>
  BY DEF Begin
<1>3. /\ FirstStep(call) \in {"manager", "lock", "rlock"}
      /\ call \in OfManager => FirstStep(call) = "manager"
      /\ call \in Call
  BY RegistryAssumption DEF FirstStep, OfManager, Call
<1>4. x \in CallerState /\ x.step = FirstStep(call) /\ x.call = call /\ x.name = n
  BY <1>3, IdleIsState DEF CallerState
<1> HIDE DEF x
<1>5. caller' = [caller EXCEPT ![c] = x]
  BY <1>1 DEF x
<1>6. ReadersCounted'
  BY <1>2, <1>3, <1>4, <1>5, InsideKept
<1>7. \A d \in Caller : ~InManager(c, d)
  BY <1>2 DEF InManager
<1>8. ASSUME NEW m \in Name PROVE Coherent(m)'
  <2>1. CASE call \notin OfManager
    <3>1. overlapped' = overlapped
      BY <1>1, <2>1
    <3> QED BY <1>2, <1>4, <1>5, <2>1, <3>1, TablesKept
  <2>2. CASE call \in OfManager /\ m # n
    <3>1. m \in overlapped' <=> m \in overlapped
      BY <1>1, <2>2
    <3>2. \A d \in Caller : /\ InManager(d, m)' <=> InManager(d, m)
                            /\ HalfDone(d, m)' <=> HalfDone(d, m)
                            /\ HalfDone(d, m) => caller'[d] = caller[d]
      <4>1. ~InManager(c, m) /\ ~InManager(c, m)' /\ ~HalfDone(c, m) /\ ~HalfDone(c, m)'
        BY <1>2, <1>4, <1>5, <2>2, OtherCallers DEF InManager, HalfDone
      <4> QED BY <1>4, <1>5, <4>1, OtherCallers
    <3>3. Coherent(m)
      BY DEF RegistryInv
    <3> QED BY <1>2, <3>1, <3>2, <3>3 DEF Coherent, Alone, HalfDoneSound, Agree
  <2>3. CASE call \in OfManager /\ m = n
    <3>1. SUFFICES ASSUME n \notin overlapped' PROVE Coherent(n)'
      BY <2>3 DEF Coherent
    <3>2. \A d \in Caller \ {c} : ~InManager(d, n) /\ ~InManager(d, n)'
      BY <1>1, <1>4, <1>5, <2>3, <3>1, OtherCallers
    <3>3. \A d \in Caller : ~HalfDone(d, n) /\ ~HalfDone(d, n)'
      <4>1. caller'[c].step = "manager"
        BY <1>3, <1>4, <1>5, <2>3, OtherCallers
      <4> QED BY <1>2, <3>2, <4>1 DEF HalfDone, InManager
    <3>4. Coherent(n) /\ n \notin overlapped
      BY <1>1, <3>1 DEF RegistryInv
    <3>5. Agree(n)'
      BY <1>2, <3>3, <3>4 DEF Coherent, Agree
    <3> QED BY <3>2, <3>3, <3>5 DEF Coherent, Alone, HalfDoneSound
  <2> QED BY <2>1, <2>2, <2>3
<1>9. x.step # "idle" /\ x.call \in OfManager => x.step \in {"manager", "lock", "wait"}
  BY <1>3, <1>4
<1>10. overlapped' \subseteq Name
  BY <1>1, Typed
<1> QED BY <1>2, <1>4, <1>5, <1>6, <1>8, <1>9, <1>10, Typed, OneMoves

LEMMA ListRemotesSafe ==
    ASSUME RegistryInv, NEW c \in Caller, ListRemotes(c)
    PROVE  RegistryInv'
<1>1. /\ caller' = [caller EXCEPT ![c] = Idle] /\ caller[c].call = "remotes" /\ caller[c].step = "manager"
      /\ UNCHANGED <<remote, registered, disabled, holder, readers, writer, overlapped, revived>>
  BY DEF ListRemotes, Returns
<1>2. \A n \in Name : Coherent(n)'
  BY <1>1, IdleIsState, TablesKept DEF OfManager
<1>3. ReadersCounted'
  BY <1>1, IdleIsState, InsideKept
<1> QED BY <1>1, <1>2, <1>3, IdleIsState, Typed, OneMoves

LEMMA SetRemoteSafe ==
    ASSUME RegistryInv, NEW c \in Caller, SetRemote(c)
    PROVE  RegistryInv'
<1> DEFINE n == caller[c].name
           x == [caller[c] EXCEPT !.step = "lock"]
<1>1. /\ caller' = [caller EXCEPT ![c] = x] /\ caller[c].call = "register" /\ caller[c].step = "manager"
      /\ remote' = [remote EXCEPT ![n] = caller[c].endpoint]
      /\ UNCHANGED <<registered, disabled, holder, readers, writer, overlapped, revived>>
  BY DEF SetRemote, Goes
<1>2. StepsTo(caller[c], "lock", x) /\ n \in Name /\ caller[c].endpoint \in Endpoint
  BY Going, Typed
<1> HIDE DEF x
<1>3. x \in CallerState /\ x.step = "lock" /\ x.call = "register" /\ x.name = n
      /\ x.endpoint = caller[c].endpoint
  BY <1>1, <1>2 DEF StepsTo
<1>4. caller'[c] = x
  BY <1>1, <1>3, OtherCallers
<1>5. ReadersCounted'
  BY <1>1, <1>3, InsideKept
<1>6. ASSUME NEW m \in Name PROVE Coherent(m)'
  <2>1. CASE m # n
    <3>1. ~InManager(c, m) /\ ~InManager(c, m)' /\ ~HalfDone(c, m) /\ ~HalfDone(c, m)'
      BY <1>3, <1>4, <2>1 DEF InManager, HalfDone
    <3>2. \A d \in Caller : /\ InManager(d, m)' => InManager(d, m)
                            /\ HalfDone(d, m)' <=> HalfDone(d, m)
                            /\ HalfDone(d, m) => /\ caller'[d].call = caller[d].call
                                                 /\ caller'[d].endpoint = caller[d].endpoint
      BY <1>1, <1>3, <3>1, OtherCallers
    <3>3. remote'[m] = remote[m]
      BY <1>1, <2>1, Typed
    <3> QED BY <1>1, <3>2, <3>3, CoherentKept
  <2>2. CASE m = n
    <3>1. SUFFICES ASSUME m \notin overlapped PROVE Coherent(m)'
      BY <1>1 DEF Coherent
    <3>2. InManager(c, m) /\ InManager(c, m)' /\ HalfDone(c, m)'
      BY <1>1, <1>3, <1>4, <2>2 DEF InManager, HalfDone, OfManager
    <3>3. \A d \in Caller \ {c} : ~InManager(d, m)
      BY <1>2, <3>1, <3>2 DEF RegistryInv, Coherent, Alone
    <3>4. \A d \in Caller \ {c} : ~InManager(d, m)' /\ ~HalfDone(d, m)'
      BY <1>1, <1>3, <3>3, OtherCallers DEF HalfDone
    <3>5. HalfDoneSound(c, m)'
      BY <1>1, <1>2, <1>3, <1>4, <2>2, Typed DEF HalfDoneSound
    <3> QED BY <3>2, <3>4, <3>5 DEF Coherent, Alone, HalfDoneSound
  <2> QED BY <2>1, <2>2
<1>7. remote' \in [Name -> Endpoint \cup {NoSkill}]
  BY <1>1, <1>2, Typed
<1> HIDE DEF n
<1> QED BY <1>1, <1>3, <1>5, <1>6, <1>7, Typed, OneMoves

LEMMA DeleteRemoteSafe ==
    ASSUME RegistryInv, NEW c \in Caller, DeleteRemote(c)
    PROVE  RegistryInv'
<1> DEFINE n == caller[c].name
           x == [caller[c] EXCEPT !.step = "lock"]
<1>1. /\ caller[c].call = "unregister" /\ caller[c].step = "manager"
      /\ UNCHANGED <<registered, disabled, readers, writer, overlapped, revived>>
  BY DEF DeleteRemote
<1>2. CASE remote[n] = NoSkill
  <2>1. caller' = [caller EXCEPT ![c] = Idle] /\ UNCHANGED <<remote, holder>>
    BY <1>2 DEF DeleteRemote, Returns
  <2>2. ReadersCounted'
    BY <1>1, <2>1, IdleIsState, InsideKept
  <2>3. ASSUME NEW m \in Name PROVE Coherent(m)'
    <3>1. ~InManager(c, m)' /\ ~HalfDone(c, m) /\ ~HalfDone(c, m)'
      BY <1>1, <2>1, IdleIsState, OtherCallers DEF InManager, HalfDone
    <3>2. \A d \in Caller : /\ InManager(d, m)' => InManager(d, m)
                            /\ HalfDone(d, m)' <=> HalfDone(d, m)
                            /\ HalfDone(d, m) => /\ caller'[d].call = caller[d].call
                                                 /\ caller'[d].endpoint = caller[d].endpoint
      BY <2>1, <3>1, IdleIsState, OtherCallers
    <3> QED BY <1>1, <2>1, <3>2, CoherentKept
  <2> QED BY <1>1, <2>1, <2>2, <2>3, IdleIsState, Typed, OneMoves
<1>3. CASE remote[n] # NoSkill
  <2>1. /\ caller' = [caller EXCEPT ![c] = x] /\ remote' = [remote EXCEPT ![n] = NoSkill]
        /\ holder' = c
    BY <1>3 DEF DeleteRemote, Goes
  <2>2. StepsTo(caller[c], "lock", x) /\ n \in Name
    BY Going, Typed
  <2> HIDE DEF x
  <2>3. x \in CallerState /\ x.step = "lock" /\ x.call = "unregister" /\ x.name = n
    BY <1>1, <2>2 DEF StepsTo
  <2>4. caller'[c] = x
    BY <2>1, <2>3, OtherCallers
  <2>5. ReadersCounted'
    BY <1>1, <2>1, <2>3, InsideKept
  <2>6. ASSUME NEW m \in Name PROVE Coherent(m)'
    <3>1. CASE m # n
      <4>1. ~InManager(c, m) /\ ~InManager(c, m)' /\ ~HalfDone(c, m) /\ ~HalfDone(c, m)'
        BY <2>3, <2>4, <3>1 DEF InManager, HalfDone
      <4>2. \A d \in Caller : /\ InManager(d, m)' => InManager(d, m)
                              /\ HalfDone(d, m)' <=> HalfDone(d, m)
                              /\ HalfDone(d, m) => /\ caller'[d].call = caller[d].call
                                                   /\ caller'[d].endpoint = caller[d].endpoint
        BY <2>1, <2>3, <4>1, OtherCallers
      <4>3. remote'[m] = remote[m]
        BY <2>1, <3>1, Typed
      <4> QED BY <1>1, <4>2, <4>3, CoherentKept
    <3>2. CASE m = n
      <4>1. SUFFICES ASSUME m \notin overlapped PROVE Coherent(m)'
        BY <1>1 DEF Coherent
      <4>2. InManager(c, m) /\ InManager(c, m)' /\ HalfDone(c, m)'
        BY <1>1, <2>3, <2>4, <3>2 DEF InManager, HalfDone, OfManager
      <4>3. \A d \in Caller \ {c} : ~InManager(d, m)
        BY <4>1, <4>2 DEF RegistryInv, Coherent, Alone
      <4>4. \A d \in Caller \ {c} : ~InManager(d, m)' /\ ~HalfDone(d, m)'
        BY <2>1, <2>3, <4>3, OtherCallers DEF HalfDone
      <4>5. HalfDoneSound(c, m)'
        BY <2>1, <2>3, <2>4, <3>2, Typed DEF HalfDoneSound
      <4> QED BY <4>2, <4>4, <4>5 DEF Coherent, Alone, HalfDoneSound
    <3> QED BY <3>1, <3>2
  <2>7. remote' \in [Name -> Endpoint \cup {NoSkill}]
    BY <2>1, <2>2, Typed
  <2> HIDE DEF n
  <2> QED BY <1>1, <2>1, <2>3, <2>5, <2>6, <2>7, Typed, OneMoves
<1> QED BY <1>2, <1>3

LEMMA AnnounceSafe ==
    ASSUME RegistryInv, NEW c \in Caller, Announce(c)
    PROVE  RegistryInv'
<1> DEFINE x == [caller[c] EXCEPT !.step = "wait"]
<1>1. /\ caller' = [caller EXCEPT ![c] = x] /\ writer' = c /\ caller[c].step = "lock"
      /\ UNCHANGED <<remote, registered, disabled, holder, readers, overlapped, revived>>
  BY DEF Announce, Goes
<1>2. StepsTo(caller[c], "wait", x)
  BY Going, Typed
<1> HIDE DEF x
<1>3. ReadersCounted'
  BY <1>1, <1>2, InsideKept DEF StepsTo
<1>4. \A n \in Name : Coherent(n)'
  BY <1>1, <1>2, TablesKept DEF StepsTo
<1> QED BY <1>1, <1>2, <1>3, <1>4, Typed, OneMoves DEF StepsTo

LEMMA RLockSafe ==
    ASSUME RegistryInv, NEW c \in Caller, RLock(c)
    PROVE  RegistryInv'
<1>1. caller[c].step = "rlock" /\ caller[c].call \notin OfManager
  BY DEF RLock, RegistryInv, CallsKeepStep
<1>2. UNCHANGED <<remote, registered, disabled, holder, writer, overlapped, revived>>
  BY DEF RLock
<1>3. CASE writer = Nobody
  <2> DEFINE x == [caller[c] EXCEPT !.step = "inside", !.todo = Name \ disabled]
  <2>1. readers' = readers + 1 /\ caller' = [caller EXCEPT ![c].step = "inside", ![c].todo = Name \ disabled]
    BY <1>3 DEF RLock
  <2>2. caller' = [caller EXCEPT ![c] = x]
    BY <2>1, Typed
  <2>3. StepsTo(caller[c], "inside", x)
    BY Entering, Typed
  <2> HIDE DEF x
  <2>4. ReadersCounted' /\ readers' \in 0..Cardinality(Caller)
    BY <1>1, <2>1, <2>2, <2>3, OneEnters DEF StepsTo
  <2>5. \A n \in Name : Coherent(n)'
    BY <1>1, <1>2, <2>2, <2>3, TablesKept DEF StepsTo
  <2> QED BY <1>1, <1>2, <2>2, <2>3, <2>4, <2>5, Typed, OneMoves DEF StepsTo
<1>4. CASE writer # Nobody
  <2> DEFINE x == [caller[c] EXCEPT !.step = "blocked"]
  <2>1. readers' = readers /\ caller' = [caller EXCEPT ![c] = x]
    BY <1>4 DEF RLock, Goes
  <2>2. StepsTo(caller[c], "blocked", x)
    BY Going, Typed
  <2> HIDE DEF x
  <2>3. ReadersCounted'
    BY <1>1, <2>1, <2>2, InsideKept DEF StepsTo
  <2>4. \A n \in Name : Coherent(n)'
    BY <1>1, <1>2, <2>1, <2>2, TablesKept DEF StepsTo
  <2> QED BY <1>1, <1>2, <2>1, <2>2, <2>3, <2>4, Typed, OneMoves DEF StepsTo
<1> QED BY <1>3, <1>4

LEMMA Asking ==
    ASSUME NEW s \in CallerState, NEW todo \in SUBSET Name, NEW ranked \in SUBSET Name
    PROVE  StepsTo(s, s.step, [s EXCEPT !.todo = todo, !.ranked = ranked])
BY DEF CallerState, StepsTo

LEMMA AsksSafe ==
    ASSUME RegistryInv, NEW c \in Caller, NEW n \in Name, Asks(c, n)
    PROVE  RegistryInv'
<1>1. PICK matched \in BOOLEAN :
        caller' = [caller EXCEPT ![c].todo = @ \ {n},
                                 ![c].ranked = IF matched THEN @ \cup {n} ELSE @]
  BY DEF Asks
<1> DEFINE todo == caller[c].todo \ {n}
           ranked == IF matched THEN caller[c].ranked \cup {n} ELSE caller[c].ranked
           x == [caller[c] EXCEPT !.todo = todo, !.ranked = ranked]
<1>2. caller' = [caller EXCEPT ![c] = x]
  BY <1>1, Typed
<1>3. todo \in SUBSET Name /\ ranked \in SUBSET Name
  BY Typed DEF CallerState
<1>4. StepsTo(caller[c], "inside", x)
  <2>1. caller[c].step = "inside"
    BY DEF Asks
  <2> HIDE DEF todo, ranked
  <2> QED BY <1>3, <2>1, Asking, Typed
<1> HIDE DEF x
<1>5. /\ UNCHANGED <<remote, registered, disabled, holder, readers, writer, overlapped, revived>>
      /\ caller[c].step = "inside" /\ caller[c].call = "match"
  BY DEF Asks
<1>6. Inside' = Inside
  BY <1>2, <1>4, <1>5, OtherCallers DEF Inside, StepsTo
<1>7. ReadersCounted'
  BY <1>5, <1>6 DEF RegistryInv, ReadersCounted
<1>8. \A m \in Name : Coherent(m)'
  BY <1>2, <1>4, <1>5, TablesKept DEF StepsTo, OfManager
<1>9. ~(x.call \in OfManager)
  BY <1>4, <1>5 DEF StepsTo, OfManager
<1> QED BY <1>2, <1>4, <1>5, <1>7, <1>8, <1>9, Typed, OneMoves DEF StepsTo

LEMMA LeaveSafe ==
    ASSUME RegistryInv, NEW c \in Caller, Leave(c)
    PROVE  RegistryInv'
<1>1. /\ caller' = [caller EXCEPT ![c] = Idle] /\ readers' = readers - 1 /\ caller[c].step = "inside"
      /\ UNCHANGED <<remote, registered, disabled, holder, writer, overlapped, revived>>
      /\ caller[c].call \notin OfManager
  BY DEF Leave, RUnlock, Returns, RegistryInv, CallsKeepStep
<1>2. ReadersCounted' /\ readers' \in 0..Cardinality(Caller)
  BY <1>1, IdleIsState, OneLeaves
<1>3. \A n \in Name : Coherent(n)'
  BY <1>1, IdleIsState, TablesKept
<1> QED BY <1>1, <1>2, <1>3, IdleIsState, Typed, OneMoves

HeldBack == {d \in Caller : caller[d].step = "blocked"}

\* Unlock: the writer is done and the readers it held back are inside.
LEMMA WriteCallers ==
    ASSUME RegistryInv, NEW c \in Caller, Write(c)
    PROVE  /\ caller' \in [Caller -> CallerState] /\ caller'[c] = Idle /\ Inside' = HeldBack
           /\ CallsKeepStep'
           /\ \A d \in Caller \ {c} : /\ caller'[d].call = caller[d].call
                                      /\ caller'[d].endpoint = caller[d].endpoint
                                      /\ \A n : /\ InManager(d, n)' <=> InManager(d, n)
                                                /\ HalfDone(d, n)' <=> HalfDone(d, n)
<1>1. /\ caller' = [d \in Caller |->
              IF d = c THEN Idle
              ELSE IF d \in HeldBack
              THEN [caller[d] EXCEPT !.step = "inside", !.todo = Name \ disabled']
              ELSE caller[d]]
      /\ caller[c].step = "wait" /\ readers = 0
  BY DEF Write, HeldBack, NoReaders
<1>2. caller'[c] = Idle
  BY <1>1
<1>3. ASSUME NEW d \in Caller \ {c}, d \in HeldBack
      PROVE  StepsTo(caller[d], "inside", caller'[d]) /\ caller[d].call \notin OfManager
  <2>1. caller'[d] = [caller[d] EXCEPT !.step = "inside", !.todo = Name \ disabled']
    BY <1>1, <1>3
  <2>2. StepsTo(caller[d], "inside", caller'[d])
    <3>1. ASSUME NEW todo, todo = Name \ disabled'
          PROVE  StepsTo(caller[d], "inside", [caller[d] EXCEPT !.step = "inside", !.todo = todo])
      BY <3>1, Entering, Typed
    <3> QED BY <2>1, <3>1
  <2> QED BY <1>3, <2>2 DEF RegistryInv, CallsKeepStep, HeldBack
<1>4. ASSUME NEW d \in Caller \ {c}, d \notin HeldBack
      PROVE  caller'[d] = caller[d]
  BY <1>1, <1>4
<1>5. caller' \in [Caller -> CallerState]
  <2>1. \A d \in Caller : caller'[d] \in CallerState
    BY <1>2, <1>3, <1>4, IdleIsState, Typed DEF StepsTo
  <2> QED BY <1>1, <2>1
<1>6. Inside = {}
  <2>1. Cardinality(Inside) = 0 /\ Inside \in SUBSET Caller
    BY <1>1 DEF RegistryInv, ReadersCounted, Inside
  <2> QED BY <2>1, InsideFinite, FS_EmptySet
<1>7. \A d \in Caller : caller'[d].step = "inside" <=> d \in HeldBack
  <2>1. c \notin HeldBack /\ caller'[c].step # "inside"
    BY <1>1, <1>2, IdleIsState DEF HeldBack
  <2>2. \A d \in Caller : caller[d].step # "inside"
    BY <1>6 DEF Inside
  <2> QED BY <1>3, <1>4, <2>1, <2>2 DEF StepsTo
<1>8. Inside' = HeldBack
  BY <1>7 DEF Inside, HeldBack
<1>9. CallsKeepStep'
  BY <1>2, <1>3, <1>4, IdleIsState DEF StepsTo, RegistryInv, CallsKeepStep
<1>10. ASSUME NEW d \in Caller \ {c}
       PROVE  /\ caller'[d].call = caller[d].call
              /\ caller'[d].endpoint = caller[d].endpoint
              /\ \A n : /\ InManager(d, n)' <=> InManager(d, n)
                        /\ HalfDone(d, n)' <=> HalfDone(d, n)
  <2>1. CASE d \in HeldBack
    BY <1>3, <2>1 DEF StepsTo, InManager, HalfDone
  <2>2. CASE d \notin HeldBack
    BY <1>4, <2>2 DEF InManager, HalfDone
  <2> QED BY <2>1, <2>2
<1> QED BY <1>2, <1>5, <1>8, <1>9, <1>10

LEMMA WriteSafe ==
    ASSUME RegistryInv, NEW c \in Caller, Write(c)
    PROVE  RegistryInv'
<1> DEFINE call == caller[c].call
           n == caller[c].name
           enables == call = "enable" /\ n \in disabled
<1>1. /\ caller[c].step = "wait" /\ readers = 0 /\ writer' = Nobody
      /\ registered' = IF call = "register" THEN [registered EXCEPT ![n] = caller[c].endpoint]
                       ELSE registered
      /\ disabled' = IF Disables(call) /\ registered[n] # NoSkill THEN disabled \cup {n}
                     ELSE IF enables THEN disabled \ {n}
                     ELSE disabled
      /\ revived' = IF enables /\ remote[n] = NoSkill THEN revived \cup {n} ELSE revived
      /\ holder' = IF holder = c THEN Nobody ELSE holder
      /\ readers' = readers + Cardinality(HeldBack)
      /\ UNCHANGED <<remote, overlapped>>
  BY DEF Write, HeldBack, NoReaders
<1>2. n \in Name /\ caller[c].endpoint \in Endpoint
  BY Typed
<1>3. ReadersCounted' /\ readers' \in 0..Cardinality(Caller)
  <2>1. HeldBack \in SUBSET Caller
    BY DEF HeldBack
  <2>2. Inside' \in SUBSET Caller /\ readers' = Cardinality(Inside')
    BY <1>1, <2>1, WriteCallers, InsideFinite
  <2> QED BY <2>2, CountedInRange DEF ReadersCounted
<1>4. RegistryTypeOK'
  <2>1. registered' \in [Name -> Endpoint \cup {NoSkill, BuiltinSkill}]
    BY <1>1, <1>2, Typed
  <2>2. disabled' \subseteq Name /\ revived' \subseteq Name
    BY <1>1, <1>2 DEF RegistryInv, RegistryTypeOK
  <2> QED BY <1>1, <1>3, <2>1, <2>2, WriteCallers, Typed DEF RegistryTypeOK
<1>5. \A m : ~InManager(c, m)' /\ ~HalfDone(c, m)'
  BY WriteCallers, IdleIsState DEF InManager, HalfDone
<1>6. ASSUME NEW m \in Name PROVE Coherent(m)'
  <2>1. CASE ~InManager(c, m)
    <3>1. registered'[m] = registered[m]
      BY <1>1, <1>2, <2>1, Typed DEF InManager, OfManager
    <3>2. remote[m] = NoSkill /\ m \in disabled \cup revived => m \in disabled' \cup revived'
      BY <1>1
    <3>3. \A d \in Caller : /\ InManager(d, m)' => InManager(d, m)
                            /\ HalfDone(d, m)' <=> HalfDone(d, m)
                            /\ HalfDone(d, m) => /\ caller'[d].call = caller[d].call
                                                 /\ caller'[d].endpoint = caller[d].endpoint
      <4>1. ~HalfDone(c, m)
        BY <2>1 DEF HalfDone
      <4> QED BY <1>5, <4>1, WriteCallers
    <3> QED BY <1>1, <3>1, <3>2, <3>3, CoherentKept
  <2>2. CASE InManager(c, m)
    <3>1. SUFFICES ASSUME m \notin overlapped PROVE Coherent(m)'
      BY <1>1 DEF Coherent
    <3>2. n = m /\ call \in OfManager /\ HalfDone(c, m)
      BY <1>1, <2>2 DEF InManager, HalfDone
    <3>3. \A d \in Caller \ {c} : ~InManager(d, m)
      BY <2>2, <3>1 DEF RegistryInv, Coherent, Alone
    <3>4. \A d \in Caller : ~InManager(d, m)' /\ ~HalfDone(d, m)'
      BY <1>5, <3>3, WriteCallers DEF HalfDone
    <3>5. HalfDoneSound(c, m)
      BY <3>1 DEF RegistryInv, Coherent
    <3>6. CASE call = "register"
      <4>1. remote'[m] = caller[c].endpoint /\ registered'[m] = caller[c].endpoint
        BY <1>1, <1>2, <3>2, <3>5, <3>6, Typed DEF HalfDoneSound
      <4> QED BY <1>2, <3>4, <4>1, RegistryAssumption DEF Coherent, Alone, HalfDoneSound, Agree
    <3>7. CASE call = "unregister"
      <4>1. remote'[m] = NoSkill
        BY <1>1, <3>2, <3>5, <3>7 DEF HalfDoneSound
      <4>2. registered'[m] = NoSkill \/ m \in disabled'
        BY <1>1, <3>2, <3>7 DEF Disables
      <4> QED BY <3>4, <4>1, <4>2 DEF Coherent, Alone, HalfDoneSound, Agree
    <3> QED BY <3>2, <3>6, <3>7 DEF OfManager
  <2> QED BY <2>1, <2>2
<1> QED BY <1>3, <1>4, <1>6, WriteCallers DEF RegistryInv

-----------------------------------------------------------------------------
(* The invariant and what it says *)

LEMMA RegistryInitial ==
    ASSUME RegistryInit
    PROVE  RegistryInv
<1>1. Inside = {}
  BY IdleIsState DEF RegistryInit, Inside
<1>2. Cardinality(Inside) = 0 /\ Cardinality(Caller) \in Nat
  BY <1>1, RegistryAssumption, FS_EmptySet, FS_CardinalityType
<1>3. RegistryTypeOK
  BY <1>2, IdleIsState, RegistryAssumption DEF RegistryInit, RegistryTypeOK
<1>4. ReadersCounted
  BY <1>2 DEF RegistryInit, ReadersCounted
<1>5. CallsKeepStep /\ \A n : \A c \in Caller : ~InManager(c, n)
  BY IdleIsState DEF RegistryInit, CallsKeepStep, InManager
<1>6. \A n \in Name : Agree(n)
  BY DEF RegistryInit, Agree
<1> QED BY <1>3, <1>4, <1>5, <1>6 DEF RegistryInv, Coherent, Alone, HalfDoneSound, HalfDone

LEMMA RegistryInductive ==
    ASSUME RegistryInv, [RegistryNext]_registryVars
    PROVE  RegistryInv'
<1>1. ASSUME NEW c \in Caller, Begin(c) PROVE RegistryInv'
  BY <1>1, BeginSafe
<1>2. ASSUME NEW c \in Caller, TakesLock(c) PROVE RegistryInv'
  BY <1>2, ListRemotesSafe, SetRemoteSafe, DeleteRemoteSafe, AnnounceSafe DEF TakesLock
<1>3. ASSUME NEW c \in Caller, Write(c) PROVE RegistryInv'
  BY <1>3, WriteSafe
<1>4. ASSUME NEW c \in Caller, RLock(c) PROVE RegistryInv'
  BY <1>4, RLockSafe
<1>5. ASSUME NEW c \in Caller, AsksSkill(c) PROVE RegistryInv'
  BY <1>5, AsksSafe DEF AsksSkill
<1>6. ASSUME NEW c \in Caller, Leave(c) PROVE RegistryInv'
  BY <1>6, LeaveSafe
<1>7. CASE UNCHANGED registryVars
  BY <1>7 DEF registryVars, RegistryInv, RegistryTypeOK, ReadersCounted, Inside, CallsKeepStep,
              Coherent, Alone, HalfDoneSound, HalfDone, InManager, Agree
<1> QED BY <1>1, <1>2, <1>3, <1>4, <1>5, <1>6, <1>7 DEF RegistryNext

\* The readers of Registry.mu are counted, and a Manager call that is half done is alone
\* with its name or the name is known as overlapped.
THEOREM RegistryInvariance == RegistrySpec => []RegistryInv
<1>1. RegistryInit => RegistryInv
  BY RegistryInitial
<1>2. RegistryInv /\ [RegistryNext]_registryVars => RegistryInv'
  BY RegistryInductive
<1> QED BY <1>1, <1>2, PTL DEF RegistrySpec

\* Manager calls on a name that never overlapped leave the Manager's and the registry's
\* table in agreement, however many callers enable, disable, match and list beside them:
\* Register and Unregister each write the two in two critical sections.
THEOREM SequentialCallsKeepAgreement == FairRegistry => []SequentialCallsAgree
<1>1. RegistryInv => SequentialCallsAgree
  BY DEF RegistryInv, SequentialCallsAgree, Coherent, HalfDone, Settled
<1> QED BY <1>1, RegistryInvariance, PTL DEF FairRegistry
=============================================================================
