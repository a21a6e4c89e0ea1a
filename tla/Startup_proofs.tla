--------------------------- MODULE Startup_proofs ---------------------------
(***************************************************************************)
(* Proofs about BotStart and Startup: for any number of updates, tokens    *)
(* and delays of the bridge, and however long a migration hangs.           *)
(***************************************************************************)
EXTENDS Startup, TLAPS, FiniteSetTheorems

-----------------------------------------------------------------------------
(* One send *)

\* The send u takes these values, and nothing else of the sends changes.
Goes(u, step, attempt, wait, age, outcome) ==
    /\ send' \in [Update -> Send]
    /\ \A v \in Update \ {u} : send'[v] = send[v]
    /\ send'[u].step = step /\ send'[u].attempt = attempt /\ send'[u].wait = wait
    /\ send'[u].age = age /\ send'[u].outcome = outcome /\ send'[u].early = send[u].early

LEMMA SendFields ==
    ASSUME NEW u \in Update, send \in [Update -> Send]
    PROVE  /\ send[u] \in Send
           /\ send[u].attempt \in 0..3 /\ send[u].wait \in 0..5 /\ send[u].age \in 0..21
           /\ send[u].outcome \in Outcome \cup {"none"} /\ send[u].early \in BOOLEAN
BY DEF Send, Attempts, defaultAttemptTimeout, defaultDeadline

LEMMA StepGoes ==
    ASSUME NEW u \in Update, send \in [Update -> Send],
           NEW step \in {"arrived", "token", "left"}, send' = [send EXCEPT ![u].step = step]
    PROVE  Goes(u, step, send[u].attempt, send[u].wait, send[u].age, send[u].outcome)
<1>1. send[u] \in Send
  BY SendFields
<1>2. [send[u] EXCEPT !.step = step] \in Send
  BY <1>1 DEF Send
<1> QED BY <1>1, <1>2 DEF Goes, Send

LEMMA AttemptGoes ==
    ASSUME NEW u \in Update, send \in [Update -> Send], NEW n \in 0..Attempts,
           send' = [send EXCEPT ![u].step = "post", ![u].attempt = n]
    PROVE  Goes(u, "post", n, send[u].wait, send[u].age, send[u].outcome)
<1>1. send[u] \in Send
  BY SendFields
<1>2. [send[u] EXCEPT !.step = "post", !.attempt = n] \in Send
  BY <1>1 DEF Send
<1> QED BY <1>1, <1>2 DEF Goes, Send

LEMMA BackoffGoes ==
    ASSUME NEW u \in Update, send \in [Update -> Send], NEW w \in 0..defaultAttemptTimeout,
           send' = [send EXCEPT ![u].step = "backoff", ![u].wait = w]
    PROVE  Goes(u, "backoff", send[u].attempt, w, send[u].age, send[u].outcome)
<1>1. send[u] \in Send
  BY SendFields
<1>2. [send[u] EXCEPT !.step = "backoff", !.wait = w] \in Send
  BY <1>1 DEF Send
<1> QED BY <1>1, <1>2 DEF Goes, Send

LEMMA EndGoes ==
    ASSUME NEW u \in Update, send \in [Update -> Send], NEW step \in {"counted", "left"},
           NEW outcome \in Outcome, Ends(u, step, outcome)
    PROVE  Goes(u, step, send[u].attempt, 0, 0, outcome)
<1>1. send[u] \in Send
  BY SendFields
<1>2. 0 \in 0..defaultAttemptTimeout /\ 0 \in 0..defaultDeadline
  BY DEF defaultAttemptTimeout, defaultDeadline
<1>3. [send[u] EXCEPT !.step = step, !.outcome = outcome, !.wait = 0, !.age = 0] \in Send
  BY <1>1, <1>2 DEF Send
<1>4. send' = [send EXCEPT ![u] = [send[u] EXCEPT !.step = step, !.outcome = outcome, !.wait = 0, !.age = 0]]
  BY DEF Ends
<1> QED BY <1>1, <1>3, <1>4 DEF Goes, Send

-----------------------------------------------------------------------------
(* Counting the sends *)

LEMMA Updates ==
    /\ IsFiniteSet(Update) /\ Cardinality(Update) \in Nat
    /\ MaxInFlight \in Nat
BY ForwarderAssumption, FS_CardinalityType

LEMMA SubsetCount ==
    ASSUME NEW A \in SUBSET Update
    PROVE  IsFiniteSet(A) /\ Cardinality(A) \in 0..Cardinality(Update) /\ (Cardinality(A) = 0 <=> A = {})
<1>1. IsFiniteSet(A) /\ Cardinality(A) <= Cardinality(Update)
  BY Updates, FS_Subset
<1>2. Cardinality(A) \in Nat
  BY <1>1, FS_CardinalityType
<1> QED BY <1>1, <1>2, Updates, FS_EmptySet

\* Two sets of updates that differ in u at most.
LEMMA CountAfter ==
    ASSUME NEW A \in SUBSET Update, NEW B \in SUBSET Update, NEW u \in Update,
           \A v \in Update \ {u} : v \in A <=> v \in B
    PROVE  /\ (u \in A <=> u \in B) => Cardinality(B) = Cardinality(A)
           /\ u \notin A /\ u \in B => Cardinality(B) = Cardinality(A) + 1
           /\ u \in A /\ u \notin B => Cardinality(B) = Cardinality(A) - 1
<1>1. IsFiniteSet(A)
  BY SubsetCount
<1>2. CASE u \in A <=> u \in B
  <2>1. A = B
    BY <1>2
  <2> QED BY <1>2, <2>1
<1>3. CASE u \notin A /\ u \in B
  <2>1. B = A \cup {u}
    BY <1>3
  <2> QED BY <1>1, <1>3, <2>1, FS_AddElement
<1>4. CASE u \in A /\ u \notin B
  <2>1. B = A \ {u}
    BY <1>4
  <2> QED BY <1>1, <1>4, <2>1, FS_RemoveElement
<1> QED BY <1>2, <1>3, <1>4

LEMMA Counted ==
    ASSUME NEW u \in Update, NEW step, NEW attempt, NEW wait, NEW age, NEW outcome,
           Goes(u, step, attempt, wait, age, outcome)
    PROVE  /\ (u \in Admitted <=> step \in {"post", "backoff", "counted"})
                => Cardinality(Admitted') = Cardinality(Admitted)
           /\ u \notin Admitted /\ step \in {"post", "backoff", "counted"}
                => Cardinality(Admitted') = Cardinality(Admitted) + 1
           /\ u \in Admitted /\ step \notin {"post", "backoff", "counted"}
                => Cardinality(Admitted') = Cardinality(Admitted) - 1
           /\ (u \in Holding <=> step \in {"token", "post", "backoff", "counted"})
                => Cardinality(Holding') = Cardinality(Holding)
           /\ u \notin Holding /\ step \in {"token", "post", "backoff", "counted"}
                => Cardinality(Holding') = Cardinality(Holding) + 1
           /\ u \in Holding /\ step \notin {"token", "post", "backoff", "counted"}
                => Cardinality(Holding') = Cardinality(Holding) - 1
<1> DEFINE A == Admitted
           B == Admitted'
           C == Holding
           D == Holding'
<1>1. /\ A \in SUBSET Update /\ B \in SUBSET Update /\ C \in SUBSET Update /\ D \in SUBSET Update
      /\ \A v \in Update \ {u} : (v \in A <=> v \in B) /\ (v \in C <=> v \in D)
      /\ u \in B <=> step \in {"post", "backoff", "counted"}
      /\ u \in D <=> step \in {"token", "post", "backoff", "counted"}
  BY DEF Goes, Admitted, Holding
<1> HIDE DEF A, B, C, D
<1>2. /\ (u \in A <=> u \in B) => Cardinality(B) = Cardinality(A)
      /\ u \notin A /\ u \in B => Cardinality(B) = Cardinality(A) + 1
      /\ u \in A /\ u \notin B => Cardinality(B) = Cardinality(A) - 1
  BY <1>1, CountAfter
<1>3. /\ (u \in C <=> u \in D) => Cardinality(D) = Cardinality(C)
      /\ u \notin C /\ u \in D => Cardinality(D) = Cardinality(C) + 1
      /\ u \in C /\ u \notin D => Cardinality(D) = Cardinality(C) - 1
  BY <1>1, CountAfter
<1> QED BY <1>1, <1>2, <1>3 DEF A, B, C, D

\* What one send does keeps the invariant if its own account stays sound, the counters
\* follow it, and it does not become one that was under way at the signal.
LEMMA OneSend ==
    ASSUME ForwarderInv, phase # "exit", MainWaits, NEW u \in Update,
           NEW step, NEW attempt, NEW wait, NEW age, NEW outcome, Goes(u, step, attempt, wait, age, outcome),
           SendSound(u)', Sending(u)' /\ send[u].early => Sending(u),
           wg' = Cardinality(Admitted'), sem' = Cardinality(Holding'), sem' <= MaxInFlight
    PROVE  ForwarderInv'
<1>1. UNCHANGED <<closed, base, phase, clock>>
  BY DEF MainWaits
<1>2. wg' \in 0..Cardinality(Update) /\ sem' \in 0..MaxInFlight
  <2>1. Admitted' \in SUBSET Update /\ Holding' \in SUBSET Update
    BY DEF Admitted, Holding
  <2>2. Cardinality(Admitted') \in 0..Cardinality(Update) /\ Cardinality(Holding') \in 0..Cardinality(Update)
    BY <2>1, SubsetCount
  <2> QED BY <2>2, Updates
<1>3. ForwarderTypeOK'
  BY <1>1, <1>2 DEF ForwarderInv, ForwarderTypeOK, Goes
<1>4. ASSUME NEW v \in Update PROVE SendSound(v)'
  <2>1. CASE v # u
    BY <1>1, <2>1 DEF ForwarderInv, SendSound, Sending, Goes
  <2> QED BY <2>1
<1>5. ASSUME phase \in {"cancel", "last", "exit"}, NEW v \in Update PROVE ~(Sending(v) /\ send[v].early)'
  <2>1. ~(Sending(v) /\ send[v].early)
    BY <1>5 DEF ForwarderInv
  <2>2. CASE v # u
    BY <2>1, <2>2 DEF Goes, Sending
  <2>3. CASE v = u
    BY <2>1, <2>3 DEF Goes
  <2> QED BY <2>2, <2>3
<1> QED BY <1>1, <1>3, <1>4, <1>5 DEF ForwarderInv

-----------------------------------------------------------------------------
(* The steps of a send *)

LEMMA Beginnings ==
    /\ Begun[1] = 0 /\ Begun[2] = 6 /\ Begun[3] = 15
    /\ defaultBackoff[1] = 1 /\ defaultBackoff[2] = 4
BY DEF Begun, defaultBackoff

\* Three attempts and two backoffs take 20 seconds at most.
LEMMA AgeBound ==
    ASSUME ForwarderInv, NEW u \in Update, Sending(u)
    PROVE  send[u].age <= 20
<1>1. SendSound(u) /\ send[u].wait \in 0..5 /\ send[u].age \in 0..21
  BY SendFields DEF ForwarderInv, ForwarderTypeOK
<1>2. CASE send[u].step = "post"
  <2>1. send[u].attempt \in {1, 2, 3} /\ send[u].age <= send[u].wait + Begun[send[u].attempt]
    BY <1>1, <1>2 DEF SendSound, Attempts
  <2> QED BY <1>1, <2>1, Beginnings
<1>3. CASE send[u].step = "backoff"
  <2>1. send[u].attempt \in {1, 2} /\ send[u].age + send[u].wait <= Begun[send[u].attempt + 1]
    BY <1>1, <1>3 DEF SendSound, Attempts
  <2>2. 1 + 1 = 2 /\ 2 + 1 = 3
    OBVIOUS
  <2> QED BY <1>1, <2>1, <2>2, Beginnings
<1> QED BY <1>2, <1>3 DEF Sending

\* So only Shutdown ends the context of a send.
LEMMA Undone == ASSUME ForwarderInv, NEW u \in Update, Sending(u), CtxDone(u) PROVE ~base
<1>1. send[u].age # defaultDeadline
  BY AgeBound, SendFields DEF ForwarderInv, ForwarderTypeOK, defaultDeadline
<1> QED BY <1>1 DEF CtxDone

LEMMA ArriveInv == ASSUME ForwarderInv, NEW u \in Update, Arrive(u) PROVE ForwarderInv'
<1>1. phase = "run" /\ send[u].step = "none" /\ UNCHANGED <<sem, wg>> /\ MainWaits /\ SendSound(u)
  BY DEF Arrive, ForwarderInv
<1>2. Goes(u, "arrived", send[u].attempt, send[u].wait, send[u].age, send[u].outcome)
  BY StepGoes DEF Arrive, ForwarderInv, ForwarderTypeOK
<1>3. u \notin Admitted /\ u \notin Holding
  BY <1>1 DEF Admitted, Holding
<1>4. SendSound(u)' /\ ~Sending(u)'
  BY <1>1, <1>2 DEF SendSound, Goes, Sending
<1>5. wg' = Cardinality(Admitted') /\ sem' = Cardinality(Holding') /\ sem' <= MaxInFlight
  BY <1>1, <1>2, <1>3, Counted, Updates DEF ForwarderInv, ForwarderTypeOK
<1> QED BY <1>1, <1>2, <1>4, <1>5, OneSend

LEMMA TakeTokenInv == ASSUME ForwarderInv, phase # "exit", NEW u \in Update, TakeToken(u) PROVE ForwarderInv'
<1>1. /\ send[u].step = "arrived" /\ wg' = wg /\ MainWaits /\ SendSound(u)
      /\ send \in [Update -> Send] /\ sem \in 0..MaxInFlight /\ MaxInFlight \in Nat
  BY Updates DEF TakeToken, ForwarderInv, ForwarderTypeOK
<1>2. u \notin Admitted /\ u \notin Holding
  BY <1>1 DEF Admitted, Holding
<1>3. CASE sem < MaxInFlight /\ sem' = sem + 1 /\ send' = [send EXCEPT ![u].step = "token"]
  <2>1. Goes(u, "token", send[u].attempt, send[u].wait, send[u].age, send[u].outcome)
    BY <1>1, <1>3, StepGoes
  <2>2. SendSound(u)' /\ ~Sending(u)'
    BY <1>1, <2>1 DEF SendSound, Goes, Sending
  <2>3. wg' = Cardinality(Admitted') /\ sem' = Cardinality(Holding') /\ sem' <= MaxInFlight
    BY <1>1, <1>2, <1>3, <2>1, Counted DEF ForwarderInv
  <2> QED BY <1>1, <2>1, <2>2, <2>3, OneSend
<1>4. CASE Ends(u, "left", "dropped") /\ sem' = sem
  <2>1. Goes(u, "left", send[u].attempt, 0, 0, "dropped")
    BY <1>1, <1>4, EndGoes DEF Outcome
  <2>2. SendSound(u)' /\ ~Sending(u)'
    BY <2>1 DEF SendSound, Goes, Sending
  <2>3. wg' = Cardinality(Admitted') /\ sem' = Cardinality(Holding') /\ sem' <= MaxInFlight
    BY <1>1, <1>2, <1>4, <2>1, Counted DEF ForwarderInv
  <2> QED BY <1>1, <2>1, <2>2, <2>3, OneSend
<1> QED BY <1>3, <1>4 DEF TakeToken

LEMMA AdmitInv == ASSUME ForwarderInv, phase # "exit", NEW u \in Update, Admit(u) PROVE ForwarderInv'
<1>1. /\ send[u].step = "token" /\ MainWaits /\ SendSound(u)
      /\ send \in [Update -> Send] /\ sem \in 0..MaxInFlight /\ MaxInFlight \in Nat
      /\ send[u].wait \in 0..5 /\ send[u].age \in 0..21
  BY Updates, SendFields DEF Admit, ForwarderInv, ForwarderTypeOK
<1>2. u \notin Admitted /\ u \in Holding
  BY <1>1 DEF Admitted, Holding
<1>3. CASE wg' = wg + 1 /\ send' = [send EXCEPT ![u].step = "post", ![u].attempt = 1] /\ sem' = sem
  <2>1. Goes(u, "post", 1, send[u].wait, send[u].age, send[u].outcome)
    <3>1. 1 \in 0..Attempts
      BY DEF Attempts
    <3> QED BY <1>1, <1>3, <3>1, AttemptGoes
  <2>2. send[u].age <= send[u].wait + Begun[1] /\ ~send[u].early
    BY <1>1, Beginnings DEF SendSound
  <2>3. SendSound(u)'
    BY <2>1, <2>2 DEF SendSound, Goes, Sending, Attempts
  <2>4. wg' = Cardinality(Admitted') /\ sem' = Cardinality(Holding') /\ sem' <= MaxInFlight
    BY <1>1, <1>2, <1>3, <2>1, Counted DEF ForwarderInv
  <2> QED BY <1>1, <2>1, <2>2, <2>3, <2>4, OneSend
<1>4. CASE sem' = sem - 1 /\ Ends(u, "left", "dropped") /\ wg' = wg
  <2>1. Goes(u, "left", send[u].attempt, 0, 0, "dropped")
    BY <1>1, <1>4, EndGoes DEF Outcome
  <2>2. SendSound(u)' /\ ~Sending(u)'
    BY <2>1 DEF SendSound, Goes, Sending
  <2>3. wg' = Cardinality(Admitted') /\ sem' = Cardinality(Holding') /\ sem' <= MaxInFlight
    BY <1>1, <1>2, <1>4, <2>1, Counted DEF ForwarderInv
  <2> QED BY <1>1, <2>1, <2>2, <2>3, OneSend
<1> QED BY <1>3, <1>4 DEF Admit

LEMMA EndsInv ==
    ASSUME ForwarderInv, phase # "exit", NEW u \in Update, Sending(u), NEW outcome \in {"sent", "rejected", "failed"},
           Ends(u, "counted", outcome), UNCHANGED <<sem, wg>>, MainWaits
    PROVE  ForwarderInv'
<1>1. send \in [Update -> Send] /\ sem \in 0..MaxInFlight /\ MaxInFlight \in Nat
  BY Updates DEF ForwarderInv, ForwarderTypeOK
<1>2. u \in Admitted /\ u \in Holding
  BY DEF Admitted, Holding, Sending
<1>3. Goes(u, "counted", send[u].attempt, 0, 0, outcome)
  BY <1>1, EndGoes DEF Outcome
<1>4. SendSound(u)' /\ ~Sending(u)'
  BY <1>3 DEF SendSound, Goes, Sending
<1>5. wg' = Cardinality(Admitted') /\ sem' = Cardinality(Holding') /\ sem' <= MaxInFlight
  BY <1>1, <1>2, <1>3, Counted DEF ForwarderInv
<1> QED BY <1>3, <1>4, <1>5, OneSend

LEMMA PostEndsInv == ASSUME ForwarderInv, phase # "exit", NEW u \in Update, PostEnds(u) PROVE ForwarderInv'
<1>1. /\ send[u].step = "post" /\ MainWaits /\ UNCHANGED <<sem, wg>> /\ SendSound(u) /\ Sending(u)
      /\ send \in [Update -> Send] /\ sem \in 0..MaxInFlight /\ MaxInFlight \in Nat
      /\ send[u].wait \in 0..5 /\ send[u].age \in 0..21
  BY Updates, SendFields DEF PostEnds, ForwarderInv, ForwarderTypeOK, Sending
<1>2. u \in Admitted /\ u \in Holding
  BY <1>1 DEF Admitted, Holding
<1>3. CASE \E outcome \in {"sent", "rejected", "failed"} : Ends(u, "counted", outcome)
  BY <1>1, <1>3, EndsInv
<1>4. CASE /\ send[u].attempt < Attempts
           /\ send' = [send EXCEPT ![u].step = "backoff", ![u].wait = defaultBackoff[send[u].attempt]]
  <2> DEFINE n == send[u].attempt
             w == defaultBackoff[n]
  <2>1. n \in {1, 2} /\ send[u].age <= send[u].wait + Begun[n]
    BY <1>1, <1>4 DEF SendSound, Attempts
  <2>2. w \in 0..defaultAttemptTimeout /\ send[u].age + w <= Begun[n + 1]
    <3>1. 1 + 1 = 2 /\ 2 + 1 = 3
      OBVIOUS
    <3> QED BY <1>1, <2>1, <3>1, Beginnings DEF defaultAttemptTimeout
  <2>3. Goes(u, "backoff", n, w, send[u].age, send[u].outcome)
    BY <1>1, <1>4, <2>2, BackoffGoes
  <2> HIDE DEF n, w
  <2>4. SendSound(u)'
    <3>1. /\ send'[u].step = "backoff" /\ send'[u].attempt = n /\ send'[u].wait = w
          /\ send'[u].age = send[u].age /\ send'[u].early = send[u].early
      BY <2>3 DEF Goes
    <3>2. n \in 1..(Attempts - 1) /\ clock' = clock
      BY <1>1, <2>1 DEF Attempts, MainWaits
    <3>3. send[u].early => clock <= send[u].age
      BY <1>1 DEF SendSound
    <3> QED BY <2>2, <3>1, <3>2, <3>3 DEF SendSound
  <2>5. wg' = Cardinality(Admitted') /\ sem' = Cardinality(Holding') /\ sem' <= MaxInFlight
    BY <1>1, <1>2, <2>3, Counted DEF ForwarderInv
  <2> QED BY <1>1, <2>3, <2>4, <2>5, OneSend
<1> QED BY <1>3, <1>4 DEF PostEnds

LEMMA BackoffEndsInv == ASSUME ForwarderInv, phase # "exit", NEW u \in Update, BackoffEnds(u) PROVE ForwarderInv'
<1>1. /\ send[u].step = "backoff" /\ MainWaits /\ UNCHANGED <<sem, wg>> /\ SendSound(u) /\ Sending(u)
      /\ send \in [Update -> Send] /\ sem \in 0..MaxInFlight /\ MaxInFlight \in Nat
      /\ send[u].wait \in 0..5 /\ send[u].age \in 0..21
  BY Updates, SendFields DEF BackoffEnds, ForwarderInv, ForwarderTypeOK, Sending
<1>2. u \in Admitted /\ u \in Holding
  BY <1>1 DEF Admitted, Holding
<1>3. CASE Ends(u, "counted", "failed")
  BY <1>1, <1>3, EndsInv
<1>4. CASE send[u].wait = 0 /\ send' = [send EXCEPT ![u].step = "post", ![u].attempt = @ + 1]
  <2> DEFINE n == send[u].attempt + 1
  <2>1. n \in 1..Attempts /\ n \in 0..Attempts /\ send[u].age + send[u].wait <= Begun[n]
    BY <1>1 DEF SendSound, Attempts
  <2>2. Goes(u, "post", n, send[u].wait, send[u].age, send[u].outcome)
    BY <1>1, <1>4, <2>1, AttemptGoes
  <2> HIDE DEF n
  <2>3. SendSound(u)'
    <3>1. /\ send'[u].step = "post" /\ send'[u].attempt = n /\ send'[u].wait = 0
          /\ send'[u].age = send[u].age /\ send'[u].early = send[u].early
      BY <1>4, <2>2 DEF Goes
    <3>2. send[u].age <= 0 + Begun[n] /\ clock' = clock
      <4>1. n \in {1, 2, 3}
        BY <2>1 DEF Attempts
      <4> QED BY <1>1, <1>4, <2>1, <4>1, Beginnings DEF MainWaits
    <3>3. send[u].early => clock <= send[u].age
      BY <1>1 DEF SendSound
    <3> QED BY <2>1, <3>1, <3>2, <3>3 DEF SendSound
  <2>4. wg' = Cardinality(Admitted') /\ sem' = Cardinality(Holding') /\ sem' <= MaxInFlight
    BY <1>1, <1>2, <2>2, Counted DEF ForwarderInv
  <2> QED BY <1>1, <2>2, <2>3, <2>4, OneSend
<1> QED BY <1>3, <1>4 DEF BackoffEnds

LEMMA LeaveInv == ASSUME ForwarderInv, phase # "exit", NEW u \in Update, Leave(u) PROVE ForwarderInv'
<1>1. /\ send[u].step = "counted" /\ MainWaits /\ SendSound(u) /\ sem' = sem - 1 /\ wg' = wg - 1
      /\ send \in [Update -> Send] /\ sem \in 0..MaxInFlight /\ MaxInFlight \in Nat
  BY Updates DEF Leave, ForwarderInv, ForwarderTypeOK
<1>2. u \in Admitted /\ u \in Holding
  BY <1>1 DEF Admitted, Holding
<1>3. Goes(u, "left", send[u].attempt, send[u].wait, send[u].age, send[u].outcome)
  BY <1>1, StepGoes DEF Leave
<1>4. SendSound(u)' /\ ~Sending(u)'
  BY <1>1, <1>3 DEF SendSound, Goes, Sending
<1>5. wg' = Cardinality(Admitted') /\ sem' = Cardinality(Holding') /\ sem' <= MaxInFlight
  BY <1>1, <1>2, <1>3, Counted DEF ForwarderInv
<1> QED BY <1>1, <1>3, <1>4, <1>5, OneSend

-----------------------------------------------------------------------------
(* The steps of main *)

LEMMA SignalInv == ASSUME ForwarderInv, Signal PROVE ForwarderInv'
<1>1. /\ phase = "run" /\ phase' = "http" /\ clock = 0 /\ UNCHANGED <<closed, base, clock, sem, wg>>
      /\ send \in [Update -> Send]
  BY DEF Signal, SendsGoOn, ForwarderInv, ForwarderTypeOK
<1>2. ASSUME NEW u \in Update
      PROVE  /\ send'[u] \in Send
             /\ send'[u].step = send[u].step /\ send'[u].attempt = send[u].attempt
             /\ send'[u].wait = send[u].wait /\ send'[u].age = send[u].age
             /\ send'[u].outcome = send[u].outcome /\ send'[u].early = Sending(u)
  <2>1. send'[u] = [send[u] EXCEPT !.early = Sending(u)] /\ send[u] \in Send
    BY <1>1 DEF Signal
  <2>2. Sending(u) \in BOOLEAN
    BY DEF Sending
  <2> DEFINE e == Sending(u)
  <2>3. send'[u] = [send[u] EXCEPT !.early = e] /\ e \in BOOLEAN
    BY <2>1, <2>2
  <2> HIDE DEF e
  <2>4. /\ send'[u] \in Send
        /\ send'[u].step = send[u].step /\ send'[u].attempt = send[u].attempt
        /\ send'[u].wait = send[u].wait /\ send'[u].age = send[u].age
        /\ send'[u].outcome = send[u].outcome /\ send'[u].early = e
    BY <2>1, <2>3 DEF Send
  <2> QED BY <2>4 DEF e
<1>3. send' \in [Update -> Send]
  BY <1>1, <1>2 DEF Signal
<1>4. Admitted' = Admitted /\ Holding' = Holding
  BY <1>2 DEF Admitted, Holding
<1>5. ASSUME NEW u \in Update PROVE SendSound(u)'
  <2>1. Sending(u)' <=> Sending(u)
    BY <1>2 DEF Sending
  <2>2. send[u].age \in 0..21 /\ SendSound(u)
    BY <1>1, SendFields DEF ForwarderInv
  <2>3. 0 <= send[u].age
    BY <2>2
  <2>4. send[u].step \in {"none", "arrived", "token"} => ~send'[u].early
    BY <1>2 DEF Sending
  <2> QED BY <1>1, <1>2, <2>1, <2>2, <2>3, <2>4 DEF SendSound
<1>6. ForwarderTypeOK'
  BY <1>1, <1>3 DEF ForwarderInv, ForwarderTypeOK
<1>7. clock' <= HttpDrain
  BY <1>1 DEF HttpDrain
<1> QED BY <1>1, <1>4, <1>5, <1>6, <1>7 DEF ForwarderInv

\* main goes on and leaves the sends alone.
LEMMA MainInv ==
    ASSUME ForwarderInv, UNCHANGED <<send, clock>>, SendsGoOn, closed' \in BOOLEAN, base' \in BOOLEAN,
           phase' \in {"close", "wait", "cancel", "last", "exit"},
           phase' = "close" => clock <= HttpDrain,
           phase' # "close" => closed',
           base' <=> phase' \notin {"last", "exit"},
           phase' \in {"cancel", "last", "exit"} => \A u \in Update : ~(Sending(u) /\ send[u].early),
           phase' = "exit" => wg = 0
    PROVE  ForwarderInv'
<1>1. UNCHANGED <<send, clock, sem, wg>>
  BY DEF SendsGoOn
<1>2. Admitted' = Admitted /\ Holding' = Holding
  BY <1>1 DEF Admitted, Holding
<1>3. ASSUME NEW u \in Update PROVE SendSound(u)' /\ (Sending(u)' <=> Sending(u))
  BY <1>1 DEF ForwarderInv, SendSound, Sending
<1>4. ForwarderTypeOK'
  BY <1>1 DEF ForwarderInv, ForwarderTypeOK
<1> QED BY <1>1, <1>2, <1>3, <1>4 DEF ForwarderInv

\* Nothing under way at the signal outlasts the budget.
LEMMA EarlyOnesEnded ==
    ASSUME ForwarderInv, wg = 0 \/ BudgetOver, NEW u \in Update, Sending(u), send[u].early
    PROVE  FALSE
<1>1. CASE wg = 0
  <2>1. Admitted \in SUBSET Update /\ u \in Admitted
    BY DEF Admitted, Sending
  <2>2. Cardinality(Admitted) # 0
    BY <2>1, SubsetCount
  <2> QED BY <1>1, <2>2 DEF ForwarderInv
<1>2. CASE BudgetOver
  <2>1. clock >= 22 /\ clock <= send[u].age /\ send[u].age <= 20
    BY <1>2, AgeBound DEF BudgetOver, DrainBudget, defaultDeadline, ForwarderInv, SendSound
  <2>2. clock \in 0..22 /\ send[u].age \in 0..21
    BY SendFields DEF ForwarderInv, ForwarderTypeOK, DrainBudget, defaultDeadline
  <2> QED BY <2>1, <2>2
<1> QED BY <1>1, <1>2

LEMMA MainStepInv == ASSUME ForwarderInv, Main PROVE ForwarderInv'
<1>1. closed \in BOOLEAN /\ base \in BOOLEAN
  BY DEF ForwarderInv, ForwarderTypeOK
<1>2. CASE Signal
  BY <1>2, SignalInv
<1>3. CASE HttpDrained
  BY <1>1, <1>3, MainInv DEF HttpDrained, ForwarderInv
<1>4. CASE Close
  BY <1>1, <1>4, MainInv DEF Close, ForwarderInv
<1>5. CASE WaitEnds
  <2>1. \A u \in Update : ~(Sending(u) /\ send[u].early)
    BY <1>5, EarlyOnesEnded DEF WaitEnds
  <2>2. phase = "wait" /\ phase' = "cancel" /\ UNCHANGED <<send, closed, base, clock>> /\ SendsGoOn
    BY <1>5 DEF WaitEnds
  <2>3. closed /\ base
    BY <2>2 DEF ForwarderInv
  <2> QED BY <1>1, <2>1, <2>2, <2>3, MainInv
<1>6. CASE Cancel
  BY <1>1, <1>6, MainInv DEF Cancel, ForwarderInv
<1>7. CASE LastWait
  BY <1>1, <1>7, MainInv DEF LastWait, ForwarderInv
<1> QED BY <1>2, <1>3, <1>4, <1>5, <1>6, <1>7 DEF Main

-----------------------------------------------------------------------------
(* Time passes *)

LEMMA OlderFields ==
    ASSUME NEW s \in Send,
           s.step \in {"post", "backoff"} => s.age + 1 \in 0..defaultDeadline,
           s.step = "post" => s.wait + 1 \in 0..defaultAttemptTimeout,
           s.step = "backoff" => s.wait - 1 \in 0..defaultAttemptTimeout
    PROVE  /\ Older(s) \in Send
           /\ Older(s).step = s.step /\ Older(s).attempt = s.attempt /\ Older(s).outcome = s.outcome
           /\ Older(s).early = s.early
           /\ Older(s).age = IF s.step \in {"post", "backoff"} THEN s.age + 1 ELSE s.age
           /\ Older(s).wait = CASE s.step = "post" -> s.wait + 1
                               [] s.step = "backoff" -> s.wait - 1
                               [] OTHER -> s.wait
<1>1. CASE s.step = "post"
  <2>1. Older(s) = [s EXCEPT !.age = @ + 1, !.wait = @ + 1]
    BY <1>1 DEF Older
  <2> QED BY <1>1, <2>1 DEF Send
<1>2. CASE s.step = "backoff"
  <2>1. Older(s) = [s EXCEPT !.age = @ + 1, !.wait = @ - 1]
    BY <1>2 DEF Older
  <2> QED BY <1>2, <2>1 DEF Send
<1>3. CASE s.step \notin {"post", "backoff"}
  <2>1. Older(s) = s
    BY <1>3 DEF Older
  <2> QED BY <1>3, <2>1
<1> QED BY <1>1, <1>2, <1>3

LEMMA TickInv == ASSUME ForwarderInv, Tick PROVE ForwarderInv'
<1>1. /\ send \in [Update -> Send] /\ UNCHANGED <<sem, wg, closed, base, phase>>
      /\ send' = [u \in Update |-> Older(send[u])]
      /\ clock' = IF phase = "run" THEN 0 ELSE clock + 1
      /\ clock \in 0..22 /\ phase \in {"run", "http", "wait"}
      /\ phase = "http" => clock < 10
      /\ phase = "wait" => clock < 22
  BY DEF Tick, MainDue, ForwarderInv, ForwarderTypeOK, DrainBudget, defaultDeadline, HttpDrain, BudgetOver
<1>2. clock' \in 0..22 /\ (phase = "http" => clock' <= 10) /\ (phase = "run" => clock' = 0)
      /\ clock' \in {0, clock + 1}
  BY <1>1
<1>3. ASSUME NEW u \in Update
      PROVE  send'[u] \in Send /\ send'[u].step = send[u].step /\ SendSound(u)'
  <2> DEFINE s == send[u]
  <2>1. /\ s \in Send /\ s.wait \in 0..5 /\ s.age \in 0..21 /\ SendSound(u) /\ ~Due(u)
        /\ send'[u] = Older(s)
    BY <1>1, SendFields DEF Tick, ForwarderInv
  <2>2. /\ s.step \in {"post", "backoff"} => s.age + 1 \in 0..defaultDeadline
        /\ s.step = "post" => s.wait + 1 \in 0..defaultAttemptTimeout
        /\ s.step = "backoff" => s.wait - 1 \in 0..defaultAttemptTimeout
    <3>1. s.step \in {"post", "backoff"} => s.age <= 20
      BY AgeBound DEF Sending
    <3>2. s.step = "post" => s.wait # 5
      BY <2>1 DEF Due, defaultAttemptTimeout
    <3>3. s.step = "backoff" => s.wait # 0
      BY <2>1 DEF Due
    <3> HIDE DEF s
    <3> QED BY <2>1, <3>1, <3>2, <3>3 DEF defaultDeadline, defaultAttemptTimeout
  <2> DEFINE z == send'[u]
  <2>3. /\ z \in Send
        /\ z.step = s.step /\ z.attempt = s.attempt /\ z.outcome = s.outcome
        /\ z.early = s.early
        /\ z.age = IF s.step \in {"post", "backoff"} THEN s.age + 1 ELSE s.age
        /\ z.wait = CASE s.step = "post" -> s.wait + 1
                     [] s.step = "backoff" -> s.wait - 1
                     [] OTHER -> s.wait
    BY <2>1, <2>2, OlderFields
  <2>4. SendSound(u) <=>
          /\ s.step \in {"none", "arrived", "token"} => s.attempt = 0 /\ s.wait = 0 /\ s.age = 0 /\ ~s.early
          /\ s.step = "post" => s.attempt \in 1..Attempts /\ s.age <= s.wait + Begun[s.attempt]
          /\ s.step = "backoff" => /\ s.attempt \in 1..(Attempts - 1)
                                   /\ s.age + s.wait <= Begun[s.attempt + 1]
          /\ s.step \in {"counted", "left"} => s.outcome # "none"
          /\ s.step \in {"post", "backoff"} /\ s.early => clock <= s.age
    BY DEF SendSound, Sending
  <2>5. SendSound(u)' <=>
          /\ z.step \in {"none", "arrived", "token"} => z.attempt = 0 /\ z.wait = 0 /\ z.age = 0 /\ ~z.early
          /\ z.step = "post" => z.attempt \in 1..Attempts /\ z.age <= z.wait + Begun[z.attempt]
          /\ z.step = "backoff" => /\ z.attempt \in 1..(Attempts - 1)
                                   /\ z.age + z.wait <= Begun[z.attempt + 1]
          /\ z.step \in {"counted", "left"} => z.outcome # "none"
          /\ z.step \in {"post", "backoff"} /\ z.early => clock' <= z.age
    BY DEF SendSound, Sending
  <2> HIDE DEF s, z
  <2>6. ASSUME s.step = "post" PROVE SendSound(u)'
    <3>1. s.attempt \in {1, 2, 3}
      BY <2>1, <2>4, <2>6 DEF Attempts
    <3>2. Begun[s.attempt] \in Nat
      BY <3>1, Beginnings
    <3> QED BY <1>1, <1>2, <2>1, <2>3, <2>4, <2>5, <2>6, <3>2
  <2>7. ASSUME s.step = "backoff" PROVE SendSound(u)'
    <3>1. s.attempt \in {1, 2}
      BY <2>1, <2>4, <2>7 DEF Attempts
    <3>2. Begun[s.attempt + 1] \in Nat
      <4>1. 1 + 1 = 2 /\ 2 + 1 = 3
        OBVIOUS
      <4> QED BY <3>1, <4>1, Beginnings
    <3> QED BY <1>1, <1>2, <2>1, <2>3, <2>4, <2>5, <2>7, <3>2
  <2>8. ASSUME s.step \notin {"post", "backoff"} PROVE SendSound(u)'
    BY <2>1, <2>3, <2>4, <2>5, <2>8
  <2> QED BY <2>3, <2>6, <2>7, <2>8 DEF s, z
<1>4. Admitted' = Admitted /\ Holding' = Holding
  BY <1>3 DEF Admitted, Holding
<1>5. ForwarderTypeOK'
  BY <1>1, <1>2, <1>3 DEF ForwarderInv, ForwarderTypeOK, DrainBudget, defaultDeadline
<1> QED BY <1>1, <1>2, <1>3, <1>4, <1>5 DEF ForwarderInv, HttpDrain

-----------------------------------------------------------------------------
(* The theorems about the forwarder *)

LEMMA ForwarderInitInv == ForwarderInit => ForwarderInv
<1> SUFFICES ASSUME ForwarderInit PROVE ForwarderInv
  OBVIOUS
<1>1. \A u \in Update : send[u] = NotSent
  BY DEF ForwarderInit
<1>2. NotSent \in Send
  BY DEF NotSent, Send, Attempts, defaultAttemptTimeout, defaultDeadline
<1>3. Admitted = {} /\ Holding = {}
  BY <1>1 DEF Admitted, Holding, NotSent
<1>4. ForwarderTypeOK
  <2>1. send \in [Update -> Send]
    BY <1>2 DEF ForwarderInit
  <2>2. 0 \in 0..MaxInFlight /\ 0 \in 0..Cardinality(Update) /\ 0 \in 0..DrainBudget
    BY Updates DEF DrainBudget, defaultDeadline
  <2> QED BY <2>1, <2>2 DEF ForwarderInit, ForwarderTypeOK
<1>5. \A u \in Update : SendSound(u)
  BY <1>1 DEF SendSound, Sending, NotSent
<1> QED BY <1>3, <1>4, <1>5, FS_EmptySet DEF ForwarderInv, ForwarderInit

LEMMA ForwarderStep == ForwarderInv /\ [ForwarderNext]_forwarderVars => ForwarderInv'
<1> SUFFICES ASSUME ForwarderInv, [ForwarderNext]_forwarderVars PROVE ForwarderInv'
  OBVIOUS
<1>1. CASE UNCHANGED forwarderVars
  <2>1. UNCHANGED <<send, sem, wg, closed, base, phase, clock>>
    BY <1>1 DEF forwarderVars
  <2>2. Admitted' = Admitted /\ Holding' = Holding
    BY <2>1 DEF Admitted, Holding
  <2>3. ASSUME NEW u \in Update PROVE SendSound(u)' /\ (Sending(u)' <=> Sending(u))
    BY <2>1 DEF ForwarderInv, SendSound, Sending
  <2> QED BY <2>1, <2>2, <2>3 DEF ForwarderInv, ForwarderTypeOK
<1>2. CASE phase # "exit" /\ \E u \in Update : Arrive(u) \/ TakeToken(u) \/ Admit(u)
                                               \/ PostEnds(u) \/ BackoffEnds(u) \/ Leave(u)
  BY <1>2, ArriveInv, TakeTokenInv, AdmitInv, PostEndsInv, BackoffEndsInv, LeaveInv
<1> QED BY <1>1, <1>2, MainStepInv, TickInv DEF ForwarderNext

\* The invariant of the forwarder and of the shutdown around it.
THEOREM ForwarderInvariance == ForwarderSpec => []ForwarderInv
BY ForwarderInitInv, ForwarderStep, PTL DEF ForwarderSpec

\* Before it serves and while it starts to, main does nothing to the forwarder.
LEMMA ProcessRefines == [ProcessNext]_processVars => [ForwarderNext]_forwarderVars
BY DEF ProcessNext, Serves, processVars

\* The process, from the opening of its store on, behaves as the forwarder by itself
\* does, so that what holds of that holds of the process.
THEOREM ProcessIsForwarder == ProcessSpec => ForwarderSpec
BY ProcessRefines, PTL DEF ProcessSpec, ForwarderSpec, StartupInit

\* When main goes on to exit, everything admitted is counted.
THEOREM AllCounted == ProcessSpec => []NoneVanishes
<1>1. ForwarderInv => NoneVanishes
  <2> SUFFICES ASSUME ForwarderInv, phase = "exit", NEW u \in Update, send[u].attempt > 0
               PROVE  send[u].outcome # "none"
    BY DEF NoneVanishes
  <2>1. Admitted \in SUBSET Update /\ Cardinality(Admitted) = 0
    BY DEF Admitted, ForwarderInv
  <2>2. u \notin Admitted
    BY <2>1, SubsetCount
  <2>3. send[u] \in Send /\ SendSound(u)
    BY DEF ForwarderInv, ForwarderTypeOK
  <2>4. send[u].step \notin {"none", "arrived", "token"}
    BY <2>3 DEF SendSound
  <2>5. send[u].step \in {"counted", "left"}
    BY <2>2, <2>3, <2>4 DEF Admitted, Send
  <2> QED BY <2>3, <2>5 DEF SendSound
<1> QED BY <1>1, ForwarderInvariance, ProcessIsForwarder, PTL

\* No send is under way when its deadline comes: the bridge may take the whole of the
\* timeout in all three attempts.
THEOREM ThirdAttemptUncut == ProcessSpec => []AttemptsUncut
<1>1. ForwarderInv => AttemptsUncut
  <2> SUFFICES ASSUME ForwarderInv, NEW u \in Update, Sending(u) PROVE send[u].age < defaultDeadline
    BY DEF AttemptsUncut
  <2>1. send[u].age \in 0..21 /\ send[u].age <= 20
    BY AgeBound, SendFields DEF ForwarderInv, ForwarderTypeOK
  <2> QED BY <2>1 DEF defaultDeadline
<1> QED BY <1>1, ForwarderInvariance, ProcessIsForwarder, PTL

\* Shutdown cancels no send that was under way at the signal.
THEOREM EarlySendsAreLeft == ProcessSpec => []EarlySendsComplete
<1>1. ForwarderInv => EarlySendsComplete
  BY DEF ForwarderInv, EarlySendsComplete
<1> QED BY <1>1, ForwarderInvariance, ProcessIsForwarder, PTL

\* main is through within the grace period.
THEOREM ShutdownKeepsTheGrace == ProcessSpec => []ShutdownInTime
<1>1. ForwarderInv => ShutdownInTime
  <2> SUFFICES ASSUME ForwarderInv PROVE clock <= 30 - 5
    BY DEF ShutdownInTime
  <2>1. clock \in 0..22
    BY DEF ForwarderInv, ForwarderTypeOK, DrainBudget, defaultDeadline
  <2> QED BY <2>1
<1> QED BY <1>1, ForwarderInvariance, ProcessIsForwarder, PTL

\* Nothing is admitted beside the waits of Shutdown.
THEOREM NoAdmissionBesideWait == ProcessSpec => NoAddBesideWait
<1>1. ForwarderInv /\ [ForwarderNext]_forwarderVars
        => [(phase \in {"wait", "cancel", "last"}) => wg' <= wg]_forwarderVars
  <2> SUFFICES ASSUME ForwarderInv, ForwarderNext, phase \in {"wait", "cancel", "last"} PROVE wg' <= wg
    OBVIOUS
  <2>1. closed /\ wg \in Nat
    BY Updates DEF ForwarderInv, ForwarderTypeOK
  <2>2. wg' = wg \/ wg' = wg - 1
    BY <2>1 DEF ForwarderNext, Arrive, TakeToken, Admit, PostEnds, BackoffEnds, Leave, Main, Signal,
                HttpDrained, Close, WaitEnds, Cancel, LastWait, SendsGoOn, Tick
  <2> QED BY <2>1, <2>2
<1> QED BY <1>1, ForwarderInvariance, ProcessIsForwarder, PTL DEF ForwarderSpec, NoAddBesideWait

-----------------------------------------------------------------------------
(* The forwarder implements Forwarding *)

LEMMA Mapped ==
    ASSUME NEW u \in Update, NEW step, NEW attempt, NEW wait, NEW age, NEW outcome,
           Goes(u, step, attempt, wait, age, outcome)
    PROVE  /\ Outcomes' = [Outcomes EXCEPT ![u] = outcome]
           /\ Flying' = IF step \in {"post", "backoff"} THEN Flying \cup {u} ELSE Flying \ {u}
           /\ CountedLast /\ (step \notin {"counted", "left"} => outcome = "none") => CountedLast'
<1>1. Outcomes' = [Outcomes EXCEPT ![u] = outcome]
  BY DEF Goes, Outcomes
<1>2. Flying' = IF step \in {"post", "backoff"} THEN Flying \cup {u} ELSE Flying \ {u}
  <2>1. \A v \in Update \ {u} : v \in Flying' <=> v \in Flying
    BY DEF Goes, Flying, Sending
  <2>2. u \in Flying' <=> step \in {"post", "backoff"}
    BY DEF Goes, Flying, Sending
  <2>3. Flying \subseteq Update /\ Flying' \subseteq Update
    BY DEF Flying
  <2> QED BY <2>1, <2>2, <2>3
<1>3. ASSUME CountedLast, step \notin {"counted", "left"} => outcome = "none" PROVE CountedLast'
  BY <1>3 DEF CountedLast, Goes
<1> QED BY <1>1, <1>2, <1>3

\* A step the abstract forwarder does not see.
LEMMA Unseen ==
    ASSUME NEW u \in Update, NEW step, NEW attempt, NEW wait, NEW age,
           Goes(u, step, attempt, wait, age, send[u].outcome),
           u \in Flying <=> step \in {"post", "backoff"}, MainWaits
    PROVE  UNCHANGED FW!forwardingVars
<1>1. Outcomes' = [Outcomes EXCEPT ![u] = send[u].outcome]
  BY Mapped
<1>2. Flying' = Flying
  BY Mapped
<1>3. Outcomes' = Outcomes
  BY <1>1 DEF Outcomes
<1>4. Stage' = Stage
  BY DEF MainWaits, Stage
<1> QED BY <1>2, <1>3, <1>4 DEF FW!forwardingVars

LEMMA Dropped ==
    ASSUME RefinementInv, phase # "exit", NEW u \in Update, send[u].step \in {"arrived", "token"},
           Ends(u, "left", "dropped"), MainWaits
    PROVE  CountedLast' /\ FW!Drop(u)
<1>1. Goes(u, "left", send[u].attempt, 0, 0, "dropped")
  BY EndGoes DEF Outcome, RefinementInv, ForwarderInv, ForwarderTypeOK
<1>2. u \notin Flying /\ Outcomes[u] = "none"
  BY DEF Flying, Sending, Outcomes, RefinementInv, CountedLast
<1>3. Flying' = Flying \ {u} /\ Outcomes' = [Outcomes EXCEPT ![u] = "dropped"] /\ CountedLast'
  BY <1>1, Mapped DEF RefinementInv
<1>4. Stage' = Stage /\ Stage # "gone"
  BY DEF MainWaits, Stage
<1> QED BY <1>2, <1>3, <1>4 DEF FW!Drop, FW!Uncounted

LEMMA ArriveMaps ==
    ASSUME RefinementInv, NEW u \in Update, Arrive(u)
    PROVE  CountedLast' /\ UNCHANGED FW!forwardingVars
<1>1. Goes(u, "arrived", send[u].attempt, send[u].wait, send[u].age, send[u].outcome)
  BY StepGoes DEF Arrive, RefinementInv, ForwarderInv, ForwarderTypeOK
<1>2. send[u].outcome = "none" /\ u \notin Flying
  BY DEF Arrive, Flying, Sending, RefinementInv, CountedLast
<1> QED BY <1>1, <1>2, Unseen, Mapped DEF Arrive, RefinementInv

LEMMA TakeTokenMaps ==
    ASSUME RefinementInv, phase # "exit", NEW u \in Update, TakeToken(u)
    PROVE  CountedLast' /\ (UNCHANGED FW!forwardingVars \/ FW!Drop(u))
<1>1. send[u].step = "arrived" /\ MainWaits
  BY DEF TakeToken
<1>2. CASE send' = [send EXCEPT ![u].step = "token"]
  <2>1. Goes(u, "token", send[u].attempt, send[u].wait, send[u].age, send[u].outcome)
    BY <1>2, StepGoes DEF RefinementInv, ForwarderInv, ForwarderTypeOK
  <2>2. send[u].outcome = "none" /\ u \notin Flying
    BY <1>1 DEF Flying, Sending, RefinementInv, CountedLast
  <2> QED BY <1>1, <2>1, <2>2, Unseen, Mapped DEF RefinementInv
<1>3. CASE Ends(u, "left", "dropped")
  BY <1>1, <1>3, Dropped
<1> QED BY <1>2, <1>3 DEF TakeToken

\* Whoever sends holds a token, and so does the one that is about to.
LEMMA RoomToFly ==
    ASSUME ForwarderInv, NEW u \in Update, send[u].step = "token"
    PROVE  Cardinality(Flying) < MaxInFlight
<1> DEFINE F == Flying
           H == Holding
<1>1. F \in SUBSET Update /\ H \in SUBSET Update /\ u \in H /\ F \subseteq H \ {u}
  BY DEF Flying, Sending, Holding
<1>2. Cardinality(H) \in 0..MaxInFlight /\ MaxInFlight \in Nat
  BY Updates DEF ForwarderInv, ForwarderTypeOK
<1> HIDE DEF F, H
<1>3. IsFiniteSet(H) /\ IsFiniteSet(F) /\ Cardinality(F) \in Nat
  BY <1>1, SubsetCount
<1>4. Cardinality(H \ {u}) = Cardinality(H) - 1 /\ IsFiniteSet(H \ {u})
  BY <1>1, <1>3, FS_RemoveElement
<1>5. Cardinality(F) <= Cardinality(H \ {u})
  BY <1>1, <1>4, FS_Subset
<1>6. Cardinality(F) < MaxInFlight
  BY <1>2, <1>3, <1>4, <1>5
<1> QED BY <1>6 DEF F

LEMMA SameCardinality == FW!Cardinality(Flying) = Cardinality(Flying)
BY DEF FW!Cardinality, Cardinality

LEMMA AdmitMaps ==
    ASSUME RefinementInv, phase # "exit", NEW u \in Update, Admit(u)
    PROVE  CountedLast' /\ (FW!Fly(u) \/ FW!Drop(u))
<1>1. send[u].step = "token" /\ MainWaits
  BY DEF Admit
<1>2. CASE ~closed /\ send' = [send EXCEPT ![u].step = "post", ![u].attempt = 1]
  <2>1. Goes(u, "post", 1, send[u].wait, send[u].age, send[u].outcome)
    <3>1. 1 \in 0..Attempts
      BY DEF Attempts
    <3> QED BY <1>2, <3>1, AttemptGoes DEF RefinementInv, ForwarderInv, ForwarderTypeOK
  <2>2. send[u].outcome = "none" /\ u \notin Flying /\ Outcomes[u] = "none"
    BY <1>1 DEF Flying, Sending, RefinementInv, CountedLast, Outcomes
  <2>3. Flying' = Flying \cup {u} /\ Outcomes' = [Outcomes EXCEPT ![u] = "none"] /\ CountedLast'
    BY <2>1, <2>2, Mapped DEF RefinementInv
  <2>4. Outcomes' = Outcomes
    BY <2>2, <2>3 DEF Outcomes
  <2>5. Stage' = Stage /\ Stage = "open"
    BY <1>1, <1>2 DEF MainWaits, Stage
  <2>6. Cardinality(Flying) < MaxInFlight
    BY <1>1, RoomToFly DEF RefinementInv
  <2>7. FW!Uncounted(u)
    BY <2>2 DEF FW!Uncounted
  <2>8. FW!Fly(u)
    BY <2>3, <2>4, <2>5, <2>6, <2>7, SameCardinality DEF FW!Fly
  <2> QED BY <2>3, <2>8
<1>3. CASE Ends(u, "left", "dropped")
  BY <1>1, <1>3, Dropped
<1> QED BY <1>2, <1>3 DEF Admit

LEMMA EndsMaps ==
    ASSUME RefinementInv, NEW u \in Update, Sending(u), NEW outcome \in {"sent", "rejected", "failed"},
           Ends(u, "counted", outcome), MainWaits
    PROVE  CountedLast' /\ FW!Count(u)
<1>1. Goes(u, "counted", send[u].attempt, 0, 0, outcome)
  BY EndGoes DEF Outcome, RefinementInv, ForwarderInv, ForwarderTypeOK
<1>2. u \in Flying /\ Stage' = Stage
  BY DEF Flying, MainWaits, Stage
<1>3. Flying' = Flying \ {u} /\ Outcomes' = [Outcomes EXCEPT ![u] = outcome] /\ CountedLast'
  BY <1>1, Mapped DEF RefinementInv
<1> QED BY <1>2, <1>3 DEF FW!Count

LEMMA PostEndsMaps ==
    ASSUME RefinementInv, NEW u \in Update, PostEnds(u)
    PROVE  CountedLast' /\ (UNCHANGED FW!forwardingVars \/ FW!Count(u))
<1>1. send[u].step = "post" /\ MainWaits /\ Sending(u) /\ SendSound(u) /\ send \in [Update -> Send]
  BY DEF PostEnds, Sending, RefinementInv, ForwarderInv, ForwarderTypeOK
<1>2. CASE \E outcome \in {"sent", "rejected", "failed"} : Ends(u, "counted", outcome)
  BY <1>1, <1>2, EndsMaps
<1>3. CASE /\ send[u].attempt < Attempts
           /\ send' = [send EXCEPT ![u].step = "backoff", ![u].wait = defaultBackoff[send[u].attempt]]
  <2>1. send[u].attempt \in {1, 2}
    BY <1>1, <1>3 DEF SendSound, Attempts
  <2>2. defaultBackoff[send[u].attempt] \in 0..defaultAttemptTimeout
    BY <2>1, Beginnings DEF defaultAttemptTimeout
  <2>3. Goes(u, "backoff", send[u].attempt, defaultBackoff[send[u].attempt], send[u].age, send[u].outcome)
    BY <1>1, <1>3, <2>2, BackoffGoes
  <2>4. u \in Flying /\ send[u].outcome = "none"
    BY <1>1 DEF Flying, RefinementInv, CountedLast
  <2> QED BY <1>1, <2>3, <2>4, Unseen, Mapped DEF RefinementInv
<1> QED BY <1>2, <1>3 DEF PostEnds

LEMMA BackoffEndsMaps ==
    ASSUME RefinementInv, NEW u \in Update, BackoffEnds(u)
    PROVE  CountedLast' /\ (UNCHANGED FW!forwardingVars \/ FW!Count(u))
<1>1. send[u].step = "backoff" /\ MainWaits /\ Sending(u) /\ SendSound(u) /\ send \in [Update -> Send]
  BY DEF BackoffEnds, Sending, RefinementInv, ForwarderInv, ForwarderTypeOK
<1>2. CASE Ends(u, "counted", "failed")
  BY <1>1, <1>2, EndsMaps
<1>3. CASE send' = [send EXCEPT ![u].step = "post", ![u].attempt = @ + 1]
  <2> DEFINE n == send[u].attempt + 1
  <2>1. n \in 0..Attempts
    BY <1>1 DEF SendSound, Attempts
  <2>2. Goes(u, "post", n, send[u].wait, send[u].age, send[u].outcome)
    BY <1>1, <1>3, <2>1, AttemptGoes
  <2> HIDE DEF n
  <2>3. u \in Flying /\ send[u].outcome = "none"
    BY <1>1 DEF Flying, RefinementInv, CountedLast
  <2> QED BY <1>1, <2>2, <2>3, Unseen, Mapped DEF RefinementInv
<1> QED BY <1>2, <1>3 DEF BackoffEnds

LEMMA LeaveMaps ==
    ASSUME RefinementInv, NEW u \in Update, Leave(u)
    PROVE  CountedLast' /\ UNCHANGED FW!forwardingVars
<1>1. Goes(u, "left", send[u].attempt, send[u].wait, send[u].age, send[u].outcome)
  BY StepGoes DEF Leave, RefinementInv, ForwarderInv, ForwarderTypeOK
<1>2. u \notin Flying
  BY DEF Leave, Flying, Sending
<1> QED BY <1>1, <1>2, Unseen, Mapped DEF Leave, RefinementInv

\* main and the time move no send to another step.
LEMMA AllStay ==
    ASSUME CountedLast, \A u \in Update : send'[u].step = send[u].step /\ send'[u].outcome = send[u].outcome
    PROVE  CountedLast' /\ Outcomes' = Outcomes /\ Flying' = Flying
BY DEF CountedLast, Outcomes, Flying, Sending

LEMMA SendsStay ==
    ASSUME ForwarderInv, Main \/ Tick, NEW u \in Update
    PROVE  send'[u].step = send[u].step /\ send'[u].outcome = send[u].outcome
<1>1. send[u] \in Send
  BY DEF ForwarderInv, ForwarderTypeOK
<1>2. CASE Signal
  <2>1. send'[u] = [send[u] EXCEPT !.early = Sending(u)]
    BY <1>2 DEF Signal
  <2> QED BY <1>1, <2>1 DEF Send
<1>3. CASE Tick
  <2>1. send'[u] = Older(send[u])
    BY <1>3 DEF Tick
  <2>2. \/ Older(send[u]) = send[u]
        \/ Older(send[u]) = [send[u] EXCEPT !.age = @ + 1, !.wait = @ + 1]
        \/ Older(send[u]) = [send[u] EXCEPT !.age = @ + 1, !.wait = @ - 1]
    BY DEF Older
  <2> QED BY <1>1, <2>1, <2>2 DEF Send
<1>4. CASE HttpDrained \/ Close \/ WaitEnds \/ Cancel \/ LastWait
  BY <1>4 DEF HttpDrained, Close, WaitEnds, Cancel, LastWait
<1> QED BY <1>2, <1>3, <1>4 DEF Main

LEMMA MainMaps ==
    ASSUME RefinementInv, Main \/ Tick
    PROVE  CountedLast' /\ (UNCHANGED FW!forwardingVars \/ FW!Close \/ FW!Go)
<1>1. CountedLast' /\ Outcomes' = Outcomes /\ Flying' = Flying
  BY SendsStay, AllStay DEF RefinementInv
<1>2. CASE UNCHANGED closed /\ (phase' = "exit" <=> phase = "exit")
  BY <1>1, <1>2 DEF Stage, FW!forwardingVars
<1>3. CASE Close
  <2>1. phase = "close" /\ phase' = "wait" /\ closed'
    BY <1>3 DEF Close
  <2>2. CASE closed
    BY <1>1, <2>1, <2>2 DEF Stage, FW!forwardingVars
  <2>3. CASE ~closed
    BY <1>1, <2>1, <2>3 DEF Stage, FW!Close
  <2> QED BY <2>2, <2>3
<1>4. CASE LastWait
  <2>1. phase = "last" /\ phase' = "exit" /\ wg = 0 /\ closed
    BY <1>4 DEF LastWait, RefinementInv, ForwarderInv
  <2>2. Flying = {}
    <3>1. Admitted \in SUBSET Update /\ Cardinality(Admitted) = 0 /\ Flying \subseteq Admitted
      BY <2>1 DEF RefinementInv, ForwarderInv, Admitted, Flying, Sending
    <3> QED BY <3>1, SubsetCount
  <2> QED BY <1>1, <2>1, <2>2 DEF Stage, FW!Go
<1>5. CASE Signal \/ HttpDrained \/ WaitEnds \/ Cancel \/ Tick
  BY <1>2, <1>5 DEF Signal, HttpDrained, WaitEnds, Cancel, Tick
<1> QED BY <1>3, <1>4, <1>5 DEF Main

LEMMA ForwardingInit == ForwarderInit => CountedLast /\ FW!Init
<1> SUFFICES ASSUME ForwarderInit PROVE CountedLast /\ FW!Init
  OBVIOUS
<1>1. \A u \in Update : send[u].step = "none" /\ send[u].outcome = "none"
  BY DEF ForwarderInit, NotSent
<1> QED BY <1>1 DEF ForwarderInit, CountedLast, Outcomes, Flying, Sending, Stage, FW!Init

LEMMA ForwardingStep ==
    RefinementInv /\ [ForwarderNext]_forwarderVars => CountedLast' /\ [FW!Next]_(FW!forwardingVars)
<1> SUFFICES ASSUME RefinementInv, [ForwarderNext]_forwarderVars
             PROVE  CountedLast' /\ [FW!Next]_(FW!forwardingVars)
  OBVIOUS
<1>1. CASE UNCHANGED forwarderVars
  BY <1>1 DEF forwarderVars, RefinementInv, CountedLast, Outcomes, Flying, Sending, Stage, FW!forwardingVars
<1>2. CASE Main \/ Tick
  BY <1>2, MainMaps DEF FW!Next
<1>3. ASSUME phase # "exit", NEW u \in Update,
             Arrive(u) \/ TakeToken(u) \/ Admit(u) \/ PostEnds(u) \/ BackoffEnds(u) \/ Leave(u)
      PROVE  CountedLast' /\ [FW!Next]_(FW!forwardingVars)
  <2>1. CountedLast' /\ (UNCHANGED FW!forwardingVars \/ FW!Fly(u) \/ FW!Count(u) \/ FW!Drop(u))
    BY <1>3, ArriveMaps, TakeTokenMaps, AdmitMaps, PostEndsMaps, BackoffEndsMaps, LeaveMaps
  <2> QED BY <2>1 DEF FW!Next
<1> QED BY <1>1, <1>2, <1>3 DEF ForwarderNext

\* The forwarder implements Forwarding, and so does the process it runs in: an
\* observation is sent at most once, MaxInFlight at a time, and counted with one outcome
\* that never changes; none is sent after the close, and main exits when none is flying.
THEOREM ForwarderImplementsForwarding == ProcessSpec => ObservationsCounted
<1>1. ForwarderSpec => [](ForwarderInv /\ CountedLast)
  <2>1. ForwarderInit => CountedLast
    BY ForwardingInit
  <2>2. ForwarderInv /\ CountedLast /\ [ForwarderNext]_forwarderVars => CountedLast'
    BY ForwardingStep DEF RefinementInv
  <2> QED BY <2>1, <2>2, ForwarderInvariance, PTL DEF ForwarderSpec
<1>2. ForwarderInit => FW!Init
  BY ForwardingInit
<1>3. ForwarderInv /\ CountedLast /\ [ForwarderNext]_forwarderVars => [FW!Next]_(FW!forwardingVars)
  BY ForwardingStep DEF RefinementInv
<1> QED BY <1>1, <1>2, <1>3, ProcessIsForwarder, PTL DEF ForwarderSpec, ObservationsCounted, FW!Spec

-----------------------------------------------------------------------------
(* The opening of the store *)

LEMMA Times ==
    /\ storeInitBudget = 32 /\ connectTimeout = 12 /\ second = 4 /\ firstDelay = 1
    /\ storeInitBudget + second = 36 /\ storeInitBudget + second + connectTimeout = 48
BY DEF storeInitBudget, connectTimeout, second, firstDelay

LEMMA StartupInitInv == StartupInit => StartupInv
<1> SUFFICES ASSUME StartupInit PROVE StartupInv
  OBVIOUS
<1>1. ForwarderInv
  BY ForwarderInitInv DEF StartupInit
<1>2. 0 \in 0..MaxElapsed /\ connectTimeout \in 0..connectTimeout
  BY Times, StartupAssumption
<1>3. StartupTypeOK
  BY <1>1, <1>2, Times DEF StartupInit, StartupTypeOK, ForwarderInv
<1> QED BY <1>1, <1>3, Times DEF StartupInit, StartupInv

\* The account of the budget after a step.
LEMMA BootKept ==
    ASSUME ForwarderInv',
           boot' \in {"dial", "migrate", "pause", "opened", "deaf", "serving", "spent", "givenUp", "killed"},
           delay' \in {1, 2, 4}, left' \in 0..12, elapsed' \in 0..MaxElapsed, asked' \in BOOLEAN,
           boot' = "pause" => elapsed' + left' <= 36,
           boot' = "dial" => elapsed' + left' <= 48,
           boot' = "spent" => elapsed' > 32
    PROVE  StartupInv'
<1>1. /\ boot' = "pause" => elapsed' + left' <= storeInitBudget + second
      /\ boot' = "dial" => elapsed' + left' <= storeInitBudget + second + connectTimeout
      /\ boot' = "spent" => elapsed' > storeInitBudget
  BY Times
<1>2. StartupTypeOK'
  BY Times DEF StartupTypeOK, ForwarderInv
<1> QED BY <1>1, <1>2 DEF StartupInv

LEMMA StartupStep == StartupInv /\ [ProcessNext]_processVars => StartupInv'
<1> SUFFICES ASSUME StartupInv, [ProcessNext]_processVars PROVE StartupInv'
  OBVIOUS
<1>0. ForwarderInv'
  BY ForwarderStep, ProcessRefines DEF StartupInv
<1>1. /\ boot \in {"dial", "migrate", "pause", "opened", "deaf", "serving", "spent", "givenUp", "killed"}
      /\ delay \in {1, 2, 4} /\ left \in 0..12 /\ elapsed \in 0..MaxElapsed /\ asked \in BOOLEAN
      /\ boot = "pause" => elapsed + left <= 36
      /\ boot = "dial" => elapsed + left <= 48
      /\ boot = "spent" => elapsed > 32
      /\ MaxElapsed \in Nat
  BY Times, StartupAssumption DEF StartupInv, StartupTypeOK
<1>2. CASE UNCHANGED bootVars
  BY <1>0, <1>1, <1>2, BootKept DEF bootVars
<1>3. CASE Retry
  <2>1. UNCHANGED <<delay, elapsed, asked>> /\ boot \in {"dial", "migrate"}
    BY <1>3 DEF Retry, Stays, Trying
  <2>2. CASE elapsed > 32 /\ boot' = "spent" /\ left' = 0
    BY <1>0, <1>1, <2>1, <2>2, BootKept
  <2>3. CASE ~(elapsed > 32) /\ boot' = "pause" /\ left' = delay
    <3>1. elapsed + delay <= 36 /\ delay \in 0..12
      BY <1>1, <2>3
    <3> QED BY <1>0, <1>1, <2>1, <2>3, <3>1, BootKept
  <2> QED BY <1>3, <2>2, <2>3, Times DEF Retry, Becomes
<1>4. CASE GiveUp \/ Connected \/ Notify \/ Killed
  <2>1. /\ UNCHANGED <<delay, elapsed, asked>> /\ left' = 0
        /\ boot' \in {"givenUp", "migrate", "serving", "killed"}
    BY <1>4 DEF GiveUp, Connected, Notify, Killed, Stays, Becomes
  <2> QED BY <1>0, <1>1, <2>1, BootKept
<1>5. CASE Migrated
  <2>1. boot' = "opened" /\ left' = 0 /\ delay' = 1 /\ elapsed' = 0 /\ asked' = asked
    BY <1>5, Times DEF Migrated, Becomes
  <2> QED BY <1>0, <1>1, <2>1, BootKept
<1>6. CASE PauseEnds
  <2>1. UNCHANGED <<elapsed, asked>> /\ boot = "pause"
    BY <1>6 DEF PauseEnds
  <2>2. CASE left = 0 /\ boot' = "dial" /\ left' = 12 /\ delay' = NextDelay
    <3>1. NextDelay \in {1, 2, 4}
      BY <1>1, Times DEF NextDelay
    <3>2. elapsed + 12 <= 48
      BY <1>1, <2>1, <2>2
    <3> QED BY <1>0, <1>1, <2>1, <2>2, <3>1, <3>2, BootKept
  <2>3. CASE boot' = "givenUp" /\ left' = 0 /\ delay' = delay
    BY <1>0, <1>1, <2>1, <2>3, BootKept
  <2> QED BY <1>6, <2>2, <2>3, Times DEF PauseEnds, Becomes
<1>7. CASE Stopped
  BY <1>0, <1>1, <1>7, BootKept DEF Stopped
<1>8. CASE StopInitSignals
  <2>1. boot' = "deaf" /\ left' = 0 /\ asked' \in BOOLEAN /\ UNCHANGED <<delay, elapsed>>
    BY <1>8 DEF StopInitSignals, Becomes
  <2> QED BY <1>0, <1>1, <2>1, BootKept
<1>9. CASE BootTick
  <2>1. /\ UNCHANGED <<boot, delay, asked>> /\ elapsed < MaxElapsed /\ elapsed' = elapsed + 1
        /\ boot \in {"dial", "migrate", "pause"} /\ (boot \in {"dial", "pause"} => left # 0)
        /\ left' = IF boot = "migrate" THEN 0 ELSE left - 1
    BY <1>9 DEF BootTick, BootDue, Booting, Trying
  <2>2. elapsed' \in 0..MaxElapsed /\ left' \in 0..12 /\ (boot # "migrate" => elapsed' + left' = elapsed + left)
    BY <1>1, <2>1
  <2> QED BY <1>0, <1>1, <2>1, <2>2, BootKept
<1> QED BY <1>2, <1>3, <1>4, <1>5, <1>6, <1>7, <1>8, <1>9 DEF ProcessNext, OpenStore, processVars

\* The invariant of the process while it opens its store.
THEOREM StartupInvariance == ProcessSpec => []StartupInv
BY StartupInitInv, StartupStep, PTL DEF ProcessSpec

\* An error that could clear consumes the whole budget, and no dial begins so late that
\* it outlasts the budget by the 5 s the test allows.
THEOREM BudgetKept == ProcessSpec => []StoreInitKeepsItsBudget
<1>1. StartupInv => StoreInitKeepsItsBudget
  <2> SUFFICES ASSUME StartupInv PROVE StoreInitKeepsItsBudget
    OBVIOUS
  <2>1. elapsed \in Nat /\ left \in 0..12 /\ (boot = "dial" => elapsed + left <= 48)
    BY Times, StartupAssumption DEF StartupInv, StartupTypeOK
  <2>2. boot = "dial" => elapsed < 52
    BY <2>1
  <2> QED BY <2>2, Times DEF StartupInv, StoreInitKeepsItsBudget
<1> QED BY <1>1, StartupInvariance, PTL
=============================================================================
