------------------------- MODULE ScoutSpike_proofs --------------------------
(***************************************************************************)
(* Proofs about ScoutSpike and ScoutCallback, for any number of presses,   *)
(* sources, issues and pages and any page size.                            *)
(***************************************************************************)
EXTENDS ScoutCallback, TLAPS, FiniteSetTheorems

-----------------------------------------------------------------------------
(* Ranks and pages *)

LEMMA FiniteIssues == ASSUME NEW S \in SUBSET Issue PROVE IsFiniteSet(S)
<1>1. IsFiniteSet(Issue)
  BY FS_Interval, ScoutAssumption DEF Issue
<1> QED BY <1>1, FS_Subset

LEMMA RankType ==
    ASSUME indexed \in SUBSET Issue, NEW i \in Issue
    PROVE  Rank(i) \in Nat
<1>1. {j \in indexed : j > i} \in SUBSET Issue
  OBVIOUS
<1> QED BY <1>1, FiniteIssues, FS_CardinalityType DEF Rank

\* New issues in the index push an issue back, never forward.
LEMMA RankGrows ==
    ASSUME indexed' \in SUBSET Issue, indexed \subseteq indexed', NEW i \in Issue
    PROVE  Rank(i) <= Rank(i)'
<1> DEFINE S == {j \in indexed : j > i}
           T == {j \in indexed' : j > i}
<1>1. S \in SUBSET T /\ T \in SUBSET Issue
  OBVIOUS
<1>2. IsFiniteSet(T)
  BY <1>1, FiniteIssues
<1> HIDE DEF S, T
<1>3. Cardinality(S) <= Cardinality(T)
  BY <1>1, <1>2, FS_Subset
<1> QED BY <1>3 DEF Rank, S, T

LEMMA RankBelowTotal ==
    ASSUME indexed \in SUBSET Issue, NEW i \in indexed
    PROVE  Rank(i) < Cardinality(indexed)
<1> DEFINE S == {j \in indexed : j > i}
           T == indexed \ {i}
<1>1. S \in SUBSET T
  BY DEF Issue
<1>2. IsFiniteSet(indexed)
  BY FiniteIssues
<1>3. IsFiniteSet(T) /\ Cardinality(T) = Cardinality(indexed) - 1
  BY <1>2, FS_RemoveElement
<1> HIDE DEF S, T
<1>4. IsFiniteSet(S) /\ Cardinality(S) <= Cardinality(T)
  BY <1>1, <1>3, FS_Subset
<1>5. Cardinality(S) \in Nat /\ Cardinality(T) \in Nat /\ Cardinality(indexed) \in Nat
  BY <1>2, <1>3, <1>4, FS_CardinalityType
<1> QED BY <1>3, <1>4, <1>5 DEF Rank, S

LEMMA RankInjective ==
    ASSUME indexed \in SUBSET Issue, NEW i \in indexed, NEW j \in indexed, i < j
    PROVE  Rank(j) < Rank(i)
<1> DEFINE S == {k \in indexed : k > j}
           T == {k \in indexed : k > i}
<1>0. Issue \subseteq Int /\ i \in Int /\ j \in Int
  BY ScoutAssumption DEF Issue
<1>1. S \in SUBSET T /\ j \in T /\ j \notin S /\ T \in SUBSET Issue
  <2>1. \A k \in indexed : k \in Int /\ (k > j => k > i)
    BY <1>0
  <2>2. ~(j > j) /\ j > i
    BY <1>0
  <2> QED BY <2>1, <2>2
<1>2. IsFiniteSet(T)
  BY <1>1, FiniteIssues
<1> HIDE DEF S, T
<1>3. IsFiniteSet(S) /\ Cardinality(S) <= Cardinality(T) /\ (Cardinality(T) = Cardinality(S) => S = T)
  BY <1>1, <1>2, FS_Subset
<1>4. Cardinality(S) \in Nat /\ Cardinality(T) \in Nat
  BY <1>2, <1>3, FS_CardinalityType
<1>5. Cardinality(S) < Cardinality(T)
  BY <1>1, <1>3, <1>4
<1> QED BY <1>5 DEF Rank, S, T

\* A page of a complete answer has no more than PageSize issues, so that one which
\* shows that many shows all of them.
LEMMA FullPage ==
    ASSUME indexed \in SUBSET Issue, NEW k \in Nat, k >= 1,
           NEW shown \in SUBSET OnPage(k), Cardinality(shown) >= PageSize
    PROVE  shown = OnPage(k)
<1> DEFINE lo == (k - 1) * PageSize
           hi == k * PageSize
           f == [i \in OnPage(k) |-> Rank(i)]
<1>1. PageSize \in Nat /\ lo \in Int /\ hi \in Int /\ hi = lo + PageSize
  BY ScoutAssumption
<1>2. OnPage(k) \in SUBSET indexed /\ OnPage(k) \in SUBSET Issue
  BY DEF OnPage
<1>3. \A i \in OnPage(k) : Rank(i) \in Nat /\ lo <= Rank(i) /\ Rank(i) < hi
  BY <1>2, RankType DEF OnPage
<1> HIDE DEF lo, hi
<1>4. \A i \in OnPage(k) : f[i] \in lo..(hi - 1)
  BY <1>1, <1>3
<1>5. \A i, j \in OnPage(k) : f[i] = f[j] => i = j
  <2>1. SUFFICES ASSUME NEW i \in OnPage(k), NEW j \in OnPage(k), i < j PROVE f[i] # f[j]
    BY <1>2 DEF Issue
  <2>2. Rank(j) < Rank(i)
    BY <2>1, <1>2, RankInjective
  <2> QED BY <2>2, <1>2, RankType
<1>6. f \in Injection(OnPage(k), lo..(hi - 1))
  BY <1>4, <1>5 DEF Injection, IsInjective
<1>7. IsFiniteSet(lo..(hi - 1)) /\ Cardinality(lo..(hi - 1)) = PageSize
  BY <1>1, FS_Interval, ScoutAssumption
<1> HIDE DEF f
<1>8. Cardinality(OnPage(k)) <= PageSize
  BY <1>6, <1>7, FS_Injection
<1>9. IsFiniteSet(OnPage(k))
  BY <1>2, FiniteIssues
<1>10. IsFiniteSet(shown) /\ Cardinality(shown) <= Cardinality(OnPage(k))
       /\ (Cardinality(OnPage(k)) = Cardinality(shown) => OnPage(k) = shown)
  BY <1>9, FS_Subset
<1>11. Cardinality(shown) \in Nat /\ Cardinality(OnPage(k)) \in Nat
  BY <1>9, <1>10, FS_CardinalityType
<1> QED BY <1>1, <1>8, <1>10, <1>11


-----------------------------------------------------------------------------
(* Steps of one press *)

Step == {"idle", "lock", "release"} \cup Critical

\* Press p goes to a step with the source and the entry it has.
Moves(p, step) ==
    /\ job' \in [Press -> Job]
    /\ \A q \in Press \ {p} : job'[q] = job[q]
    /\ job'[p].step = step
    /\ job'[p].src = job[p].src
    /\ job'[p].entry = job[p].entry

LEMMA GoesMoves ==
    ASSUME ScoutTypeOK, NEW p \in Press, NEW step \in Step, Goes(p, step)
    PROVE  Moves(p, step) /\ job'[p].page = job[p].page /\ job'[p].known = job[p].known
BY DEF ScoutTypeOK, Goes, Moves, Job, Step

LEMMA InvParts == ScoutInv => ScoutTypeOK /\ Table /\ Memos /\ Pages /\ Covered /\ OneIssuePerSource
BY DEF ScoutInv

\* Mutual exclusion follows from the table: presses on one source share an entry,
\* and the lock of an entry has one holder.
LEMMA Exclusion == Table => OnePressPerSource
BY DEF Table, OnePressPerSource, Critical

LEMMA TableKept ==
    ASSUME Table, NEW p \in Press, NEW step \in Step, Moves(p, step),
           job[p].step # "idle", step # "idle",
           entries' = entries, refs' = refs,
           \A q \in Press : job'[q].step \in Critical => holder'[job'[q].entry] = q
    PROVE  Table'
<1>1. \A e \in Entry : Users(e)' = Users(e)
  BY DEF Users, Moves
<1>2. \A q \in Press : /\ job'[q].step # "idle" <=> job[q].step # "idle"
                       /\ job'[q].src = job[q].src
                       /\ job'[q].entry = job[q].entry
  BY DEF Moves
<1>3. \A e \in Entry : refs'[e] = Cardinality(Users(e)')
  BY <1>1 DEF Table
<1> QED BY <1>2, <1>3 DEF Table

LEMMA InitInv == ScoutInit => ScoutInv
<1> SUFFICES ASSUME ScoutInit PROVE ScoutInv
  OBVIOUS
<1>1. ScoutTypeOK
  BY ScoutAssumption DEF ScoutInit, EmptyTable, ScoutTypeOK, Job, Idle
<1>2. Table
  <2>1. \A e \in Entry : Users(e) = {}
    BY DEF ScoutInit, EmptyTable, Users, Idle
  <2>2. \A e \in Entry : refs[e] = Cardinality(Users(e))
    BY <2>1, FS_EmptySet DEF ScoutInit, EmptyTable
  <2> QED BY <2>2 DEF ScoutInit, EmptyTable, Table, Idle, Critical
<1>3. Memos
  BY DEF ScoutInit, EmptyTable, Memos
<1>4. Pages
  BY DEF ScoutInit, EmptyTable, Pages, KnownIssueFound, Idle
<1>5. Covered /\ OneIssuePerSource
  <2>1. \A i \in Issue : issue[i] \notin Src
    BY ScoutAssumption DEF ScoutInit
  <2>2. \A p \in Press : job[p].step = "idle"
    BY DEF ScoutInit, EmptyTable, Idle
  <2> QED BY <2>1, <2>2 DEF Covered, OneIssuePerSource
<1> QED BY <1>1, <1>2, <1>3, <1>4, <1>5 DEF ScoutInv

LEMMA LockInv == ASSUME ScoutInv, NEW p \in Press, Lock(p) PROVE ScoutInv'
<1> DEFINE step == IF live[job[p].entry] THEN "unlock" ELSE "access"
<1> USE InvParts
<1>1. job[p] \in Job /\ job[p].entry \in Entry
  BY DEF Lock, ScoutTypeOK, Table
<1>2. Moves(p, step) /\ job'[p].page = job[p].page /\ job'[p].known = job[p].known
  BY GoesMoves DEF Lock, Step, Critical
<1>3. ScoutTypeOK'
  BY <1>1, <1>2 DEF Lock, ScoutTypeOK, gitHub, Moves
<1>4. Table'
  <2>1. \A q \in Press : job'[q].step \in Critical => holder'[job'[q].entry] = q
    <3> SUFFICES ASSUME NEW q \in Press, job'[q].step \in Critical PROVE holder'[job'[q].entry] = q
      OBVIOUS
    <3>1. CASE q = p
      BY <3>1, <1>1, <1>2 DEF Lock, ScoutTypeOK, Moves
    <3>2. CASE q # p
      <4>1. job'[q] = job[q] /\ holder[job[q].entry] = q /\ job[q].entry \in Entry
        BY <3>2, <1>2 DEF Moves, Table, Critical
      <4>2. job[q].entry # job[p].entry
        BY <4>1, ScoutAssumption DEF Lock
      <4> QED BY <4>1, <4>2 DEF Lock
    <3> QED BY <3>1, <3>2
  <2> QED BY <2>1, <1>2, TableKept DEF Lock, Step, Critical
<1>5. Memos'
  BY DEF Lock, Memos, gitHub
<1>6. Pages'
  <2>1. \A i : Rank(i)' = Rank(i)
    BY DEF Lock, gitHub, Rank
  <2> QED BY <2>1, <1>2 DEF Lock, gitHub, Pages, Behind, KnownIssueFound, Moves
<1>7. Covered' /\ OneIssuePerSource'
  <2>1. OneIssuePerSource'
    BY DEF Lock, gitHub, OneIssuePerSource
  <2>2. ASSUME NEW i \in Issue, issue'[i] = job'[p].src, job'[p].src \notin excused',
               job'[p].step = "access"
        PROVE  i \in indexed'
    <3>1. job[p].src \in Src \ excused /\ ~live[entries[job[p].src]] /\ issue[i] = job[p].src
      BY <2>2, <1>2 DEF Lock, gitHub, Moves, Table
    <3> QED BY <3>1, ScoutAssumption DEF Covered, Lock, gitHub
  <2> QED BY <2>1, <2>2, <1>2 DEF Covered, Lock, gitHub, Moves
<1> QED BY <1>3, <1>4, <1>5, <1>6, <1>7 DEF ScoutInv

\* A step of p that leaves locks and entries alone.
LEMMA LocksKept ==
    ASSUME Table, NEW p \in Press, NEW step \in Step, Moves(p, step),
           job[p].step \in Critical, step \in Critical, UNCHANGED holder
    PROVE  \A q \in Press : job'[q].step \in Critical => holder'[job'[q].entry] = q
BY DEF Table, Moves

LEMMA RepoAccessibleInv == ASSUME ScoutInv, NEW p \in Press, RepoAccessible(p) PROVE ScoutInv'
<1> USE InvParts
<1>0. job[p] \in Job /\ job[p].step = "access" /\ UNCHANGED <<memory, gitHub>>
  BY DEF RepoAccessible, ScoutTypeOK
<1>1. PICK step \in {"search", "unlock"} :
        /\ Moves(p, step)
        /\ step = "search" => job'[p].page = 1 /\ job'[p].known = indexed
  <2>1. CASE job' = [job EXCEPT ![p].step = "search", ![p].page = 1, ![p].known = indexed]
    <3> DEFINE r == [job[p] EXCEPT !.step = "search", !.page = 1, !.known = indexed]
    <3>1. job' = [job EXCEPT ![p] = r]
      BY <2>1
    <3>2. 1 \in 0..MaxPage /\ indexed \in SUBSET Issue
      BY ScoutAssumption DEF ScoutTypeOK
    <3>3. /\ r \in Job /\ r.step = "search" /\ r.page = 1 /\ r.known = indexed
          /\ r.src = job[p].src /\ r.entry = job[p].entry
      BY <1>0, <3>2 DEF Job, Critical
    <3> HIDE DEF r
    <3>4. Moves(p, "search") /\ job'[p].page = 1 /\ job'[p].known = indexed
      BY <3>1, <3>3 DEF ScoutTypeOK, Moves
    <3> QED BY <3>4
  <2>2. CASE Goes(p, "unlock")
    <3>1. Moves(p, "unlock") /\ "unlock" # "search"
      BY <2>2, GoesMoves DEF Step, Critical
    <3> QED BY <3>1
  <2> QED BY <2>1, <2>2 DEF RepoAccessible
<1>2. ScoutTypeOK'
  BY <1>0, <1>1 DEF ScoutTypeOK, memory, gitHub, Moves
<1>3. Table'
  BY <1>0, <1>1, LocksKept, TableKept DEF memory, Step, Critical
<1>4. Memos'
  BY <1>0 DEF Memos, memory, gitHub
<1>5. \A i : Rank(i)' = Rank(i)
  BY <1>0 DEF gitHub, Rank
<1>6. Pages'
  <2>1. ASSUME step = "search", NEW i \in indexed PROVE Behind(p, i)'
    <3>1. (job'[p].page - 1) * PageSize = 0 /\ Rank(i) \in Nat
      BY <2>1, <1>1, RankType, ScoutAssumption DEF ScoutTypeOK
    <3> QED BY <3>1, <1>5, <1>0 DEF Behind, gitHub
  <2>2. \A q \in Press \ {p}, i \in Issue : Behind(q, i)' <=> Behind(q, i)
    BY <1>0, <1>1, <1>5 DEF Behind, gitHub, Moves
  <2>3. \A i \in indexed : issue[i] # NoSrc
    BY DEF Pages
  <2>4. \A q \in Press : job[q].known \in SUBSET Issue
    BY DEF ScoutTypeOK, Job
  <2>5. \A q \in Press \ {p} : job'[q] = job[q]
    BY <1>1 DEF Moves
  <2>6. job'[p].step = step /\ (step = "search" => job'[p].page = 1 /\ job'[p].known = indexed) /\ step # "create"
    BY <1>1 DEF Moves
  <2>7. UNCHANGED <<issue, indexed>>
    BY <1>0 DEF gitHub
  <2>8. KnownIssueFound'
    BY <2>5, <2>6, <2>7 DEF KnownIssueFound, Pages
  <2> QED BY <2>1, <2>2, <2>3, <2>4, <2>5, <2>6, <2>7, <2>8 DEF Pages
<1>7. Covered' /\ OneIssuePerSource'
  BY <1>0, <1>1 DEF Covered, OneIssuePerSource, memory, gitHub, Moves
<1> QED BY <1>2, <1>3, <1>4, <1>6, <1>7 DEF ScoutInv

LEMMA UnlockInv == ASSUME ScoutInv, NEW p \in Press, Unlock(p) PROVE ScoutInv'
<1> USE InvParts
<1>1. Moves(p, "release")
  BY GoesMoves DEF Unlock, Step
<1>2. ScoutTypeOK'
  BY <1>1, ScoutAssumption DEF Unlock, ScoutTypeOK, gitHub, Moves, Job
<1>3. Table'
  <2>1. \A q \in Press : job'[q].step \in Critical => holder'[job'[q].entry] = q
    <3> SUFFICES ASSUME NEW q \in Press, job'[q].step \in Critical PROVE holder'[job'[q].entry] = q
      OBVIOUS
    <3>1. q # p
      BY <1>1 DEF Moves, Critical
    <3>2. job'[q] = job[q] /\ holder[job[q].entry] = q /\ job[q].entry \in Entry
      BY <3>1, <1>1 DEF Moves, Table, Critical
    <3>3. holder[job[p].entry] = p
      BY DEF Unlock, Table, Critical
    <3> QED BY <3>1, <3>2, <3>3 DEF Unlock
  <2> QED BY <2>1, <1>1, TableKept DEF Unlock, Step
<1>4. Memos'
  BY DEF Unlock, Memos, gitHub
<1>5. Pages'
  <2>1. \A i : Rank(i)' = Rank(i)
    BY DEF Unlock, gitHub, Rank
  <2> QED BY <2>1, <1>1 DEF Unlock, gitHub, Pages, Behind, KnownIssueFound, Moves
<1>6. Covered' /\ OneIssuePerSource'
  BY <1>1 DEF Unlock, Covered, OneIssuePerSource, gitHub, Moves
<1> QED BY <1>2, <1>3, <1>4, <1>5, <1>6 DEF ScoutInv

LEMMA ReleaseInv == ASSUME ScoutInv, NEW p \in Press, Release(p) PROVE ScoutInv'
<1> USE InvParts
<1>0. job[p].entry \in Entry
  BY DEF Release, Table
<1> PICK e \in Entry : e = job[p].entry
  BY <1>0
<1>1. /\ job[p].step = "release" /\ job' \in [Press -> Job] /\ job'[p] = Idle
      /\ \A q \in Press \ {p} : job'[q] = job[q]
      /\ UNCHANGED <<entries, holder, memo, live, issue, indexed, excused>>
  BY ScoutAssumption DEF Release, ScoutTypeOK, Table, Idle, Job, gitHub
<1>2. IsFiniteSet(Users(e)) /\ p \in Users(e) /\ refs[e] = Cardinality(Users(e))
  <2>1. Users(e) \in SUBSET Press
    BY DEF Users
  <2> QED BY <2>1, <1>1, FS_Subset, ScoutAssumption DEF Users, Table
<1>3. refs[e] \in Nat /\ refs[e] # 0
  BY <1>1, <1>2, FS_EmptySet DEF ScoutTypeOK
<1>4. refs' \in [Entry -> Nat] /\ refs'[e] = refs[e] - 1 /\ \A f \in Entry \ {e} : refs'[f] = refs[f]
  BY <1>1, <1>3 DEF Release, ScoutTypeOK
<1>5. ScoutTypeOK'
  BY <1>1, <1>4 DEF ScoutTypeOK
<1>6. Table'
  <2>1. Users(e)' = Users(e) \ {p}
    BY <1>1 DEF Users, Idle
  <2>2. Cardinality(Users(e)') = refs'[e]
    BY <2>1, <1>2, <1>4, FS_RemoveElement
  <2>3. \A f \in Entry \ {e} : Users(f)' = Users(f)
    BY <1>1 DEF Users, Idle
  <2>4. \A f \in Entry : refs'[f] = Cardinality(Users(f)')
    BY <2>2, <2>3, <1>4 DEF Table
  <2> QED BY <2>4, <1>1 DEF Table, Idle, Critical
<1>7. Memos'
  BY <1>1 DEF Memos
<1>8. Pages'
  <2>1. \A i : Rank(i)' = Rank(i)
    BY <1>1 DEF Rank
  <2> QED BY <2>1, <1>1 DEF Pages, Behind, KnownIssueFound, Idle
<1>9. Covered' /\ OneIssuePerSource'
  BY <1>1 DEF Covered, OneIssuePerSource, Idle
<1> QED BY <1>5, <1>6, <1>7, <1>8, <1>9 DEF ScoutInv

\* A remembered issue is one of the source, and other sources keep theirs.
LEMMA MemoiseKeeps ==
    ASSUME ScoutTypeOK, Table, Memos, NEW p \in Press, job[p].step \in Critical,
           NEW i \in Issue, Memoise(job[p].entry, i), entries' = entries,
           issue'[i] = job[p].src, \A j \in Issue : issue[j] # NoSrc => issue'[j] = issue[j]
    PROVE  /\ memo' \in [Entry -> Issue \cup {NoIssue}] /\ live' \in [Entry -> BOOLEAN]
           /\ memo'[entries[job[p].src]] = i /\ live'[entries[job[p].src]]
           /\ \A s \in Src \ {job[p].src} : entries[s] # NoEntry =>
                memo'[entries[s]] = memo[entries[s]] /\ live'[entries[s]] = live[entries[s]]
           /\ Memos'
<1> PICK e \in Entry, s \in Src : e = job[p].entry /\ s = job[p].src /\ entries[s] = e
  BY DEF Table, Critical
<1>1. memo' \in [Entry -> Issue \cup {NoIssue}] /\ live' \in [Entry -> BOOLEAN]
  BY DEF Memoise, ScoutTypeOK
<1>2. memo'[e] = i /\ live'[e] = TRUE
  BY DEF Memoise, ScoutTypeOK
<1>3. e # NoEntry
  BY ScoutAssumption
<1>4. \A u \in Src \ {s} : entries[u] # NoEntry =>
         entries[u] # e /\ memo'[entries[u]] = memo[entries[u]] /\ live'[entries[u]] = live[entries[u]]
  <2>1. \A u \in Src \ {s} : entries[u] # NoEntry => entries[u] # e /\ entries[u] \in Entry
    BY <1>3 DEF Table, ScoutTypeOK
  <2>2. \A d \in Entry \ {e} : memo'[d] = memo[d] /\ live'[d] = live[d]
    BY DEF Memoise, ScoutTypeOK
  <2> QED BY <2>1, <2>2
<1>5. Memos'
  <2> SUFFICES ASSUME NEW u \in Src, entries'[u] # NoEntry, live'[entries'[u]]
               PROVE  memo'[entries'[u]] \in Issue /\ issue'[memo'[entries'[u]]] = u
    BY DEF Memos
  <2>1. CASE u = s
    BY <2>1, <1>2
  <2>2. CASE u # s
    <3>1. memo[entries[u]] \in Issue /\ issue[memo[entries[u]]] = u /\ u # NoSrc
      BY <2>2, <1>4, ScoutAssumption DEF Memos
    <3> QED BY <3>1, <2>2, <1>4
  <2> QED BY <2>1, <2>2
<1> QED BY <1>1, <1>2, <1>4, <1>5

LEMMA SearchPageInv == ASSUME ScoutInv, NEW p \in Press, SearchPage(p) PROVE ScoutInv'
<1> USE InvParts
<1>0. /\ job[p] \in Job /\ job[p].step = "search" /\ job[p].src \in Src /\ job[p].entry \in Entry
      /\ entries[job[p].src] = job[p].entry
      /\ UNCHANGED <<entries, refs, holder, issue, indexed>>
  BY DEF SearchPage, Found, NotFound, SearchFailed, ScoutTypeOK, Table, gitHub
<1>1. indexed \in SUBSET Issue /\ \A k : OnPage(k) \subseteq indexed
  BY DEF ScoutTypeOK, OnPage
<1>2. \A i : Rank(i)' = Rank(i)
  BY <1>0 DEF Rank
<1>3. CASE SearchFailed(p)
  <2>0. UNCHANGED <<memo, live, excused>>
    BY <1>3 DEF SearchFailed, gitHub
  <2>1. Moves(p, "unlock")
    BY <1>3, GoesMoves DEF SearchFailed, Step, Critical
  <2>2. ScoutTypeOK' /\ Memos'
    BY <2>0, <1>0, <2>1 DEF ScoutTypeOK, Moves, Memos
  <2>3. Table'
    BY <1>0, <2>1, LocksKept, TableKept DEF Step, Critical
  <2>4. Pages'
    BY <1>0, <1>2, <2>1 DEF Pages, Behind, KnownIssueFound, Moves
  <2>5. Covered' /\ OneIssuePerSource'
    BY <2>0, <1>0, <2>1 DEF Covered, OneIssuePerSource, Moves
  <2> QED BY <2>2, <2>3, <2>4, <2>5 DEF ScoutInv
<1>4. ASSUME NEW shown \in Answers(job[p].page), NEW i \in Matches(p, shown),
             Memoise(job[p].entry, i), Goes(p, "unlock"), UNCHANGED excused
      PROVE  ScoutInv'
  <2>1. Moves(p, "unlock")
    BY <1>4, GoesMoves DEF Step, Critical
  <2>2. i \in indexed /\ i \in Issue /\ issue[i] = job[p].src
    BY <1>1 DEF Answers, Matches
  <2>3. /\ memo' \in [Entry -> Issue \cup {NoIssue}] /\ live' \in [Entry -> BOOLEAN]
        /\ \A s \in Src \ {job[p].src} : entries[s] # NoEntry =>
                memo'[entries[s]] = memo[entries[s]] /\ live'[entries[s]] = live[entries[s]]
        /\ Memos'
    BY <1>0, <1>4, <2>2, MemoiseKeeps DEF Critical
  <2>4. ScoutTypeOK'
    BY <1>0, <1>4, <2>1, <2>3 DEF ScoutTypeOK, Moves
  <2>5. Table'
    BY <1>0, <2>1, LocksKept, TableKept DEF Step, Critical
  <2>6. Pages'
    BY <1>0, <1>2, <2>1 DEF Pages, Behind, KnownIssueFound, Moves
  <2>7. Covered' /\ OneIssuePerSource'
    <3>1. OneIssuePerSource'
      BY <1>0, <1>4 DEF OneIssuePerSource
    <3>2. ASSUME NEW j \in Issue \ indexed, issue[j] \in Src \ excused
          PROVE  entries[issue[j]] # NoEntry /\ live'[entries[issue[j]]] /\ memo'[entries[issue[j]]] = j
      <4>1. issue[j] # issue[i]
        BY <2>2, <3>2 DEF OneIssuePerSource
      <4>2. issue[j] \in Src \ {job[p].src}
        BY <4>1, <2>2, <3>2 DEF ScoutTypeOK
      <4> QED BY <4>2, <2>3, <3>2 DEF Covered
    <3> QED BY <3>1, <3>2, <1>0, <1>4, <2>1 DEF Covered, Moves
  <2> QED BY <2>3, <2>4, <2>5, <2>6, <2>7 DEF ScoutInv
<1>5. CASE NotFound(p)
  <2>1. PICK k \in 1..MaxPage : k = job[p].page
    BY <1>0, ScoutAssumption DEF Pages, Job
  <2> PICK shown \in Answers(k) :
        LET next == NotShown(p, shown)
            kept == KeptBack(k, shown)
        IN /\ Matches(p, shown) = {}
           /\ job' = [job EXCEPT ![p].step = next,
                                 ![p].page = IF next = "search" THEN @ + 1 ELSE @,
                                 ![p].known = @ \ kept]
           /\ IF Matches(p, kept) = {} THEN UNCHANGED excused ELSE Excuse(job[p].src)
    BY <1>5, <2>1 DEF NotFound
  <2>2. shown \in SUBSET OnPage(k) /\ shown \in SUBSET Issue
    BY <1>1, <2>1 DEF Answers
  <2>3. PICK next \in {"search", "create", "unlock"} :
          /\ next = NotShown(p, shown)
          /\ next = "search" => ~LastPage(k) /\ k # MaxPage /\ Cardinality(shown) >= PageSize
          /\ next = "create" => LastPage(k)
    <3>1. IsFiniteSet(shown)
      BY <2>2, FiniteIssues
    <3>2. Cardinality(shown) \in Nat
      BY <3>1, FS_CardinalityType
    <3>3. Cardinality(shown) < PageSize \/ Cardinality(shown) >= PageSize
      BY <3>2, ScoutAssumption
    <3>4. ~(Cardinality(shown) < PageSize /\ Cardinality(shown) >= PageSize)
      BY <3>2, ScoutAssumption
    <3> QED BY <2>1, <3>3, <3>4 DEF NotShown
  <2> DEFINE kept == KeptBack(k, shown)
             known == job[p].known \ kept
  <2>4. /\ Moves(p, next) /\ job'[p].known = known
        /\ job'[p].page = IF next = "search" THEN k + 1 ELSE k
    <3> DEFINE n == IF next = "search" THEN k + 1 ELSE k
               r == [job[p] EXCEPT !.step = next, !.page = n, !.known = known]
    <3>1. job' = [job EXCEPT ![p] = r]
      BY <2>1, <2>3
    <3>2. n \in 0..MaxPage
      BY <2>1, <2>3, ScoutAssumption
    <3>3. known \in SUBSET Issue
      BY <1>0 DEF Job
    <3> HIDE DEF n, known
    <3>4. /\ r \in Job /\ r.step = next /\ r.page = n /\ r.known = known
          /\ r.src = job[p].src /\ r.entry = job[p].entry
      BY <1>0, <3>2, <3>3 DEF Job, Critical
    <3> HIDE DEF r
    <3>5. Moves(p, next) /\ job'[p].known = known /\ job'[p].page = n
      BY <3>1, <3>4 DEF ScoutTypeOK, Moves
    <3> QED BY <3>5 DEF n
  <2>5. /\ UNCHANGED <<memo, live>>
        /\ excused \subseteq excused' /\ excused' \in SUBSET Src
        /\ Matches(p, kept) # {} => job[p].src \in excused'
    BY <1>0, <1>5, <2>1 DEF NotFound, Excuse, ScoutTypeOK
  <2>6. ScoutTypeOK' /\ Memos'
    BY <2>5, <1>0, <2>4 DEF ScoutTypeOK, Moves, Memos
  <2>7. Table'
    BY <1>0, <2>4, LocksKept, TableKept DEF Step, Critical
  \* What is still known and has the source lies on a later page.
  <2>8. ASSUME next # "unlock", NEW i \in known, issue[i] = job[p].src
        PROVE  i \in indexed /\ Rank(i) >= k * PageSize
    <3>1. i \in indexed /\ Rank(i) >= (k - 1) * PageSize
      BY <2>8, <1>0, <2>1 DEF Pages, Behind
    <3>2. i \notin OnPage(k)
      <4> SUFFICES ASSUME i \in OnPage(k) PROVE FALSE
        OBVIOUS
      <4>1. i \notin shown
        BY <2>8 DEF Matches
      <4>2. CASE next = "search"
        BY <4>1, <4>2, <2>2, <2>3, <1>1, FullPage
      <4>3. CASE next = "create"
        BY <4>1, <4>3, <2>3, <2>8 DEF KeptBack
      <4> QED BY <2>8, <4>2, <4>3
    <3>3. ~(Rank(i) < k * PageSize)
      BY <3>1, <3>2, <2>1, ScoutAssumption DEF OnPage
    <3>4. Rank(i) \in Nat /\ k * PageSize \in Int
      BY <3>1, <1>1, RankType, ScoutAssumption
    <3> QED BY <3>1, <3>3, <3>4
  <2>9. KnownIssueFound'
    <3>1. ASSUME next = "create", NEW i \in known PROVE issue[i] # job[p].src
      <4> SUFFICES ASSUME issue[i] = job[p].src PROVE FALSE
        OBVIOUS
      <4>1. i \in indexed /\ Rank(i) >= k * PageSize
        BY <2>8, <3>1
      <4>2. k * PageSize >= Cardinality(indexed)
        BY <2>3, <3>1 DEF LastPage
      <4>3. Rank(i) < Cardinality(indexed)
        BY <4>1, <1>1, RankBelowTotal
      <4>4. IsFiniteSet(indexed)
        BY <1>1, FiniteIssues
      <4>5. Rank(i) \in Nat /\ Cardinality(indexed) \in Nat /\ k * PageSize \in Int
        BY <4>1, <4>4, <1>1, RankType, FS_CardinalityType, ScoutAssumption
      <4> QED BY <4>1, <4>2, <4>3, <4>5
    <3> HIDE DEF known
    <3> QED BY <3>1, <1>0, <2>4 DEF KnownIssueFound, Moves, Pages
  <2>10. Pages'
    <3>1. \A i \in indexed' : issue'[i] # NoSrc
      BY <1>0 DEF Pages
    <3> SUFFICES ASSUME NEW q \in Press
                 PROVE  /\ job'[q].step \in {"search", "create"} => \A i \in job'[q].known : issue'[i] # NoSrc
                        /\ job'[q].step = "search" =>
                             /\ job'[q].page >= 1
                             /\ \A i \in job'[q].known : issue'[i] = job'[q].src => Behind(q, i)'
      BY <3>1, <2>9 DEF Pages
    <3>2. CASE q # p
      BY <3>2, <1>0, <1>2, <2>4 DEF Pages, Behind, Moves
    <3>3. CASE q = p
      <4>1. job'[p].known = known /\ job'[p].src = job[p].src /\ job'[p].step = next
        BY <2>4 DEF Moves
      <4>2. \A i \in known : issue'[i] # NoSrc
        BY <1>0 DEF Pages
      <4>3. ASSUME next = "search" PROVE job'[p].page >= 1 /\ job'[p].page - 1 = k
        <5>1. k \in Nat /\ k >= 1
          BY ScoutAssumption
        <5>2. job'[p].page = k + 1
          BY <4>3, <2>4
        <5> QED BY <5>1, <5>2
      <4> HIDE DEF known
      <4> QED BY <3>3, <4>1, <4>2, <4>3, <2>8, <1>0, <1>2 DEF Behind
    <3> QED BY <3>2, <3>3
  <2>11. OneIssuePerSource'
    BY <2>5, <1>0 DEF OneIssuePerSource
  <2>12. Covered'
    <3>1. \A i \in Issue \ indexed : issue[i] \in Src \ excused' =>
             entries[issue[i]] # NoEntry /\ live[entries[issue[i]]] /\ memo[entries[issue[i]]] = i
      BY <2>5 DEF Covered
    \* A source of which the last page kept an issue back is excused.
    <3>2. ASSUME NEW i \in Issue, issue[i] = job[p].src, job[p].src \notin excused', next # "unlock"
          PROVE  i \in known
      <4>1. i \in job[p].known
        BY <3>2, <2>5, <1>0 DEF Covered
      <4>2. i \notin kept
        BY <3>2, <2>5 DEF Matches
      <4> QED BY <4>1, <4>2
    <3>3. ASSUME NEW q \in Press, NEW i \in Issue, issue[i] = job'[q].src, job'[q].src \notin excused'
          PROVE  /\ job'[q].step = "access" => i \in indexed
                 /\ job'[q].step \in {"search", "create"} => i \in job'[q].known
      <4>1. CASE q = p
        BY <4>1, <3>2, <3>3, <2>4 DEF Moves
      <4>2. CASE q # p
        BY <4>2, <3>3, <2>4, <2>5 DEF Covered, Moves
      <4> QED BY <4>1, <4>2
    <3> QED BY <3>1, <3>3, <2>5, <1>0 DEF Covered
  <2> QED BY <2>6, <2>7, <2>10, <2>11, <2>12 DEF ScoutInv
<1> QED BY <1>3, <1>4, <1>5 DEF SearchPage, Found, gitHub

\* An issue is opened under a number that no issue has, and stays out of the search.
LEMMA OpenedNew ==
    ASSUME ScoutTypeOK, Pages, NEW i \in NextIssue, NEW s \in Src, Opened(i, s)
    PROVE  /\ i \in Issue /\ issue[i] = NoSrc /\ i \notin indexed /\ issue'[i] = s
           /\ issue' \in [Issue -> Src \cup {NoSrc}]
           /\ \A j \in Issue \ {i} : issue'[j] = issue[j]
           /\ \A p \in Press : job[p].step \in {"search", "create"} => i \notin job[p].known
BY DEF NextIssue, Opened, ScoutTypeOK, Pages

LEMMA PagesKeptByOpening ==
    ASSUME ScoutTypeOK, Pages, NEW i \in NextIssue, NEW s \in Src, Opened(i, s),
           \A p \in Press : job'[p].step \in {"search", "create"} => job'[p] = job[p]
    PROVE  Pages'
<1>1. \A j : Rank(j)' = Rank(j)
  BY DEF Rank, Opened
<1>2. \A j \in indexed' : issue'[j] # NoSrc /\ issue'[j] = issue[j]
  BY OpenedNew DEF Pages, Opened, ScoutTypeOK
<1> SUFFICES ASSUME NEW q \in Press, job'[q].step \in {"search", "create"}
             PROVE  /\ \A j \in job'[q].known : issue'[j] # NoSrc
                    /\ job'[q].step = "search" =>
                         /\ job'[q].page >= 1
                         /\ \A j \in job'[q].known : issue'[j] = job'[q].src => Behind(q, j)'
                    /\ job'[q].step = "create" =>
                         \A j \in job'[q].known : issue'[j] # job'[q].src
  BY <1>2 DEF Pages, KnownIssueFound
<1>3. job'[q] = job[q] /\ job[q].known \in SUBSET Issue /\ i \notin job[q].known
  BY OpenedNew DEF ScoutTypeOK, Job
<1>4. \A j \in job[q].known : issue'[j] = issue[j] /\ issue[j] # NoSrc
  BY <1>3, OpenedNew DEF Pages
<1>5. \A j : Behind(q, j)' <=> Behind(q, j)
  BY <1>1, <1>3 DEF Behind, Opened
<1> QED BY <1>3, <1>4, <1>5 DEF Pages, KnownIssueFound

\* An issue that comes with an excuse for its source breaks no promise.
LEMMA ExcusedByOpening ==
    ASSUME ScoutTypeOK, Pages, Covered, OneIssuePerSource,
           NEW i \in NextIssue, NEW s \in Src, Opened(i, s), Excuse(s),
           UNCHANGED <<entries, memo, live>>,
           \A p \in Press : \/ job'[p] = job[p]
                            \/ job'[p].step \notin {"access", "search", "create"}
    PROVE  Covered' /\ OneIssuePerSource'
<1>1. /\ issue'[i] = s /\ \A j \in Issue \ {i} : issue'[j] = issue[j]
      /\ indexed' = indexed /\ excused' = excused \cup {s}
  BY OpenedNew DEF Opened, Excuse
<1>2. \A j \in Issue : issue'[j] \notin excused' => issue'[j] = issue[j] /\ issue[j] \notin excused
  BY <1>1
<1>3. OneIssuePerSource'
  BY <1>2 DEF OneIssuePerSource
<1>4. ASSUME NEW j \in Issue \ indexed', issue'[j] \in Src \ excused'
      PROVE  /\ entries'[issue'[j]] # NoEntry
             /\ live'[entries'[issue'[j]]]
             /\ memo'[entries'[issue'[j]]] = j
  BY <1>1, <1>2, <1>4 DEF Covered
<1>5. ASSUME NEW q \in Press, NEW j \in Issue, issue'[j] = job'[q].src, job'[q].src \notin excused'
      PROVE  /\ job'[q].step = "access" => j \in indexed'
             /\ job'[q].step \in {"search", "create"} => j \in job'[q].known
  BY <1>1, <1>2, <1>5 DEF Covered
<1> QED BY <1>3, <1>4, <1>5 DEF Covered

LEMMA CreateIssueInv == ASSUME ScoutInv, NEW p \in Press, CreateIssue(p) PROVE ScoutInv'
<1> USE InvParts
<1>0. /\ job[p] \in Job /\ job[p].step = "create" /\ job[p].src \in Src /\ job[p].entry \in Entry
      /\ entries[job[p].src] = job[p].entry
      /\ UNCHANGED <<entries, refs, holder>>
  BY DEF CreateIssue, ScoutTypeOK, Table
<1>1. Moves(p, "unlock")
  BY GoesMoves DEF CreateIssue, Step, Critical
<1>2. Table'
  BY <1>0, <1>1, LocksKept, TableKept DEF Step, Critical
<1>3. \A q \in Press : job'[q].step \in {"search", "create"} => job'[q] = job[q]
  BY <1>1 DEF Moves
<1>4. CASE UNCHANGED <<issue, indexed, excused, memo, live>>
  <2>1. ScoutTypeOK' /\ Memos'
    BY <1>4, <1>0, <1>1 DEF ScoutTypeOK, Moves, Memos
  <2>2. \A i : Rank(i)' = Rank(i)
    BY <1>4 DEF Rank
  <2>3. Pages'
    BY <1>4, <1>1, <2>2 DEF Pages, Behind, KnownIssueFound, Moves
  <2>4. Covered' /\ OneIssuePerSource'
    BY <1>4, <1>0, <1>1 DEF Covered, OneIssuePerSource, Moves
  <2> QED BY <1>2, <2>1, <2>3, <2>4 DEF ScoutInv
<1>5. ASSUME NEW i \in NextIssue, Opened(i, job[p].src), Excuse(job[p].src), UNCHANGED <<memo, live>>
      PROVE  ScoutInv'
  <2>1. /\ issue' \in [Issue -> Src \cup {NoSrc}] /\ issue[i] = NoSrc
        /\ \A j \in Issue \ {i} : issue'[j] = issue[j]
    BY <1>0, <1>5, OpenedNew
  <2>2. ScoutTypeOK'
    BY <2>1, <1>5, <1>0, <1>1 DEF ScoutTypeOK, Moves, Opened, Excuse
  <2>3. Memos'
    BY <2>1, <1>5, <1>0, ScoutAssumption DEF Memos
  <2>4. Pages'
    BY <1>0, <1>3, <1>5, PagesKeptByOpening
  <2>5. \A q \in Press : \/ job'[q] = job[q]
                         \/ job'[q].step \notin {"access", "search", "create"}
    BY <1>1 DEF Moves
  <2>6. Covered' /\ OneIssuePerSource'
    BY <1>0, <1>5, <2>5, ExcusedByOpening
  <2> QED BY <1>2, <2>2, <2>3, <2>4, <2>6 DEF ScoutInv
<1>6. ASSUME NEW i \in NextIssue, Opened(i, job[p].src), Memoise(job[p].entry, i), UNCHANGED excused
      PROVE  ScoutInv'
  <2>1. /\ issue' \in [Issue -> Src \cup {NoSrc}] /\ issue[i] = NoSrc /\ i \in Issue /\ i \notin indexed
        /\ \A j \in Issue \ {i} : issue'[j] = issue[j]
        /\ issue'[i] = job[p].src
        /\ \A q \in Press : job[q].step \in {"search", "create"} => i \notin job[q].known
    BY <1>0, <1>6, OpenedNew
  <2>2. /\ memo' \in [Entry -> Issue \cup {NoIssue}] /\ live' \in [Entry -> BOOLEAN]
        /\ memo'[entries[job[p].src]] = i /\ live'[entries[job[p].src]]
        /\ \A s \in Src \ {job[p].src} : entries[s] # NoEntry =>
                memo'[entries[s]] = memo[entries[s]] /\ live'[entries[s]] = live[entries[s]]
        /\ Memos'
    BY <1>0, <1>6, <2>1, MemoiseKeeps DEF Critical
  <2>3. ScoutTypeOK'
    BY <2>1, <2>2, <1>6, <1>0, <1>1 DEF ScoutTypeOK, Moves, Opened
  <2>4. Pages'
    BY <1>0, <1>3, <1>6, PagesKeptByOpening
  <2>5. Covered' /\ OneIssuePerSource'
    \* The search has shown that a source not excused has no issue.
    <3>1. job[p].src \notin excused => \A j \in Issue : issue[j] # job[p].src
      <4>1. \A j \in job[p].known : issue[j] # job[p].src
        BY <1>0 DEF Pages, KnownIssueFound
      <4>2. job[p].src \notin excused => \A j \in Issue : issue[j] = job[p].src => j \in job[p].known
        BY <1>0 DEF Covered
      <4> QED BY <4>1, <4>2
    <3>2. OneIssuePerSource'
      BY <3>1, <1>6, <2>1 DEF OneIssuePerSource
    <3>3. ASSUME NEW j \in Issue \ indexed', issue'[j] \in Src \ excused'
          PROVE  entries'[issue'[j]] # NoEntry /\ live'[entries'[issue'[j]]] /\ memo'[entries'[issue'[j]]] = j
      <4>1. CASE j = i
        BY <4>1, <2>1, <2>2, <1>0, ScoutAssumption
      <4>2. CASE j # i
        <5>1. /\ issue'[j] = issue[j] /\ issue[j] \in Src \ {job[p].src} /\ j \notin indexed
              /\ issue[j] \in Src \ excused
          BY <4>2, <2>1, <3>1, <3>3, <1>6 DEF ScoutTypeOK, Opened
        <5>3. /\ entries[issue[j]] # NoEntry /\ live[entries[issue[j]]]
              /\ memo[entries[issue[j]]] = j
          BY <5>1 DEF Covered
        <5>4. /\ memo'[entries[issue[j]]] = memo[entries[issue[j]]]
              /\ live'[entries[issue[j]]] = live[entries[issue[j]]]
          BY <5>1, <5>3, <2>2
        <5> QED BY <5>1, <5>3, <5>4, <1>0
      <4> QED BY <4>1, <4>2
    <3>4. ASSUME NEW q \in Press, NEW j \in Issue, issue'[j] = job'[q].src, job'[q].src \notin excused'
          PROVE  /\ job'[q].step = "access" => j \in indexed'
                 /\ job'[q].step \in {"search", "create"} => j \in job'[q].known
      <4>1. CASE q = p
        BY <4>1, <1>1 DEF Moves
      <4>2. CASE q # p /\ job[q].step \in Critical
        <5>1. job[q].src # job[p].src
          BY <4>2, <1>0, Exclusion DEF OnePressPerSource, Critical
        <5>2. job'[q] = job[q]
          BY <4>2, <1>1 DEF Moves
        <5>3. j # i
          BY <5>1, <5>2, <3>4, <2>1
        <5>4. issue[j] = job[q].src
          BY <5>2, <5>3, <3>4, <2>1
        <5> QED BY <3>4, <5>2, <5>4, <1>6 DEF Covered, Opened
      <4>3. CASE q # p /\ job[q].step \notin Critical
        BY <4>3, <1>1 DEF Moves, Critical
      <4> QED BY <4>1, <4>2, <4>3
    <3> QED BY <3>2, <3>3, <3>4 DEF Covered
  <2> QED BY <1>2, <2>2, <2>3, <2>4, <2>5 DEF ScoutInv
<1> QED BY <1>4, <1>5, <1>6 DEF CreateIssue, gitHub

LEMMA IndexInv == ASSUME ScoutInv, NEW i \in Issue, Index(i) PROVE ScoutInv'
<1> USE InvParts
<1>0. /\ issue[i] # NoSrc /\ indexed' = indexed \cup {i} /\ indexed' \in SUBSET Issue
      /\ UNCHANGED <<entries, refs, holder, memo, live, issue, excused, job>>
  BY DEF Index, gitHub, memory, ScoutTypeOK
<1>1. ScoutTypeOK' /\ Table' /\ Memos'
  BY <1>0 DEF ScoutTypeOK, Table, Memos, Users
<1>2. Pages'
  <2>1. ASSUME NEW q \in Press, NEW j \in Issue, job[q].step = "search", Behind(q, j)
        PROVE  Behind(q, j)'
    <3>1. Rank(j) <= Rank(j)'
      BY <1>0, RankGrows
    <3>2. Rank(j) \in Nat /\ Rank(j)' \in Nat
      <4>1. IsFiniteSet({k \in indexed : k > j}) /\ IsFiniteSet({k \in indexed' : k > j})
        BY <1>0, FiniteIssues DEF ScoutTypeOK
      <4> QED BY <4>1, FS_CardinalityType DEF Rank
    <3>3. job[q].page \in Nat
      BY ScoutAssumption DEF ScoutTypeOK, Job
    <3>4. (job[q].page - 1) * PageSize \in Int
      BY <3>3, ScoutAssumption
    <3> QED BY <2>1, <3>1, <3>2, <3>4, <1>0 DEF Behind
  <2>2. \A q \in Press : job[q].known \in SUBSET Issue
    BY DEF ScoutTypeOK, Job
  <2>3. KnownIssueFound'
    BY <1>0 DEF KnownIssueFound, Pages
  <2>4. \A j \in indexed' : issue[j] # NoSrc
    BY <1>0 DEF Pages
  <2> QED BY <1>0, <2>1, <2>2, <2>3, <2>4 DEF Pages
<1>3. Covered' /\ OneIssuePerSource'
  BY <1>0 DEF Covered, OneIssuePerSource
<1> QED BY <1>1, <1>2, <1>3 DEF ScoutInv

LEMMA ExpireInv == ASSUME ScoutInv, NEW e \in Entry, Expire(e) PROVE ScoutInv'
<1> USE InvParts
<1>0. /\ memo[e] \in indexed /\ live' = [live EXCEPT ![e] = FALSE] /\ live' \in [Entry -> BOOLEAN]
      /\ UNCHANGED <<entries, refs, holder, memo, issue, indexed, excused, job>>
  BY DEF Expire, gitHub, ScoutTypeOK
<1>1. ScoutTypeOK' /\ Table'
  BY <1>0 DEF ScoutTypeOK, Table, Users
<1>2. \A s \in Src : entries[s] # NoEntry => entries[s] \in Entry
  BY DEF ScoutTypeOK
<1>3. \A d \in Entry : live'[d] = (live[d] /\ d # e)
  BY <1>0 DEF ScoutTypeOK
<1>4. Memos'
  BY <1>0, <1>2, <1>3 DEF Memos
<1>5. Pages'
  <2>1. \A i : Rank(i)' = Rank(i)
    BY <1>0 DEF Rank
  <2> QED BY <2>1, <1>0 DEF Pages, Behind, KnownIssueFound
<1>6. Covered' /\ OneIssuePerSource'
  <2>1. ASSUME NEW i \in Issue \ indexed, issue[i] \in Src \ excused
        PROVE  entries[issue[i]] # NoEntry /\ live'[entries[issue[i]]] /\ memo[entries[issue[i]]] = i
    <3>1. /\ entries[issue[i]] # NoEntry /\ live[entries[issue[i]]] /\ memo[entries[issue[i]]] = i
          /\ issue[i] \in Src
      BY <2>1 DEF Covered, ScoutTypeOK
    <3>2. entries[issue[i]] # e
      BY <3>1, <2>1, <1>0
    <3> QED BY <3>1, <3>2, <1>2, <1>3
  <2> QED BY <2>1, <1>0 DEF Covered, OneIssuePerSource
<1> QED BY <1>1, <1>4, <1>5, <1>6 DEF ScoutInv

LEMMA ByHandInv == ASSUME ScoutInv, ByHand PROVE ScoutInv'
<1> USE InvParts
<1> PICK i \in NextIssue, s \in Src : Opened(i, s) /\ Excuse(s)
  BY DEF ByHand
<1>0. UNCHANGED <<entries, refs, holder, memo, live, job, indexed>>
  BY DEF ByHand, memory, Opened
<1>1. /\ issue' \in [Issue -> Src \cup {NoSrc}] /\ issue[i] = NoSrc
      /\ \A j \in Issue \ {i} : issue'[j] = issue[j]
  BY OpenedNew
<1>2. ScoutTypeOK' /\ Table'
  BY <1>0, <1>1 DEF ScoutTypeOK, Table, Users, Excuse
<1>3. Memos'
  BY <1>0, <1>1, ScoutAssumption DEF Memos
<1>4. Pages'
  BY <1>0, PagesKeptByOpening
<1>5. Covered' /\ OneIssuePerSource'
  BY <1>0, ExcusedByOpening
<1> QED BY <1>2, <1>3, <1>4, <1>5 DEF ScoutInv

LEMMA CrashInv == ASSUME ScoutInv, Crash PROVE ScoutInv'
<1> USE InvParts
<1>0. UNCHANGED <<issue, indexed>>
  BY DEF Crash
<1>1. ScoutTypeOK'
  BY <1>0, ScoutAssumption DEF Crash, ScoutTypeOK, Idle, Job
<1>2. Table'
  <2>1. \A e \in Entry : Users(e)' = {}
    BY DEF Crash, Users, Idle
  <2>2. \A e \in Entry : refs'[e] = Cardinality(Users(e)')
    BY <2>1, FS_EmptySet DEF Crash
  <2> QED BY <2>2 DEF Crash, Table, Idle, Critical
<1>3. Memos'
  BY DEF Crash, Memos
<1>4. Pages'
  BY <1>0 DEF Crash, Pages, KnownIssueFound, Idle
<1>5. Covered' /\ OneIssuePerSource'
  <2>1. \A i \in Issue : issue[i] \in Src \ excused' => i \in indexed /\ issue[i] \notin excused
    BY ScoutAssumption DEF Crash
  <2>2. OneIssuePerSource'
    BY <2>1, <1>0 DEF OneIssuePerSource
  <2>3. Covered'
    BY <2>1, <1>0 DEF Crash, Covered, Idle
  <2> QED BY <2>2, <2>3
<1> QED BY <1>1, <1>2, <1>3, <1>4, <1>5 DEF ScoutInv

LEMMA EntryForInv == ASSUME ScoutInv, NEW p \in Press, NEW s \in Src, EntryFor(p, s) PROVE ScoutInv'
<1> USE InvParts
<1>1. PICK e \in Entry :
        /\ entries[s] # NoEntry => e = entries[s] /\ UNCHANGED <<memo, live>>
        /\ entries[s] = NoEntry =>
             /\ e \notin InTable
             /\ memo' = [memo EXCEPT ![e] = NoIssue]
             /\ live' = [live EXCEPT ![e] = FALSE]
        /\ entries' = [u \in Src |-> IF u = s THEN e
                                     ELSE IF u \in Evicts(s) THEN NoEntry ELSE entries[u]]
        /\ refs' = [refs EXCEPT ![e] = @ + 1]
        /\ job' = [job EXCEPT ![p] = [Idle EXCEPT !.step = "lock", !.src = s, !.entry = e]]
  BY DEF EntryFor
<1>2. UNCHANGED <<holder, issue, indexed, excused>> /\ job[p] = Idle
  BY DEF EntryFor, gitHub
<1>3. /\ job' \in [Press -> Job]
      /\ \A q \in Press \ {p} : job'[q] = job[q]
      /\ job'[p].step = "lock" /\ job'[p].src = s /\ job'[p].entry = e
  BY <1>1, <1>2, ScoutAssumption DEF ScoutTypeOK, Idle, Job
<1>4. entries'[s] = e /\ entries' \in [Src -> Entry \cup {NoEntry}]
  BY <1>1 DEF ScoutTypeOK
\* An evicted entry has no users, and no live memo.
<1>5. \A u \in Src \ {s} :
        \/ entries'[u] = entries[u] /\ (entries[u] # NoEntry => entries[u] # e)
        \/ entries'[u] = NoEntry /\ entries[u] \in Entry /\ refs[entries[u]] = 0 /\ ~live[entries[u]]
  <2> SUFFICES ASSUME NEW u \in Src \ {s}
               PROVE  \/ entries'[u] = entries[u] /\ (entries[u] # NoEntry => entries[u] # e)
                      \/ /\ entries'[u] = NoEntry /\ entries[u] \in Entry
                         /\ refs[entries[u]] = 0 /\ ~live[entries[u]]
    OBVIOUS
  <2>1. entries[u] # NoEntry => entries[u] # e
    <3>1. CASE entries[s] = NoEntry
      BY <3>1, <1>1 DEF InTable
    <3>2. CASE entries[s] # NoEntry
      BY <3>2, <1>1 DEF Table
    <3> QED BY <3>1, <3>2
  <2>2. CASE u \in Evicts(s)
    BY <2>2, <1>1 DEF Evicts, ScoutTypeOK
  <2>3. CASE u \notin Evicts(s)
    BY <2>1, <2>3, <1>1
  <2> QED BY <2>2, <2>3
<1>6. /\ memo' \in [Entry -> Issue \cup {NoIssue}] /\ live' \in [Entry -> BOOLEAN]
      /\ \A d \in Entry \ {e} : memo'[d] = memo[d] /\ live'[d] = live[d]
      /\ entries[s] = NoEntry => ~live'[e]
      /\ entries[s] # NoEntry => e = entries[s] /\ memo'[e] = memo[e] /\ live'[e] = live[e]
  BY <1>1 DEF ScoutTypeOK
<1>7. /\ refs' \in [Entry -> Nat] /\ refs'[e] = refs[e] + 1
      /\ \A d \in Entry \ {e} : refs'[d] = refs[d]
  BY <1>1 DEF ScoutTypeOK
<1>8. \A d \in Entry : IsFiniteSet(Users(d)) /\ (refs[d] = 0 => Users(d) = {})
  <2> SUFFICES ASSUME NEW d \in Entry PROVE IsFiniteSet(Users(d)) /\ (refs[d] = 0 => Users(d) = {})
    OBVIOUS
  <2>1. Users(d) \in SUBSET Press
    BY DEF Users
  <2>2. IsFiniteSet(Users(d))
    BY <2>1, FS_Subset, ScoutAssumption
  <2> QED BY <2>2, FS_EmptySet DEF Table
<1>9. ScoutTypeOK'
  BY <1>2, <1>3, <1>4, <1>6, <1>7 DEF ScoutTypeOK
<1>10. Table'
  <2>1. \A u, v \in Src : entries'[u] = entries'[v] /\ entries'[u] # NoEntry => u = v
    <3>1. \A u \in Src \ {s} : entries'[u] # NoEntry => entries'[u] = entries[u] /\ entries'[u] # e
      BY <1>5
    <3>2. e # NoEntry
      BY ScoutAssumption
    <3> QED BY <3>1, <3>2, <1>4 DEF Table
  <2>2. ASSUME NEW q \in Press, job'[q].step # "idle"
        PROVE  job'[q].src \in Src /\ job'[q].entry \in Entry /\ entries'[job'[q].src] = job'[q].entry
    <3>1. CASE q = p
      BY <3>1, <1>3, <1>4
    <3>2. CASE q # p
      <4>1. /\ job'[q] = job[q] /\ job[q].src \in Src /\ job[q].entry \in Entry
            /\ entries[job[q].src] = job[q].entry /\ job[q].entry # NoEntry
        BY <3>2, <2>2, <1>3, ScoutAssumption DEF Table
      <4>2. CASE job[q].src = s
        BY <4>1, <4>2, <1>4, <1>6
      <4>3. CASE job[q].src # s
        <5>1. q \in Users(job[q].entry)
          BY <3>2, <2>2, <1>3 DEF Users
        <5>2. refs[job[q].entry] # 0
          BY <4>1, <5>1, <1>8
        <5> QED BY <4>1, <4>3, <5>2, <1>5
      <4> QED BY <4>2, <4>3
    <3> QED BY <3>1, <3>2
  <2>3. Users(e)' = Users(e) \cup {p} /\ p \notin Users(e)
    BY <1>2, <1>3 DEF Users, Idle
  <2>4. \A d \in Entry \ {e} : Users(d)' = Users(d)
    BY <1>2, <1>3 DEF Users, Idle
  <2>5. Cardinality(Users(e)') = refs'[e]
    <3>1. IsFiniteSet(Users(e)) /\ refs[e] = Cardinality(Users(e))
      BY <1>8 DEF Table
    <3>2. Cardinality(Users(e) \cup {p}) = Cardinality(Users(e)) + 1
      BY <2>3, <3>1, FS_AddElement
    <3> QED BY <2>3, <3>1, <3>2, <1>7
  <2>6. \A d \in Entry : refs'[d] = Cardinality(Users(d)')
    BY <2>4, <2>5, <1>7 DEF Table
  <2>7. \A q \in Press : job'[q].step \in Critical => holder'[job'[q].entry] = q
    BY <1>2, <1>3 DEF Table, Critical
  <2> QED BY <2>1, <2>2, <2>6, <2>7 DEF Table
<1>11. Memos'
  <2> SUFFICES ASSUME NEW u \in Src, entries'[u] # NoEntry, live'[entries'[u]]
               PROVE  memo'[entries'[u]] \in Issue /\ issue[memo'[entries'[u]]] = u
    BY <1>2 DEF Memos
  <2>1. CASE u = s
    <3>1. entries'[u] = e /\ entries[s] # NoEntry
      BY <2>1, <1>4, <1>6
    <3>2. entries[s] = e /\ live[e] /\ memo'[e] = memo[e]
      BY <3>1, <1>4, <1>6
    <3> QED BY <2>1, <3>1, <3>2 DEF Memos
  <2>2. CASE u # s
    <3>1. entries'[u] = entries[u] /\ entries[u] \in Entry \ {e}
      BY <2>2, <1>5 DEF ScoutTypeOK
    <3>2. live[entries[u]] /\ memo'[entries[u]] = memo[entries[u]]
      BY <3>1, <1>6
    <3> QED BY <3>1, <3>2 DEF Memos
  <2> QED BY <2>1, <2>2
<1>12. Pages'
  <2>1. \A i : Rank(i)' = Rank(i)
    BY <1>2 DEF Rank
  <2> QED BY <2>1, <1>2, <1>3 DEF Pages, Behind, KnownIssueFound
<1>13. Covered' /\ OneIssuePerSource'
  <2>1. ASSUME NEW i \in Issue \ indexed, issue[i] \in Src \ excused
        PROVE  entries'[issue[i]] # NoEntry /\ live'[entries'[issue[i]]] /\ memo'[entries'[issue[i]]] = i
    <3> PICK u \in Src : u = issue[i]
      BY <2>1 DEF ScoutTypeOK
    <3>1. entries[u] # NoEntry /\ live[entries[u]] /\ memo[entries[u]] = i /\ entries[u] \in Entry
      BY <2>1 DEF Covered, ScoutTypeOK
    <3>2. CASE u = s
      BY <3>1, <3>2, <1>4, <1>6
    <3>3. CASE u # s
      <4>1. entries'[u] = entries[u] /\ entries[u] # e
        BY <3>1, <3>3, <1>5
      <4> QED BY <4>1, <3>1, <1>6
    <3> QED BY <3>2, <3>3
  <2> QED BY <2>1, <1>2, <1>3 DEF Covered, OneIssuePerSource
<1> QED BY <1>9, <1>10, <1>11, <1>12, <1>13 DEF ScoutInv

LEMMA StepInv == ScoutInv /\ [ScoutNext]_scoutVars => ScoutInv'
<1> SUFFICES ASSUME ScoutInv, [ScoutNext]_scoutVars PROVE ScoutInv'
  OBVIOUS
<1>1. CASE UNCHANGED scoutVars
  <2>1. UNCHANGED <<entries, refs, holder, memo, live, issue, indexed, excused, job>>
    BY <1>1 DEF scoutVars, memory, gitHub
  <2>2. \A i : Rank(i)' = Rank(i)
    BY <2>1 DEF Rank
  <2>3. Pages'
    BY <2>1, <2>2 DEF ScoutInv, Pages, Behind, KnownIssueFound
  <2>4. \A e : Users(e)' = Users(e)
    BY <2>1 DEF Users
  <2>5. Table'
    BY <2>1, <2>4 DEF ScoutInv, Table
  <2> QED BY <2>1, <2>3, <2>5 DEF ScoutInv, ScoutTypeOK, Memos, Covered, OneIssuePerSource
<1>2. ASSUME NEW p \in Press, NEW s \in Src, EntryFor(p, s) PROVE ScoutInv'
  BY <1>2, EntryForInv
<1>3. ASSUME NEW p \in Press, CreateStep(p) PROVE ScoutInv'
  BY <1>3, LockInv, RepoAccessibleInv, SearchPageInv, CreateIssueInv, UnlockInv, ReleaseInv
     DEF CreateStep
<1>4. ASSUME NEW i \in Issue, Index(i) PROVE ScoutInv'
  BY <1>4, IndexInv
<1>5. ASSUME NEW e \in Entry, Expire(e) PROVE ScoutInv'
  BY <1>5, ExpireInv
<1>6. CASE ByHand
  BY <1>6, ByHandInv
<1>7. CASE Crash
  BY <1>7, CrashInv
<1> QED BY <1>1, <1>2, <1>3, <1>4, <1>5, <1>6, <1>7 DEF ScoutNext

-----------------------------------------------------------------------------
(* The theorems *)

\* The inductive invariant of Service.Create: the table of entries counts its users,
\* live memos name issues of their source, what a search knew lies ahead of it.
THEOREM Invariance == ScoutSpec => []ScoutInv
BY InitInv, StepInv, PTL DEF ScoutSpec

\* The variables of the service keep their types; no entry's refs goes below zero.
THEOREM TypeCorrect == ScoutSpec => []ScoutTypeOK
<1>1. ScoutInv => ScoutTypeOK
  BY DEF ScoutInv
<1> QED BY <1>1, Invariance, PTL

\* Two presses on one source never work at a time: entryFor never hands out a second
\* entry for a source while a press holds the first.
THEOREM SerialPerSource == ScoutSpec => []OnePressPerSource
<1>1. ScoutInv => OnePressPerSource
  BY Exclusion DEF ScoutInv
<1> QED BY <1>1, Invariance, PTL

\* Create opens at most one issue per source, except of a source that somebody else,
\* a lost answer or a restart has excused.
THEOREM OneIssue == ScoutSpec => []OneIssuePerSource
<1>1. ScoutInv => OneIssuePerSource
  BY DEF ScoutInv, OneIssuePerSource
<1> QED BY <1>1, Invariance, PTL

\* findExisting misses no issue that GitHub's search knew when it began, over any number
\* of pages and whatever is added to the index meanwhile.
THEOREM KnownFound == ScoutSpec => []KnownIssueFound
<1>1. ScoutInv => KnownIssueFound
  BY DEF ScoutInv, Pages
<1> QED BY <1>1, Invariance, PTL

\* The issue that a remembered entry answers with has the source of the press.
THEOREM Answered == ScoutSpec => []AnswersItsSource
<1>1. ScoutInv => AnswersItsSource
  BY DEF ScoutInv, Memos, AnswersItsSource
<1> QED BY <1>1, Invariance, PTL

-----------------------------------------------------------------------------
(* The handler around Create *)

everything == <<scoutVars, callbackVars>>

\* Every step of the handlers is one of Service.Create or leaves it alone.
LEMMA CallbackIsScout == Serving /\ [CallbackNext]_everything => [ScoutNext]_scoutVars
<1> SUFFICES ASSUME Serving, [CallbackNext]_everything PROVE [ScoutNext]_scoutVars
  OBVIOUS
<1>1. ASSUME NEW p \in Press, NEW s \in Src, Receive(p, s) PROVE UNCHANGED scoutVars
  BY <1>1 DEF Receive
<1>2. ASSUME NEW p \in Press, Enter(p) PROVE ScoutNext
  BY <1>2 DEF Enter, ScoutNext, Serving, None
<1>3. ASSUME NEW p \in Press, Create(p) PROVE ScoutNext
  BY <1>3 DEF Create, ScoutNext
<1>4. ASSUME NEW p \in Press, Edit(p) PROVE UNCHANGED scoutVars
  BY <1>4 DEF Edit
<1>5. CASE Around \/ Die
  BY <1>5 DEF Around, Die, ScoutNext
<1>6. CASE UNCHANGED everything
  BY <1>6 DEF everything
<1> QED BY <1>1, <1>2, <1>3, <1>4, <1>5, <1>6 DEF CallbackNext

\* Issues are opened and never renamed.
LEMMA IssuesStay ==
    ASSUME ScoutTypeOK, [ScoutNext]_scoutVars, NEW i \in Issue, issue[i] # NoSrc
    PROVE  issue'[i] = issue[i]
<1>1. ASSUME NEW j \in NextIssue, NEW s \in Src, Opened(j, s) PROVE issue'[i] = issue[i]
  BY <1>1 DEF NextIssue, Opened, ScoutTypeOK
<1>2. ASSUME NEW p \in Press, job[p].step = "create", CreateIssue(p) PROVE issue'[i] = issue[i]
  <2>1. CASE UNCHANGED gitHub
    BY <2>1 DEF gitHub
  <2>2. ASSUME NEW j \in NextIssue, Opened(j, job[p].src) PROVE issue'[i] = issue[i]
    BY <2>2 DEF NextIssue, Opened, ScoutTypeOK
  <2> QED BY <1>2, <2>1, <2>2 DEF CreateIssue
<1>3. ASSUME NEW p \in Press, CreateStep(p) PROVE issue'[i] = issue[i]
  <2>1. CASE CreateIssue(p)
    BY <1>2, <2>1 DEF CreateIssue
  <2> QED BY <1>3, <2>1 DEF CreateStep, Lock, RepoAccessible, SearchPage, Found, NotFound, SearchFailed,
                            Unlock, Release, gitHub
<1>4. ASSUME NEW p \in Press, NEW s \in Src, EntryFor(p, s) PROVE issue'[i] = issue[i]
  BY <1>4 DEF EntryFor, gitHub
<1>5. CASE ByHand \/ Crash \/ (\E j \in Issue : Index(j)) \/ \E e \in Entry : Expire(e)
  BY <1>1, <1>5 DEF ByHand, Crash, Index, Expire, gitHub
<1> QED BY <1>3, <1>4, <1>5 DEF ScoutNext, scoutVars, gitHub

\* What a handler holds: the keyboard it was sent and the issue it got.
Honest(of, h) ==
    /\ \A s \in Src : h.msg[s] # NoIssue => of[h.msg[s]] = s
    /\ h.res # NoIssue => h.row \in Src /\ of[h.res] = h.row

\* A handler that was told the truth still is.
LEMMA HonestStay ==
    ASSUME ScoutTypeOK, [ScoutNext]_scoutVars, NEW h \in Handler, Honest(issue, h)
    PROVE  Honest(issue', h)
<1>1. NoSrc \notin Src
  BY ScoutAssumption
<1>2. ASSUME NEW s \in Src, h.msg[s] # NoIssue PROVE issue'[h.msg[s]] = s
  <2>1. h.msg[s] \in Issue /\ issue[h.msg[s]] = s
    BY <1>2 DEF Handler, Keyboard, Honest
  <2> QED BY <1>1, <2>1, IssuesStay
<1>3. ASSUME h.res # NoIssue PROVE h.row \in Src /\ issue'[h.res] = h.row
  <2>1. h.res \in Issue /\ h.row \in Src /\ issue[h.res] = h.row
    BY <1>3 DEF Handler, Honest
  <2> QED BY <1>1, <2>1, IssuesStay
<1> QED BY <1>2, <1>3 DEF Honest

\* A step of Create stays with its source until the call is over.
LEMMA SourceStays ==
    ASSUME ScoutTypeOK, NEW p \in Press, CreateStep(p)
    PROVE  /\ job'[p] = Idle \/ (job'[p].src = job[p].src /\ job'[p].entry = job[p].entry /\ job'[p].step # "idle")
           /\ \A q \in Press \ {p} : job'[q] = job[q]
<1>0. job \in [Press -> Job]
  BY DEF ScoutTypeOK
<1>1. ASSUME NEW step \in Step \ {"idle"}, Goes(p, step)
      PROVE  job'[p].src = job[p].src /\ job'[p].entry = job[p].entry /\ job'[p].step # "idle"
             /\ \A q \in Press \ {p} : job'[q] = job[q]
  BY <1>0, <1>1 DEF Goes, Job
<1>2. CASE Lock(p) \/ CreateIssue(p) \/ Unlock(p)
  BY <1>1, <1>2 DEF Lock, CreateIssue, Unlock, Step, Critical
<1>3. CASE RepoAccessible(p)
  <2>1. CASE Goes(p, "unlock")
    BY <1>1, <2>1 DEF Step, Critical
  <2>2. CASE job' = [job EXCEPT ![p].step = "search", ![p].page = 1, ![p].known = indexed]
    BY <1>0, <2>2 DEF Job
  <2> QED BY <1>3, <2>1, <2>2 DEF RepoAccessible
<1>4. CASE SearchPage(p)
  <2>1. CASE Goes(p, "unlock")
    BY <1>1, <2>1 DEF Step, Critical
  <2>2. ASSUME NEW shown, NEW next \in {"create", "unlock", "search"}, NEW kept,
               job' = [job EXCEPT ![p].step = next,
                                  ![p].page = IF next = "search" THEN @ + 1 ELSE @,
                                  ![p].known = @ \ kept]
        PROVE  job'[p].src = job[p].src /\ job'[p].entry = job[p].entry /\ job'[p].step # "idle"
               /\ \A q \in Press \ {p} : job'[q] = job[q]
    BY <1>0, <2>2 DEF Job
  <2>3. \A shown \in Answers(job[p].page) : NotShown(p, shown) \in {"create", "unlock", "search"}
    <3> SUFFICES ASSUME NEW shown \in Answers(job[p].page)
                 PROVE  NotShown(p, shown) \in {"create", "unlock", "search"}
      OBVIOUS
    <3>1. shown \in SUBSET Issue
      BY <1>0 DEF Answers, OnPage, ScoutTypeOK
    <3>2. Cardinality(shown) \in Nat
      BY <3>1, FiniteIssues, FS_CardinalityType
    <3> QED BY <3>2, ScoutAssumption DEF NotShown
  <2> QED BY <1>4, <2>1, <2>2, <2>3 DEF SearchPage, Found, NotFound, SearchFailed
<1>5. CASE Release(p)
  BY <1>0, <1>5 DEF Release
<1> QED BY <1>2, <1>3, <1>4, <1>5 DEF CreateStep

LEMMA CallbackInitInv == CallbackInit => CallbackInv
<1> SUFFICES ASSUME CallbackInit PROVE CallbackInv
  OBVIOUS
<1>1. ScoutInv
  BY InitInv DEF CallbackInit
<1>2. Serving
  BY DEF CallbackInit, Serving, None
<1>3. CallbackTypeOK
  BY DEF CallbackInit, CallbackTypeOK, Keyboard, Handler, None, Blank
<1>4. LinksTellTheTruth
  BY <1>3 DEF CallbackInit, LinksTellTheTruth, LinksOf, None, Blank
<1> QED BY <1>1, <1>2, <1>4 DEF CallbackInv

\* LinksTellTheTruth, in the terms of the handlers.
LEMMA Told ==
    ASSUME Serving, CallbackTypeOK
    PROVE  LinksTellTheTruth <=>
             /\ \A s \in Src : keyboard[s] # NoIssue => issue[keyboard[s]] = s
             /\ \A p \in Press : Honest(issue, press[p])
<1>1. \A p \in Press : press[p].res # NoIssue => press[p].row \in Src
  BY DEF Serving, None
<1> QED BY <1>1 DEF LinksTellTheTruth, LinksOf, Honest

\* What Create returns is an issue of the press's source.
LEMMA ReturnsItsSource ==
    ASSUME ScoutInv', NEW p \in Press, job'[p].step = "unlock", job'[p].entry = job[p].entry,
           job'[p].src = job[p].src
    PROVE  /\ job[p].src \in Src /\ Returned(p) \in Issue \cup {NoIssue}
           /\ Returned(p) # NoIssue => issue'[Returned(p)] = job[p].src
<1>1. Table' /\ Memos'
  BY DEF ScoutInv
<1>2. job'[p].src \in Src /\ job'[p].entry \in Entry /\ entries'[job'[p].src] = job'[p].entry
  BY <1>1 DEF Table
<1>3. NoEntry \notin Entry
  BY ScoutAssumption
<1>4. live'[job[p].entry] => memo'[job[p].entry] \in Issue /\ issue'[memo'[job[p].entry]] = job[p].src
  BY <1>1, <1>2, <1>3 DEF Memos
<1> QED BY <1>2, <1>4 DEF Returned

\* What the step of one press has to show.
LEMMA OnePress ==
    ASSUME CallbackInv, [ScoutNext]_scoutVars, NEW p \in Press, NEW h \in Handler,
           press' = [press EXCEPT ![p] = h], Honest(issue', h), h # None => h.row \in Src,
           h.at = "create" => job'[p].step # "idle" /\ job'[p].src = h.row,
           \A q \in Press \ {p} : job'[q] = job[q]
    PROVE  /\ Serving' /\ press' \in [Press -> Handler]
           /\ \A q \in Press : Honest(issue', press'[q])
<1>0. press \in [Press -> Handler] /\ ScoutTypeOK /\ CallbackTypeOK
  BY DEF CallbackInv, LinksTellTheTruth, CallbackTypeOK, ScoutInv
<1>1. press' \in [Press -> Handler] /\ press'[p] = h /\ \A q \in Press \ {p} : press'[q] = press[q]
  BY <1>0
<1>2. Serving'
  BY <1>1 DEF CallbackInv, Serving
<1>3. \A q \in Press : Honest(issue, press[q])
  BY <1>0, Told DEF CallbackInv
<1>4. \A q \in Press : Honest(issue', press[q])
  BY <1>0, <1>3, HonestStay
<1> QED BY <1>1, <1>2, <1>4

\* A keyboard, in the terms of the handlers.
LEMMA HonestKeyboard ==
    ASSUME NEW k \in Keyboard, NEW of, \A s \in Src : k[s] # NoIssue => of[k[s]] = s
    PROVE  [None EXCEPT !.msg = k] \in Handler /\ Honest(of, [None EXCEPT !.msg = k])
BY DEF None, Handler, Honest, Blank, Keyboard

LEMMA KeyboardStays ==
    ASSUME ScoutTypeOK, [ScoutNext]_scoutVars, NEW k \in Keyboard, \A s \in Src : k[s] # NoIssue => issue[k[s]] = s
    PROVE  \A s \in Src : k[s] # NoIssue => issue'[k[s]] = s
<1> DEFINE h == [None EXCEPT !.msg = k]
<1>1. h \in Handler /\ Honest(issue, h)
  BY HonestKeyboard
<1>2. h.msg = k
  BY DEF None
<1> HIDE DEF h
<1>3. Honest(issue', h)
  BY <1>1, HonestStay
<1> QED BY <1>2, <1>3 DEF Honest

LEMMA CallbackNextInv == CallbackInv /\ [CallbackNext]_everything => CallbackInv'
<1> SUFFICES ASSUME CallbackInv, [CallbackNext]_everything PROVE CallbackInv'
  OBVIOUS
<1>0. /\ ScoutInv /\ Serving /\ CallbackTypeOK /\ ScoutTypeOK /\ [ScoutNext]_scoutVars
      /\ keyboard \in Keyboard /\ press \in [Press -> Handler] /\ job \in [Press -> Job]
  BY CallbackIsScout DEF CallbackInv, LinksTellTheTruth, CallbackTypeOK, ScoutInv, ScoutTypeOK
<1>1. ScoutInv'
  BY <1>0, StepInv
<1>2. /\ \A s \in Src : keyboard[s] # NoIssue => issue[keyboard[s]] = s
      /\ \A p \in Press : Honest(issue, press[p])
  BY <1>0, Told DEF CallbackInv
<1>3. \A s \in Src : keyboard[s] # NoIssue => issue'[keyboard[s]] = s
  BY <1>0, <1>2, KeyboardStays
<1>4. \A p \in Press : press[p] \in Handler /\ Honest(issue', press[p])
  BY <1>0, <1>2, HonestStay
\* It is enough to look at the handlers and the keyboard.
<1>5. ASSUME Serving', keyboard' \in Keyboard, press' \in [Press -> Handler],
             \A s \in Src : keyboard'[s] # NoIssue => issue'[keyboard'[s]] = s,
             \A p \in Press : Honest(issue', press'[p])
      PROVE  CallbackInv'
  <2>1. CallbackTypeOK'
    BY <1>5 DEF CallbackTypeOK
  <2>2. LinksTellTheTruth'
    BY <1>5, <2>1 DEF LinksTellTheTruth, LinksOf, Honest
  <2> QED BY <1>1, <1>5, <2>2 DEF CallbackInv
<1>6. ASSUME NEW p \in Press, NEW s \in Src, Receive(p, s) PROVE CallbackInv'
  <2>1. PICK msg \in Carried(s) : press' = [press EXCEPT ![p] = [None EXCEPT !.at = "received", !.row = s, !.msg = msg]]
    BY <1>6 DEF Receive
  <2>2. msg \in Keyboard /\ \A u \in Src : msg[u] # NoIssue => issue'[msg[u]] = u
    <3>1. CASE msg = keyboard
      BY <1>0, <1>3, <3>1
    <3>2. ASSUME NEW q \in Press, msg = press[q].msg PROVE msg \in Keyboard /\ \A u \in Src : msg[u] # NoIssue => issue'[msg[u]] = u
      BY <1>4, <3>2 DEF Handler, Honest
    <3> QED BY <2>1, <3>1, <3>2 DEF Carried
  <2> DEFINE h == [None EXCEPT !.at = "received", !.row = s, !.msg = msg]
  <2>3. h \in Handler /\ Honest(issue', h) /\ h.row = s /\ h.at = "received"
    BY <2>2 DEF None, Handler, Honest
  <2>4. press' = [press EXCEPT ![p] = h] /\ UNCHANGED <<job, keyboard>>
    BY <1>6, <2>1 DEF Receive, scoutVars
  <2> HIDE DEF h
  <2>5. Serving' /\ press' \in [Press -> Handler] /\ \A q \in Press : Honest(issue', press'[q])
    BY <1>0, <2>3, <2>4, OnePress
  <2> QED BY <1>0, <1>3, <1>5, <2>4, <2>5
<1>7. ASSUME NEW p \in Press, Enter(p) PROVE CallbackInv'
  <2>1. /\ press[p].at = "received" /\ press' = [press EXCEPT ![p].at = "create"] /\ UNCHANGED keyboard
        /\ EntryFor(p, press[p].row)
    BY <1>7 DEF Enter
  <2>2. PICK e \in Entry : job' = [job EXCEPT ![p] = [Idle EXCEPT !.step = "lock", !.src = press[p].row, !.entry = e]]
    BY <2>1 DEF EntryFor
  <2>3. job'[p].step = "lock" /\ job'[p].src = press[p].row /\ \A q \in Press \ {p} : job'[q] = job[q]
    BY <1>0, <2>2 DEF Idle
  <2> DEFINE h == [press[p] EXCEPT !.at = "create"]
  <2>4. h \in Handler /\ Honest(issue', h) /\ h.row = press[p].row /\ press[p].row \in Src
    BY <1>0, <1>4, <2>1 DEF Handler, Honest, Serving, None
  <2>5. press' = [press EXCEPT ![p] = h]
    BY <1>0, <2>1
  <2> HIDE DEF h
  <2>6. Serving' /\ press' \in [Press -> Handler] /\ \A q \in Press : Honest(issue', press'[q])
    BY <1>0, <2>3, <2>4, <2>5, OnePress
  <2> QED BY <1>0, <1>3, <1>5, <2>1, <2>6
<1>8. ASSUME NEW p \in Press, Create(p) PROVE CallbackInv'
  <2>1. press[p].at = "create" /\ CreateStep(p) /\ UNCHANGED keyboard
    BY <1>8 DEF Create
  <2>2. job[p].step # "idle" /\ job[p].src = press[p].row /\ press[p].row \in Src
    BY <1>0, <2>1 DEF Serving, None
  <2>3. /\ job'[p] = Idle \/ (job'[p].src = job[p].src /\ job'[p].entry = job[p].entry /\ job'[p].step # "idle")
        /\ \A q \in Press \ {p} : job'[q] = job[q]
    BY <1>0, <2>1, SourceStays
  <2>4. PICK h \in Handler : /\ press' = [press EXCEPT ![p] = h] /\ Honest(issue', h)
                             /\ h # None => h.row = press[p].row
                             /\ h.at = "create" => job'[p] # Idle
    <3>1. CASE job[p].step # "unlock" /\ job'[p].step = "unlock"
      <4> DEFINE h == [press[p] EXCEPT !.res = Returned(p)]
      <4>1. job'[p] # Idle
        BY <3>1 DEF Idle
      <4>2. Returned(p) \in Issue \cup {NoIssue} /\ (Returned(p) # NoIssue => issue'[Returned(p)] = press[p].row)
        BY <1>1, <2>2, <2>3, <3>1, <4>1, ReturnsItsSource
      <4>3. h \in Handler /\ Honest(issue', h) /\ h.row = press[p].row
        BY <1>4, <2>2, <4>2 DEF Handler, Honest
      <4>4. press' = [press EXCEPT ![p] = h]
        BY <1>0, <1>8, <3>1 DEF Create
      <4> HIDE DEF h
      <4> QED BY <4>1, <4>3, <4>4
    <3>2. CASE ~(job[p].step # "unlock" /\ job'[p].step = "unlock") /\ job'[p] # Idle
      <4>1. press' = press
        BY <1>8, <3>2 DEF Create
      <4>2. press' = [press EXCEPT ![p] = press[p]]
        BY <1>0, <4>1
      <4> QED BY <1>4, <3>2, <4>2
    <3>3. CASE job'[p] = Idle
      <4>1. job'[p].step # "unlock"
        BY <3>3 DEF Idle
      <4> DEFINE h == [press[p] EXCEPT !.at = "edit"]
      <4>2. press' = [press EXCEPT ![p] = None] \/ press' = [press EXCEPT ![p] = h]
        BY <1>0, <1>8, <3>3, <4>1 DEF Create
      <4>3. h \in Handler /\ Honest(issue', h) /\ h.row = press[p].row /\ h.at = "edit"
        BY <1>4 DEF Handler, Honest
      <4>4. None \in Handler /\ Honest(issue', None) /\ None.at = "none"
        BY DEF None, Handler, Honest, Blank, Keyboard
      <4> HIDE DEF h
      <4> QED BY <4>2, <4>3, <4>4
    <3> QED BY <3>1, <3>2, <3>3
  <2>5. h.at = "create" => job'[p].step # "idle" /\ job'[p].src = h.row
    BY <2>2, <2>3, <2>4 DEF None
  <2>6. Serving' /\ press' \in [Press -> Handler] /\ \A q \in Press : Honest(issue', press'[q])
    BY <1>0, <2>2, <2>3, <2>4, <2>5, OnePress
  <2> QED BY <1>0, <1>3, <1>5, <2>1, <2>6
<1>9. ASSUME NEW p \in Press, Edit(p) PROVE CallbackInv'
  <2>1. /\ press[p].at = "edit" /\ press' = [press EXCEPT ![p] = None] /\ UNCHANGED scoutVars
        /\ keyboard' = Edited(press[p]) \/ UNCHANGED keyboard
    BY <1>9 DEF Edit
  <2>2. job' = job
    BY <2>1 DEF scoutVars
  <2>3. None \in Handler /\ Honest(issue', None) /\ None.at = "none"
    BY DEF None, Handler, Honest, Blank, Keyboard
  <2>4. Serving' /\ press' \in [Press -> Handler] /\ \A q \in Press : Honest(issue', press'[q])
    BY <1>0, <2>1, <2>2, <2>3, OnePress
  <2>5. keyboard' \in Keyboard /\ \A s \in Src : keyboard'[s] # NoIssue => issue'[keyboard'[s]] = s
    <3>1. CASE keyboard' = keyboard
      BY <1>0, <1>3, <3>1
    <3>2. CASE keyboard' = [press[p].msg EXCEPT ![press[p].row] = press[p].res]
      BY <1>4, <3>2 DEF Handler, Keyboard, Honest
    <3> QED BY <2>1, <3>1, <3>2 DEF Edited
  <2> QED BY <1>5, <2>4, <2>5
<1>10. CASE Die
  <2>1. press' = [p \in Press |-> None] /\ UNCHANGED keyboard
    BY <1>10 DEF Die
  <2>2. None \in Handler /\ Honest(issue', None) /\ None.at = "none"
    BY DEF None, Handler, Honest, Blank, Keyboard
  <2>3. Serving' /\ press' \in [Press -> Handler] /\ \A q \in Press : Honest(issue', press'[q])
    BY <2>1, <2>2 DEF Serving
  <2> QED BY <1>0, <1>3, <1>5, <2>1, <2>3
<1>11. CASE Around \/ UNCHANGED everything
  <2>1. UNCHANGED <<job, press, keyboard>>
    BY <1>11 DEF Around, Index, Expire, ByHand, everything, callbackVars, scoutVars
  <2> QED BY <1>0, <1>3, <1>4, <1>5, <2>1 DEF Serving
<1> QED BY <1>6, <1>7, <1>8, <1>9, <1>10, <1>11 DEF CallbackNext

\* The handlers add nothing to what Service.Create does: every behaviour of theirs is
\* one of it, so that what is proved of Create holds for the presses of a message.
THEOREM PressesAreCalls == CallbackSpec => ScoutSpec
<1>1. CallbackInit => CallbackInv /\ ScoutInit
  BY CallbackInitInv DEF CallbackInit
<1>2. CallbackInv /\ [CallbackNext]_everything => CallbackInv'
  BY CallbackNextInv
<1>3. CallbackInv /\ [CallbackNext]_everything => [ScoutNext]_scoutVars
  BY CallbackIsScout DEF CallbackInv
<1> QED BY <1>1, <1>2, <1>3, PTL DEF CallbackSpec, ScoutSpec, everything

\* Every link a message of the scout shows, and every answer to a press, names an issue
\* of its own row, whatever presses overlap and whatever copy of the keyboard an edit
\* writes back.
THEOREM TruthfulLinks == CallbackSpec => []LinksTellTheTruth
<1>1. CallbackInit => CallbackInv
  BY CallbackInitInv
<1>2. CallbackInv /\ [CallbackNext]_everything => CallbackInv'
  BY CallbackNextInv
<1>3. CallbackInv => LinksTellTheTruth
  BY DEF CallbackInv
<1> QED BY <1>1, <1>2, <1>3, PTL DEF CallbackSpec, everything

=============================================================================
