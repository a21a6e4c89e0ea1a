---------------------------- MODULE GitOps_proofs ----------------------------
(***************************************************************************)
(* Proofs about GitOps and Probing: for any number of runs, tags and       *)
(* commits, and whatever names the alerts carry.                           *)
(***************************************************************************)
EXTENDS Probing, TLAPS, WellFoundedInduction

-----------------------------------------------------------------------------
(* Contents *)

LEMMA ContentFields ==
    ASSUME NEW c \in Content
    PROVE  c.tag \in Tag \cup {NoTag} /\ c.memory \in 0..MaxMemory
BY DEF Content

LEMMA TagReplaced ==
    ASSUME NEW c \in Content, NEW t \in Tag \cup {NoTag}
    PROVE  /\ [c EXCEPT !.tag = t] \in Content
           /\ [c EXCEPT !.tag = t].tag = t /\ [c EXCEPT !.tag = t].memory = c.memory
BY DEF Content

LEMMA MemoryReplaced ==
    ASSUME NEW c \in Content, NEW m \in 0..MaxMemory
    PROVE  /\ [c EXCEPT !.memory = m] \in Content
           /\ [c EXCEPT !.memory = m].memory = m /\ [c EXCEPT !.memory = m].tag = c.tag
BY DEF Content

\* A merge takes each value from one of its sides.
LEMMA ThreeWayMerge ==
    ASSUME NEW b \in Content, NEW o \in Content, NEW t \in Content
    PROVE  /\ ThreeWay(b, o, t) \in Content
           /\ \A f \in {"tag", "memory"} : ThreeWay(b, o, t)[f] = IF t[f] = b[f] THEN o[f] ELSE t[f]
<1> DEFINE w == ThreeWay(b, o, t)
<1>1. w = [f \in {"tag", "memory"} |-> IF t[f] = b[f] THEN o[f] ELSE t[f]]
  BY DEF ThreeWay
<1>2. /\ w["tag"] = IF t["tag"] = b["tag"] THEN o["tag"] ELSE t["tag"]
      /\ w["memory"] = IF t["memory"] = b["memory"] THEN o["memory"] ELSE t["memory"]
  BY <1>1
<1>3. w = [tag |-> w.tag, memory |-> w.memory]
  BY <1>1
<1>4. w.tag \in Tag \cup {NoTag} /\ w.memory \in 0..MaxMemory
  BY <1>2, ContentFields
<1> HIDE DEF w
<1>5. w \in Content
  BY <1>3, <1>4 DEF Content
<1> QED BY <1>1, <1>5 DEF w

-----------------------------------------------------------------------------
(* The history of the file *)

\* Commits are added, never changed or taken back.
Grows ==
    /\ main' \in Seq(Content) /\ Len(main) <= Len(main') /\ Len(main') <= MaxCommits
    /\ \A k \in 1..Len(main) : main'[k] = main[k]

LEMMA CurrentIsContent ==
    ASSUME GitOpsTypeOK
    PROVE  /\ Len(main) \in 1..MaxCommits /\ Current \in Content
           /\ \A k \in 1..Len(main) : main[k] \in Content
BY GitOpsAssumption DEF GitOpsTypeOK, Current

LEMMA UnchangedGrows ==
    ASSUME GitOpsTypeOK, main' = main
    PROVE  Grows
BY CurrentIsContent, GitOpsAssumption DEF Grows, GitOpsTypeOK

LEMMA CommitGrows ==
    ASSUME GitOpsTypeOK, NEW c \in Content, Commit(c)
    PROVE  Grows /\ Current' = c
<1>1. CASE c = Current
  BY <1>1, UnchangedGrows DEF Commit, Current
<1>2. CASE c # Current
  <2>1. main' = Append(main, c) /\ Len(main) < MaxCommits
    BY <1>2 DEF Commit
  <2>2. main' \in Seq(Content) /\ Len(main') = Len(main) + 1
    BY <2>1 DEF GitOpsTypeOK
  <2>3. main'[Len(main')] = c /\ \A k \in 1..Len(main) : main'[k] = main[k]
    BY <2>1, <2>2, CurrentIsContent DEF GitOpsTypeOK
  <2> QED BY <2>1, <2>2, <2>3, CurrentIsContent, GitOpsAssumption DEF Grows, Current
<1> QED BY <1>1, <1>2

LEMMA NatOrder ==
    \E R : IsWellFoundedOn(R, Nat) /\ \A x, y \in Nat : y < x => <<y, x>> \in R
<1>1. \A x, y \in Nat : y < x => <<y, x>> \in OpToRel(<, Nat)
  BY Zenon DEF OpToRel
<1> QED BY <1>1, NatLessThanWellFounded, Zenon

\* A walk down the listed commits that finds one finds the latest.
LEMMA LatestIsLatest ==
    ASSUME NEW n \in Nat, NEW K \in SUBSET (1..n), K # {}
    PROVE  Latest(K) \in K /\ \A j \in K : j <= Latest(K)
<1> DEFINE T == {n - k : k \in K}
<1>1. T \subseteq Nat /\ T # {}
  <2>1. ASSUME NEW k \in K PROVE n - k \in Nat
    OBVIOUS
  <2>2. PICK k \in K : TRUE
    OBVIOUS
  <2>3. n - k \in T
    BY <2>2
  <2> QED BY <2>1, <2>3
<1>2. PICK R : IsWellFoundedOn(R, Nat) /\ \A x, y \in Nat : y < x => <<y, x>> \in R
  BY NatOrder
<1> HIDE DEF T
<1>3. PICK x \in T : \A y \in T : ~ (<<y, x>> \in R)
  BY <1>1, <1>2, WFMin
<1>4. x \in Nat /\ \A y \in T : y \in Nat /\ ~(y < x)
  BY <1>1, <1>2, <1>3
<1>5. PICK k \in K : x = n - k
  BY <1>3 DEF T
<1>6. \A j \in K : ~(n - j < n - k)
  BY <1>4, <1>5 DEF T
<1>7. \A j \in K : j <= k
  BY <1>6
<1> QED BY <1>7 DEF Latest

-----------------------------------------------------------------------------
(* What the history's growth leaves true of a run and of a pull request *)

LEMMA RunKept ==
    ASSUME GitOpsInv, Grows, NEW r \in Run, run'[r] = run[r]
    PROVE  (ReadIsKept(r) /\ NewerIsFixed(r) /\ BranchIsLater(r) /\ NewerIsListed(r))'
<1>1. ReadIsKept(r) /\ NewerIsFixed(r) /\ BranchIsLater(r) /\ NewerIsListed(r) /\ GitOpsTypeOK
  BY DEF GitOpsInv
<1>2. Len(main) \in Nat /\ Len(main') \in Nat /\ run[r] \in RunState
  BY <1>1, CurrentIsContent, GitOpsAssumption DEF Grows, GitOpsTypeOK
<1>3. ReadIsKept(r)'
  BY <1>1, <1>2 DEF ReadIsKept, Grows
<1>4. NewerIsFixed(r)'
  BY <1>1 DEF NewerIsFixed, OnlyFixes
<1>5. BranchIsLater(r)'
  <2>1. run[r].readAt \in Int
    BY <1>2 DEF RunState
  <2> QED BY <1>1, <1>2, <2>1 DEF BranchIsLater, Grows
<1>6. NewerIsListed(r)'
  <2> DEFINE n == run[r].listedAt
             tag == run[r].content.tag
  <2>1. SUFFICES ASSUME RollingBack(r)' PROVE NewerIsListed(r)'
    BY DEF NewerIsListed
  <2>2. RollingBack(r)
    BY <2>1 DEF RollingBack
  <2>3. n \in 1..Len(main) /\ n \in 1..Len(main')
    BY <1>1, <1>2, <2>2 DEF NewerIsListed, Grows
  <2>4. \A k \in 1..n : main'[k] = main[k]
    BY <2>3, <1>2 DEF Grows
  <2>5. {k \in 1..n : k > n - LookupCap /\ main'[k].tag \notin {NoTag, tag}}
          = {k \in 1..n : k > n - LookupCap /\ main[k].tag \notin {NoTag, tag}}
    BY <2>4
  <2>6. PICK k \in TagsBefore(n, tag) :
          run[r].newer.tag = main[k].tag /\ \A j \in TagsBefore(n, tag) : j <= k
    BY <1>1, <2>2 DEF NewerIsListed
  <2>7. main'[k].tag = main[k].tag
    BY <2>4, <2>6 DEF TagsBefore
  <2> QED BY <2>3, <2>5, <2>6, <2>7 DEF NewerIsListed, TagsBefore
<1> QED BY <1>3, <1>4, <1>5, <1>6

LEMMA PullKept ==
    ASSUME GitOpsInv, Grows, NEW r \in Run, pull'[r] = pull[r]
    PROVE  PullIsFix(r)'
<1>1. PullIsFix(r) /\ GitOpsTypeOK
  BY DEF GitOpsInv
<1>2. Len(main) \in Nat /\ Len(main') \in Nat /\ pull[r].readAt \in Int
  BY <1>1, CurrentIsContent, GitOpsAssumption DEF Grows, GitOpsTypeOK, Pull
<1>3. SUFFICES ASSUME pull[r].state = "open" PROVE PullIsFix(r)'
  BY DEF PullIsFix
<1>4. pull[r].readAt \in 1..Len(main) /\ pull[r].base \in pull[r].readAt..Len(main)
  BY <1>1, <1>3 DEF PullIsFix
<1>5. main'[pull[r].readAt] = main[pull[r].readAt]
  BY <1>4 DEF Grows
<1>6. OnlyFixes(pull[r].fix, main[pull[r].readAt], pull[r].content)
  BY <1>1, <1>3 DEF PullIsFix
<1>7. pull[r].readAt \in 1..Len(main') /\ pull[r].base \in pull[r].readAt..Len(main')
  BY <1>2, <1>4 DEF Grows
<1> QED BY <1>5, <1>6, <1>7 DEF PullIsFix, OnlyFixes

-----------------------------------------------------------------------------
(* The steps of a run *)

RunInv(r) == ReadIsKept(r) /\ NewerIsFixed(r) /\ BranchIsLater(r) /\ NewerIsListed(r)

\* A step of r leaves the invariant true if it leaves true what is said of r.
LEMMA StepOf ==
    ASSUME GitOpsInv, NEW r \in Run, NEW x \in RunState, Grows,
           run' = [run EXCEPT ![r] = x], RunInv(r)',
           pull' \in [Run -> Pull], PullIsFix(r)', \A q \in Run \ {r} : pull'[q] = pull[q]
    PROVE  GitOpsInv'
<1>1. run \in [Run -> RunState] /\ Len(main) \in 1..MaxCommits
  BY CurrentIsContent DEF GitOpsInv, GitOpsTypeOK
<1>2. GitOpsTypeOK'
  BY <1>1, GitOpsAssumption DEF GitOpsTypeOK, Grows
<1>3. ASSUME NEW q \in Run PROVE RunInv(q)' /\ PullIsFix(q)'
  <2>1. CASE q = r
    BY <2>1
  <2>2. CASE q # r
    <3>1. run'[q] = run[q] /\ pull'[q] = pull[q]
      BY <1>1, <2>2
    <3> QED BY <3>1, RunKept, PullKept DEF RunInv
  <2> QED BY <2>1, <2>2
<1> QED BY <1>2, <1>3 DEF GitOpsInv, RunInv

LEMMA IdleIsSound ==
    ASSUME NEW r \in Run, run'[r] = Idle
    PROVE  RunInv(r)'
BY DEF RunInv, ReadIsKept, NewerIsFixed, BranchIsLater, NewerIsListed, RollingBack, Idle

LEMMA IdleIsState == Idle \in RunState
<1>1. Empty \in Content
  BY GitOpsAssumption DEF Empty, Content
<1> QED BY <1>1, GitOpsAssumption DEF Idle, RunState, FixType

\* A step that is the end of r's run.
LEMMA RunEnds ==
    ASSUME GitOpsInv, NEW r \in Run, run' = [run EXCEPT ![r] = Idle], UNCHANGED <<main, pull>>
    PROVE  GitOpsInv'
<1>1. GitOpsTypeOK /\ PullIsFix(r)
  BY DEF GitOpsInv
<1>2. Grows /\ run'[r] = Idle
  BY <1>1, UnchangedGrows DEF GitOpsTypeOK
<1>3. PullIsFix(r)' /\ pull' \in [Run -> Pull]
  BY <1>1, <1>2, PullKept DEF GitOpsTypeOK
<1> QED BY <1>2, <1>3, IdleIsState, IdleIsSound, StepOf

\* A step that leaves the file and the pull requests alone.
LEMMA RunSteps ==
    ASSUME GitOpsInv, NEW r \in Run, NEW x \in RunState, run' = [run EXCEPT ![r] = x],
           UNCHANGED <<main, pull>>, RunInv(r)'
    PROVE  GitOpsInv'
<1>1. GitOpsTypeOK /\ PullIsFix(r)
  BY DEF GitOpsInv
<1>2. Grows
  BY <1>1, UnchangedGrows
<1>3. PullIsFix(r)' /\ pull' \in [Run -> Pull]
  BY <1>1, <1>2, PullKept DEF GitOpsTypeOK
<1> QED BY <1>2, <1>3, StepOf

LEMMA Read ==
    ASSUME NEW s \in RunState, NEW fix \in FixType, NEW content \in Content, NEW newer \in Content,
           NEW n \in 0..MaxCommits, NEW step \in {"ref", "lookup"}
    PROVE  [s EXCEPT !.fix = fix, !.content = content, !.readAt = n, !.step = step,
                     !.newer = newer] \in RunState
BY DEF RunState

LEMMA ReadFileSafe ==
    ASSUME GitOpsInv, NEW r \in Run, ReadFile(r)
    PROVE  GitOpsInv'
<1>1. GitOpsTypeOK /\ Current \in Content /\ Len(main) \in 1..MaxCommits
  BY CurrentIsContent DEF GitOpsInv
<1>2. PICK fix \in FixType :
        /\ fix = "bump_memory" => Current.memory < MaxMemory
        /\ run' = [run EXCEPT ![r] =
             [Idle EXCEPT !.fix = fix, !.content = Current, !.readAt = Len(main),
                          !.step = IF fix = "bump_memory" THEN "ref" ELSE "lookup",
                          !.newer = IF fix = "bump_memory" THEN MemoryBump(Current) ELSE Empty]]
  BY DEF ReadFile
<1> DEFINE newer == IF fix = "bump_memory" THEN MemoryBump(Current) ELSE Empty
           x == [Idle EXCEPT !.fix = fix, !.content = Current, !.readAt = Len(main),
                             !.step = IF fix = "bump_memory" THEN "ref" ELSE "lookup",
                             !.newer = newer]
<1>3. Empty \in Content
  BY GitOpsAssumption DEF Empty, Content
<1>4. fix = "bump_memory" =>
        MemoryBump(Current) \in Content /\ MemoryBump(Current).tag = Current.tag
  <2>1. SUFFICES ASSUME fix = "bump_memory"
                 PROVE  MemoryBump(Current) \in Content /\ MemoryBump(Current).tag = Current.tag
    OBVIOUS
  <2>2. Current.memory + 1 \in 0..MaxMemory
    BY <1>1, <1>2, <2>1, ContentFields, GitOpsAssumption
  <2>3. MemoryBump(Current) = [Current EXCEPT !.memory = Current.memory + 1]
    BY DEF MemoryBump
  <2> QED BY <1>1, <2>2, <2>3, MemoryReplaced
<1>5. newer \in Content
  BY <1>3, <1>4
<1>6. /\ x.fix = fix /\ x.content = Current /\ x.readAt = Len(main) /\ x.newer = newer
      /\ x.step = IF fix = "bump_memory" THEN "ref" ELSE "lookup"
  BY DEF Idle
<1>7. x \in RunState
  <2>1. Len(main) \in 0..MaxCommits /\ 0 \in 0..MaxCommits
    BY <1>1, GitOpsAssumption
  <2>2. (IF fix = "bump_memory" THEN "ref" ELSE "lookup") \in {"ref", "lookup"}
    OBVIOUS
  <2> HIDE DEF newer
  <2> QED BY <1>1, <1>2, <1>5, <2>1, <2>2, IdleIsState, Read
<1>8. run' = [run EXCEPT ![r] = x] /\ UNCHANGED <<main, pull>>
  BY <1>2 DEF ReadFile
<1>9. run'[r] = x
  BY <1>1, <1>8 DEF GitOpsTypeOK
<1> HIDE DEF x
<1>10. RunInv(r)'
  <2>1. ReadIsKept(r)'
    BY <1>1, <1>6, <1>8, <1>9, GitOpsAssumption DEF ReadIsKept, Current
  <2>2. NewerIsFixed(r)'
    BY <1>2, <1>4, <1>6, <1>9 DEF NewerIsFixed, OnlyFixes, FieldOf, FixType
  <2>3. BranchIsLater(r)' /\ NewerIsListed(r)'
    BY <1>2, <1>6, <1>9 DEF BranchIsLater, NewerIsListed, RollingBack, FixType
  <2> QED BY <2>1, <2>2, <2>3 DEF RunInv
<1> QED BY <1>7, <1>8, <1>10, RunSteps

\* What LookUp leaves.
LooksUp(s, n, newer, x) ==
    /\ x \in RunState
    /\ x.step = "ref" /\ x.listedAt = n /\ x.newer = newer
    /\ x.fix = s.fix /\ x.content = s.content /\ x.readAt = s.readAt

LEMMA LookedUp ==
    ASSUME NEW s \in RunState, NEW n \in 0..MaxCommits, NEW newer \in Content
    PROVE  LooksUp(s, n, newer, [s EXCEPT !.step = "ref", !.listedAt = n, !.newer = newer])
BY DEF RunState, LooksUp

LEMMA LookUpSafe ==
    ASSUME GitOpsInv, NEW r \in Run, LookUp(r)
    PROVE  GitOpsInv'
<1> DEFINE tag == run[r].content.tag
           found == Distinct(tag)
<1>1. GitOpsTypeOK /\ Len(main) \in 1..MaxCommits /\ run[r] \in RunState /\ ReadIsKept(r)
  BY CurrentIsContent DEF GitOpsInv, GitOpsTypeOK
<1>2. CASE found = {} \/ tag = NoTag
  <2>1. GivesUp(r)
    BY <1>2 DEF LookUp
  <2> QED BY <2>1, RunEnds DEF GivesUp
<1>3. CASE ~(found = {} \/ tag = NoTag)
  <2> DEFINE newer == [run[r].content EXCEPT !.tag = main[Latest(found)].tag]
             x == [run[r] EXCEPT !.step = "ref", !.listedAt = Len(main), !.newer = newer]
  <2>1. run' = [run EXCEPT ![r] = x] /\ UNCHANGED <<main, pull>> /\ run[r].step = "lookup"
    <3>1. run' = [run EXCEPT ![r].step = "ref", ![r].listedAt = Len(main), ![r].newer = newer]
      BY <1>3 DEF LookUp
    <3> HIDE DEF newer
    <3>2. run' = [run EXCEPT ![r] = [run[r] EXCEPT !.step = "ref", !.listedAt = Len(main),
                                                   !.newer = newer]]
      BY <1>1, <3>1 DEF GitOpsTypeOK
    <3> QED BY <1>3, <3>2 DEF LookUp
  <2>2. found = TagsBefore(Len(main), tag)
    BY <1>1, GitOpsAssumption DEF Distinct, Listed, TagsBefore
  <2>3. Latest(found) \in found /\ \A j \in found : j <= Latest(found)
    <3>1. found \in SUBSET (1..Len(main)) /\ found # {}
      BY <1>3 DEF Distinct, Listed
    <3>2. Len(main) \in Nat
      BY <1>1, GitOpsAssumption
    <3> HIDE DEF found
    <3> QED BY <3>1, <3>2, LatestIsLatest
  <2>4. Latest(found) \in 1..Len(main)
    BY <2>3 DEF Distinct, Listed
  <2>5. main[Latest(found)].tag \in Tag \cup {NoTag} /\ run[r].content \in Content
    BY <1>1, <2>4, CurrentIsContent, ContentFields DEF RunState
  <2> HIDE DEF found
  <2>6. newer \in Content /\ newer.tag = main[Latest(found)].tag /\ newer.memory = run[r].content.memory
    BY <2>5, TagReplaced
  <2> HIDE DEF newer
  <2>7. /\ x \in RunState
        /\ x.step = "ref" /\ x.listedAt = Len(main) /\ x.newer = newer
        /\ x.fix = run[r].fix /\ x.content = run[r].content /\ x.readAt = run[r].readAt
    <3>1. Len(main) \in 0..MaxCommits
      BY <1>1, GitOpsAssumption
    <3>2. LooksUp(run[r], Len(main), newer, x)
      BY <1>1, <2>6, <3>1, LookedUp
    <3> QED BY <3>2 DEF LooksUp
  <2>8. run'[r] = x
    BY <1>1, <2>1 DEF GitOpsTypeOK
  <2> HIDE DEF x
  <2>9. run[r].fix = "rollback_image"
    BY <2>1 DEF GitOpsInv, NewerIsFixed
  <2>10. RunInv(r)'
    <3>1. ReadIsKept(r)' /\ BranchIsLater(r)'
      BY <1>1, <2>1, <2>7, <2>8 DEF ReadIsKept, BranchIsLater
    <3>2. NewerIsFixed(r)'
      BY <2>6, <2>7, <2>8, <2>9 DEF NewerIsFixed, OnlyFixes, FieldOf
    <3>3. NewerIsListed(r)'
      <4>1. {k \in 1..Len(main) : k > Len(main) - LookupCap /\ main'[k].tag \notin {NoTag, tag}} = found
        BY <2>1, <2>2 DEF TagsBefore
      <4>2. main'[Latest(found)] = main[Latest(found)] /\ Len(main') = Len(main)
        BY <2>1
      <4>3. run'[r].newer.tag = main'[Latest(found)].tag /\ run'[r].content.tag = tag
        BY <2>6, <2>7, <2>8, <4>2
      <4>4. run'[r].listedAt = Len(main) /\ Len(main) \in 1..Len(main')
        BY <1>1, <2>7, <2>8, <4>2, GitOpsAssumption
      <4>5. {k \in 1..run'[r].listedAt : /\ k > run'[r].listedAt - LookupCap
                                         /\ main'[k].tag \notin {NoTag, run'[r].content.tag}} = found
        BY <4>1, <4>3, <4>4
      <4> HIDE DEF tag
      <4> QED BY <2>3, <4>3, <4>4, <4>5 DEF NewerIsListed, TagsBefore
    <3> QED BY <3>1, <3>2, <3>3 DEF RunInv
  <2> QED BY <2>1, <2>7, <2>10, RunSteps
<1> QED BY <1>2, <1>3

Creating == {"ref", "sha", "update", "create"}

\* x remembers of the file what s does.
Remembers(s, x) ==
    /\ x \in RunState
    /\ x.fix = s.fix /\ x.content = s.content /\ x.newer = s.newer
    /\ x.readAt = s.readAt /\ x.listedAt = s.listedAt

LEMMA Remembering ==
    ASSUME GitOpsInv, NEW r \in Run, run[r].step \in Creating, NEW x, Remembers(run[r], x),
           x.step \in Creating \cup {"merge"},
           x.step \in {"sha", "update", "create"} => x.base \in run[r].readAt..Len(main),
           run' = [run EXCEPT ![r] = x], main' = main
    PROVE  x \in RunState /\ RunInv(r)'
<1>1. run'[r] = x /\ RunInv(r) /\ main' = main
  BY DEF GitOpsInv, GitOpsTypeOK, RunInv
<1>2. ReadIsKept(r)' /\ NewerIsFixed(r)'
  BY <1>1 DEF Remembers, Creating, RunInv, ReadIsKept, NewerIsFixed, OnlyFixes
<1>3. BranchIsLater(r)'
  BY <1>1 DEF Remembers, BranchIsLater
<1>4. NewerIsListed(r)'
  <2>1. SUFFICES ASSUME RollingBack(r)' PROVE NewerIsListed(r)'
    BY DEF NewerIsListed
  <2>2. RollingBack(r)
    BY <1>1, <2>1 DEF RollingBack, Remembers, Creating
  <2>3. /\ run'[r].listedAt = run[r].listedAt /\ run'[r].content.tag = run[r].content.tag
        /\ run'[r].newer.tag = run[r].newer.tag
    BY <1>1 DEF Remembers
  <2> QED BY <1>1, <2>2, <2>3 DEF RunInv, NewerIsListed, TagsBefore
<1> QED BY <1>2, <1>3, <1>4 DEF RunInv, Remembers

LEMMA BranchSafe ==
    ASSUME GitOpsInv, NEW r \in Run, Branch(r)
    PROVE  GitOpsInv'
<1>1. /\ GitOpsTypeOK /\ Len(main) \in 1..MaxCommits /\ run[r] \in RunState /\ ReadIsKept(r)
      /\ Len(main) \in 0..MaxCommits
  BY CurrentIsContent, GitOpsAssumption DEF GitOpsInv, GitOpsTypeOK
<1> DEFINE x == [run[r] EXCEPT !.step = "sha", !.base = Len(main)]
<1>2. run' = [run EXCEPT ![r] = x] /\ UNCHANGED <<main, pull>>
  BY DEF Branch
<1>3. Remembers(run[r], x) /\ x.step = "sha" /\ x.base = Len(main)
  BY <1>1 DEF RunState, Remembers
<1> HIDE DEF x
<1>4. x.base \in run[r].readAt..Len(main)
  BY <1>1, <1>3 DEF ReadIsKept, Branch
<1>5. x \in RunState /\ RunInv(r)'
  BY <1>2, <1>3, <1>4, Remembering DEF Branch, Creating
<1> QED BY <1>2, <1>5, RunSteps

LEMMA GetSHASafe ==
    ASSUME GitOpsInv, NEW r \in Run, GetSHA(r)
    PROVE  GitOpsInv'
<1>1. GitOpsTypeOK /\ Current \in Content /\ run[r] \in RunState /\ BranchIsLater(r)
  BY CurrentIsContent DEF GitOpsInv, GitOpsTypeOK
<1> DEFINE x == [run[r] EXCEPT !.step = "update", !.blob = Current]
<1>2. run' = [run EXCEPT ![r] = x] /\ UNCHANGED <<main, pull>>
  BY DEF GetSHA
<1>3. Remembers(run[r], x) /\ x.step = "update" /\ x.base = run[r].base
  BY <1>1 DEF RunState, Remembers
<1> HIDE DEF x
<1>4. x.base \in run[r].readAt..Len(main)
  BY <1>1, <1>3 DEF BranchIsLater, GetSHA
<1>5. x \in RunState /\ RunInv(r)'
  BY <1>2, <1>3, <1>4, Remembering DEF GetSHA, Creating
<1> QED BY <1>2, <1>5, RunSteps

LEMMA UpdateFileSafe ==
    ASSUME GitOpsInv, NEW r \in Run, UpdateFile(r)
    PROVE  GitOpsInv'
<1>1. GitOpsTypeOK /\ run[r] \in RunState /\ BranchIsLater(r)
  BY DEF GitOpsInv, GitOpsTypeOK
<1> DEFINE x == [run[r] EXCEPT !.step = "create"]
<1>2. CASE GivesUp(r)
  BY <1>2, RunEnds DEF GivesUp
<1>3. CASE run' = [run EXCEPT ![r] = x] /\ UNCHANGED <<main, pull>>
  <2>1. Remembers(run[r], x) /\ x.step = "create" /\ x.base = run[r].base
    BY <1>1 DEF RunState, Remembers
  <2> HIDE DEF x
  <2>2. x.base \in run[r].readAt..Len(main)
    BY <1>1, <2>1 DEF BranchIsLater, UpdateFile
  <2>3. x \in RunState /\ RunInv(r)'
    BY <1>3, <2>1, <2>2, Remembering DEF UpdateFile, Creating
  <2> QED BY <1>3, <2>3, RunSteps
<1> QED BY <1>2, <1>3 DEF UpdateFile

LEMMA CreateSafe ==
    ASSUME GitOpsInv, NEW r \in Run, Create(r)
    PROVE  GitOpsInv'
<1>1. /\ GitOpsTypeOK /\ run[r] \in RunState
      /\ ReadIsKept(r) /\ NewerIsFixed(r) /\ BranchIsLater(r) /\ run[r].step = "create"
  BY DEF GitOpsInv, GitOpsTypeOK, Create
<1> DEFINE p == [state |-> "open", fix |-> run[r].fix, content |-> run[r].newer,
                 base |-> run[r].base, readAt |-> run[r].readAt]
           merging == AutoMerge /\ AutoMergeSafe(run[r].fix)
           x == IF merging THEN [run[r] EXCEPT !.step = "merge"] ELSE Idle
<1>2. run' = [run EXCEPT ![r] = x] /\ main' = main /\ pull' = [pull EXCEPT ![r] = p]
  BY DEF Create
<1>3. Grows
  BY <1>1, <1>2, UnchangedGrows
<1>4. p \in Pull
  BY <1>1 DEF RunState, Pull
<1>5. p.readAt = run[r].readAt /\ p.base = run[r].base /\ p.content = run[r].newer /\ p.fix = run[r].fix
  OBVIOUS
<1> HIDE DEF p
<1>6. pull' \in [Run -> Pull] /\ pull'[r] = p /\ \A q \in Run \ {r} : pull'[q] = pull[q]
  BY <1>1, <1>2, <1>4 DEF GitOpsTypeOK
<1>7. PullIsFix(r)'
  BY <1>1, <1>2, <1>5, <1>6 DEF PullIsFix, ReadIsKept, NewerIsFixed, BranchIsLater, OnlyFixes
<1>8. x \in RunState /\ RunInv(r)'
  <2>1. CASE merging
    <3>1. Remembers(run[r], x) /\ x.step = "merge"
      BY <1>1, <2>1 DEF RunState, Remembers
    <3> HIDE DEF x
    <3> QED BY <1>1, <1>2, <3>1, Remembering DEF Creating
  <2>2. CASE ~merging
    <3>1. run'[r] = Idle /\ x = Idle
      BY <1>1, <1>2, <2>2 DEF GitOpsTypeOK
    <3> QED BY <3>1, IdleIsState, IdleIsSound
  <2> QED BY <2>1, <2>2
<1> HIDE DEF x
<1> QED BY <1>2, <1>3, <1>6, <1>7, <1>8, StepOf

-----------------------------------------------------------------------------
(* GitHub and people *)

Merge(r) == ThreeWay(main[pull[r].base], Current, pull[r].content)

LEMMA NoPullIsPull == NoPull \in Pull
<1>1. Empty \in Content
  BY GitOpsAssumption DEF Empty, Content
<1> QED BY <1>1, GitOpsAssumption DEF NoPull, Pull, FixType

LEMMA PullCloses ==
    ASSUME GitOpsInv, NEW r \in Run, pull' = [pull EXCEPT ![r] = NoPull]
    PROVE  /\ pull' \in [Run -> Pull] /\ PullIsFix(r)'
           /\ \A q \in Run \ {r} : pull'[q] = pull[q]
<1>1. pull' \in [Run -> Pull] /\ pull'[r] = NoPull /\ \A q \in Run \ {r} : pull'[q] = pull[q]
  BY NoPullIsPull DEF GitOpsInv, GitOpsTypeOK
<1> QED BY <1>1 DEF PullIsFix, NoPull

\* What an open pull request names is in the history, and its merge is a content.
LEMMA MergeOf ==
    ASSUME GitOpsInv, NEW r \in Run, pull[r].state = "open"
    PROVE  /\ pull[r].readAt \in 1..Len(main) /\ pull[r].base \in 1..Len(main)
           /\ pull[r].base \in pull[r].readAt..pull[r].base
           /\ main[pull[r].base] \in Content /\ pull[r].content \in Content
           /\ Merge(r) \in Content
<1>1. GitOpsTypeOK /\ PullIsFix(r) /\ pull[r] \in Pull
  BY DEF GitOpsInv, GitOpsTypeOK
<1>2. pull[r].readAt \in 1..Len(main) /\ pull[r].base \in pull[r].readAt..Len(main)
  BY <1>1 DEF PullIsFix
<1>3. pull[r].base \in 1..Len(main) /\ pull[r].base \in pull[r].readAt..pull[r].base
  BY <1>2
<1>4. main[pull[r].base] \in Content /\ pull[r].content \in Content /\ Current \in Content
  BY <1>1, <1>3, CurrentIsContent DEF Pull
<1> QED BY <1>2, <1>3, <1>4, ThreeWayMerge DEF Merge

LEMMA Merging ==
    ASSUME GitOpsInv, NEW r \in Run, MergePR(r)
    PROVE  /\ pull[r].state = "open" /\ Grows /\ Current' = Merge(r)
           /\ pull' \in [Run -> Pull] /\ PullIsFix(r)'
           /\ \A q \in Run \ {r} : pull'[q] = pull[q]
<1>1. /\ pull[r].state = "open" /\ Commit(Merge(r)) /\ pull' = [pull EXCEPT ![r] = NoPull]
      /\ GitOpsTypeOK
  BY DEF MergePR, Merge, GitOpsInv
<1>2. Merge(r) \in Content
  BY <1>1, MergeOf
<1> QED BY <1>1, <1>2, CommitGrows, PullCloses

LEMMA AutoMergesSafe ==
    ASSUME GitOpsInv, NEW r \in Run, AutoMerges(r)
    PROVE  GitOpsInv'
<1>1. GitOpsTypeOK /\ run' = [run EXCEPT ![r] = Idle]
  BY DEF GitOpsInv, AutoMerges
<1>2. CASE MergePR(r)
  <2>1. run'[r] = Idle
    BY <1>1 DEF GitOpsTypeOK
  <2> QED BY <1>1, <1>2, <2>1, Merging, IdleIsState, IdleIsSound, StepOf
<1>3. CASE UNCHANGED <<main, pull>>
  BY <1>1, <1>3, RunEnds
<1> QED BY <1>2, <1>3 DEF AutoMerges

\* A step that leaves the runs alone.
LEMMA RunsKept ==
    ASSUME GitOpsInv, Grows, run' = run, pull' \in [Run -> Pull],
           \A r \in Run : PullIsFix(r)'
    PROVE  GitOpsInv'
<1>1. GitOpsTypeOK /\ Len(main) \in 1..MaxCommits
  BY CurrentIsContent DEF GitOpsInv
<1>2. GitOpsTypeOK'
  BY <1>1, GitOpsAssumption DEF GitOpsTypeOK, Grows
<1>3. ASSUME NEW r \in Run PROVE RunInv(r)'
  BY RunKept DEF RunInv
<1> QED BY <1>2, <1>3 DEF GitOpsInv, RunInv

LEMMA ReviewSafe ==
    ASSUME GitOpsInv, NEW r \in Run, Review(r)
    PROVE  GitOpsInv'
<1>1. /\ Grows /\ pull' \in [Run -> Pull] /\ PullIsFix(r)'
      /\ \A q \in Run \ {r} : pull'[q] = pull[q]
  <2>1. CASE MergePR(r)
    BY <2>1, Merging
  <2>2. CASE pull' = [pull EXCEPT ![r] = NoPull] /\ main' = main
    <3>1. Grows
      BY <2>2, UnchangedGrows DEF GitOpsInv
    <3> QED BY <2>2, <3>1, PullCloses
  <2> QED BY <2>1, <2>2 DEF Review
<1>2. \A q \in Run : PullIsFix(q)'
  BY <1>1, PullKept
<1> QED BY <1>1, <1>2, RunsKept DEF Review

LEMMA PushSafe ==
    ASSUME GitOpsInv, NEW c \in Content, Commit(c), UNCHANGED <<run, pull>>
    PROVE  GitOpsInv'
<1>1. Grows /\ pull' \in [Run -> Pull]
  BY CommitGrows DEF GitOpsInv, GitOpsTypeOK
<1>2. \A q \in Run : PullIsFix(q)'
  BY <1>1, PullKept
<1> QED BY <1>1, <1>2, RunsKept

LEMMA PeopleSafe ==
    ASSUME GitOpsInv, People
    PROVE  GitOpsInv'
<1>1. Current \in Content
  BY CurrentIsContent DEF GitOpsInv
<1>2. ASSUME NEW r \in Run, Review(r) PROVE GitOpsInv'
  BY <1>2, ReviewSafe
<1>3. ASSUME NEW t \in Tag \cup {NoTag}, Deploy(t) PROVE GitOpsInv'
  BY <1>1, <1>3, TagReplaced, PushSafe DEF Deploy
<1>4. ASSUME NEW m \in 0..MaxMemory, Resize(m) PROVE GitOpsInv'
  BY <1>1, <1>4, MemoryReplaced, PushSafe DEF Resize
<1> QED BY <1>2, <1>3, <1>4 DEF People

-----------------------------------------------------------------------------
(* The invariant *)

LEMMA GitOpsInitial ==
    ASSUME GitOpsInit
    PROVE  GitOpsInv
<1>1. PICK t \in Tag \cup {NoTag} : main = <<[tag |-> t, memory |-> 0]>>
  BY DEF GitOpsInit
<1>2. [tag |-> t, memory |-> 0] \in Content
  BY GitOpsAssumption DEF Content
<1>3. main \in Seq(Content) /\ Len(main) = 1
  BY <1>1, <1>2
<1>4. GitOpsTypeOK
  BY <1>3, IdleIsState, NoPullIsPull, GitOpsAssumption DEF GitOpsInit, GitOpsTypeOK
<1>5. ASSUME NEW r \in Run
      PROVE  RunInv(r) /\ PullIsFix(r)
  BY DEF GitOpsInit, Idle, NoPull, RunInv, ReadIsKept, NewerIsFixed, BranchIsLater,
         NewerIsListed, RollingBack, PullIsFix
<1> QED BY <1>4, <1>5 DEF GitOpsInv, RunInv

LEMMA PatchStepSafe ==
    ASSUME GitOpsInv, NEW r \in Run, PatchStep(r)
    PROVE  GitOpsInv'
<1>1. CASE LookUp(r)
  BY <1>1, LookUpSafe
<1>2. CASE Branch(r)
  BY <1>2, BranchSafe
<1>3. CASE GetSHA(r)
  BY <1>3, GetSHASafe
<1>4. CASE UpdateFile(r)
  BY <1>4, UpdateFileSafe
<1>5. CASE Create(r)
  BY <1>5, CreateSafe
<1>6. CASE AutoMerges(r)
  BY <1>6, AutoMergesSafe
<1>7. CASE CallFails(r)
  BY <1>7, RunEnds DEF CallFails, GivesUp
<1> QED BY <1>1, <1>2, <1>3, <1>4, <1>5, <1>6, <1>7 DEF PatchStep

LEMMA GitOpsStutters ==
    ASSUME GitOpsInv, UNCHANGED gitOpsVars
    PROVE  GitOpsInv'
<1>1. Grows /\ run' = run /\ pull' = pull
  BY UnchangedGrows DEF GitOpsInv, gitOpsVars
<1>2. \A q \in Run : PullIsFix(q)'
  BY <1>1, PullKept
<1> QED BY <1>1, <1>2, RunsKept DEF GitOpsInv, GitOpsTypeOK

LEMMA GitOpsInductive ==
    ASSUME GitOpsInv, [GitOpsNext]_gitOpsVars
    PROVE  GitOpsInv'
<1>1. ASSUME NEW r \in Run, ReadFile(r) PROVE GitOpsInv'
  BY <1>1, ReadFileSafe
<1>2. ASSUME NEW r \in Run, PatchStep(r) PROVE GitOpsInv'
  BY <1>2, PatchStepSafe
<1>3. CASE People
  BY <1>3, PeopleSafe
<1>4. CASE UNCHANGED gitOpsVars
  BY <1>4, GitOpsStutters
<1> QED BY <1>1, <1>2, <1>3, <1>4 DEF GitOpsNext

\* What a run or a pull request remembers of the file on main stays true of main's
\* history: handleHighConfidenceFix carries contents and commits over several calls to
\* GitHub while others commit.
THEOREM GitOpsInvariance == GitOpsSpec => []GitOpsInv
<1>1. GitOpsInit => GitOpsInv
  BY GitOpsInitial
<1>2. GitOpsInv /\ [GitOpsNext]_gitOpsVars => GitOpsInv'
  BY GitOpsInductive
<1> QED BY <1>1, <1>2, PTL DEF GitOpsSpec

\* Probing decides when a run reads the file, and for which ticket: whatever the names
\* of alerts and the answers of GitHub are, the runs are those of GitOps.
THEOREM ProbesAreReads == ProbingSpec => GitOpsSpec
<1>1. ProbingInit => GitOpsInit
  BY DEF ProbingInit
<1>2. [ProbingNext]_probingVars => [GitOpsNext]_gitOpsVars
  <2>1. ASSUME NEW r \in Run, Probe(r) PROVE [GitOpsNext]_gitOpsVars
    <3>1. ReadFile(r) \/ UNCHANGED gitOpsVars
      BY <2>1 DEF Probe
    <3> QED BY <3>1 DEF GitOpsNext
  <2>2. CASE ((\E r \in Run : PatchStep(r)) \/ People) /\ UNCHANGED astray
    BY <2>2 DEF GitOpsNext
  <2>3. CASE UNCHANGED probingVars
    BY <2>3 DEF probingVars
  <2> QED BY <2>1, <2>2, <2>3 DEF ProbingNext
<1> QED BY <1>1, <1>2, PTL DEF ProbingSpec, GitOpsSpec

-----------------------------------------------------------------------------
(* The properties *)

\* Only the merge of its own pull request makes Merged true of a run.
LEMMA MergedByItself ==
    ASSUME GitOpsInv, [GitOpsNext]_gitOpsVars, NEW r \in Run, Merged(r)
    PROVE  MergePR(r)
<1>1. pull[r].state = "open" /\ pull'[r].state = "none" /\ main' # main /\ pull' # pull
  BY DEF Merged
<1>2. ASSUME NEW q \in Run, ReadFile(q) PROVE FALSE
  BY <1>1, <1>2 DEF ReadFile
<1>3. ASSUME NEW q \in Run, PatchStep(q) PROVE MergePR(r)
  <2>1. AutoMerges(q)
    <3>1. pull' = pull \/ main' = main \/ AutoMerges(q)
      BY <1>3 DEF PatchStep, LookUp, Branch, GetSHA, UpdateFile, Create, CallFails, GivesUp
    <3> QED BY <1>1, <3>1
  <2>2. MergePR(q)
    BY <1>1, <2>1 DEF AutoMerges
  <2>3. q = r
    BY <1>1, <2>2, Merging
  <2> QED BY <2>2, <2>3
<1>4. ASSUME NEW q \in Run, Review(q) PROVE MergePR(r)
  <2>1. MergePR(q)
    BY <1>1, <1>4 DEF Review
  <2>2. q = r
    BY <1>1, <2>1, Merging
  <2> QED BY <2>1, <2>2
<1>5. CASE People
  BY <1>1, <1>4, <1>5 DEF People, Deploy, Resize
<1>6. CASE UNCHANGED gitOpsVars
  BY <1>1, <1>6 DEF gitOpsVars
<1> QED BY <1>2, <1>3, <1>5, <1>6 DEF GitOpsNext

\* The merge of a fix whose read nobody overtook, value by value.
LEMMA MergesItsFix ==
    ASSUME GitOpsInv, NEW r \in Run, MergePR(r), ~Overtaken(r),
           NEW f \in {"tag", "memory"} \ {FieldOf(pull[r].fix)}
    PROVE  Current'[f] = Current[f]
<1>1. pull[r].state = "open" /\ Current' = Merge(r) /\ PullIsFix(r)
  BY Merging DEF GitOpsInv
<1>2. main[pull[r].base] = main[pull[r].readAt]
  BY <1>1, MergeOf DEF Overtaken
<1>3. pull[r].content[f] = main[pull[r].base][f]
  BY <1>1, <1>2 DEF PullIsFix, OnlyFixes
<1>4. /\ main[pull[r].base] \in Content /\ pull[r].content \in Content /\ Current \in Content
      /\ f \in {"tag", "memory"}
  BY <1>1, MergeOf, CurrentIsContent DEF GitOpsInv
<1>5. Merge(r)[f] = Current[f]
  BY <1>3, <1>4, ThreeWayMerge DEF Merge
<1> QED BY <1>1, <1>5

\* Merging the pull request of a run that nobody overtook changes nothing in the file
\* but what its fix is about, for any number of runs, tags and commits: CreatePR bases
\* the branch on the main of a later call than GetFileContent, and GitHub merges it
\* into a later main still.
THEOREM MergesAreFixes == ProbingSpec => MergeIsItsFix
<1>1. GitOpsInv /\ [GitOpsNext]_gitOpsVars =>
        [\A r \in Run : Merged(r) /\ ~Overtaken(r) =>
           \A f \in {"tag", "memory"} \ {FieldOf(pull[r].fix)} : Current'[f] = Current[f]]_gitOpsVars
  BY MergedByItself, MergesItsFix
<1> QED BY <1>1, GitOpsInvariance, ProbesAreReads, PTL DEF GitOpsSpec, MergeIsItsFix

\* rollbackImage proposes the tag before the one the run read, as far as the look back
\* goes, if nobody deployed in between; while the run goes on, other commits change
\* nothing about that.
THEOREM RollbacksGoBack == ProbingSpec => []UnovertakenRollbackGoesBack
<1>1. GitOpsInv => UnovertakenRollbackGoesBack
  <2>1. SUFFICES ASSUME GitOpsInv, NEW r \in Run, RollingBack(r), run[r].listedAt = run[r].readAt
                 PROVE  \E k \in PriorTags(r) :
                          run[r].newer.tag = main[k].tag /\ \A j \in PriorTags(r) : j <= k
    BY DEF UnovertakenRollbackGoesBack
  <2>2. PriorTags(r) = TagsBefore(run[r].listedAt, run[r].content.tag)
    BY <2>1 DEF PriorTags, TagsBefore
  <2> QED BY <2>1, <2>2 DEF GitOpsInv, NewerIsListed
<1> QED BY <1>1, GitOpsInvariance, ProbesAreReads, PTL

-----------------------------------------------------------------------------
(* Names *)

\* The provers do not know that literals are strings.
Segments == STRING \cup {"base", "service", "rs", "id", Ordinal, "outside"}
Names == Seq(Segments)

LEMMA StringsAreSegments ==
    ASSUME NEW s \in Seq(STRING)
    PROVE  s \in Names
<1>1. \A k \in 1..Len(s) : s[k] \in Segments
  BY DEF Segments
<1> QED BY <1>1 DEF Names

\* What canonicalising takes off a name is what the chart put on.
LEMMA AppNames ==
    ASSUME NEW app \in App
    PROVE  /\ app \in Names /\ Len(app) \in Nat \ {0} /\ app # Outside
           /\ Release(app) \in Names /\ Len(Release(app)) = Len(Tenant) + Len(app)
           /\ Fullname(app) \in Names /\ Len(Fullname(app)) = Len(Release(app)) + 2
<1>1. app \in Names /\ Tenant \in Names /\ app # <<>> /\ app # Outside
  BY ProbingAssumption, StringsAreSegments DEF NoName
<1>2. Len(app) \in Nat \ {0}
  BY <1>1 DEF Names
<1>3. Release(app) \in Names /\ Len(Release(app)) = Len(Tenant) + Len(app)
  BY <1>1 DEF Release, Names
<1>4. ChartFullnameSuffix \in Names /\ Len(ChartFullnameSuffix) = 2
  <2>1. "base" \in Segments /\ "service" \in Segments
    BY DEF Segments
  <2> QED BY <2>1 DEF ChartFullnameSuffix, Names
<1>5. ASSUME NEW s \in Names, NEW t \in Names
      PROVE  s \o t \in Names /\ Len(s \o t) = Len(s) + Len(t)
  BY DEF Names
<1>6. Fullname(app) \in Names /\ Len(Fullname(app)) = Len(Release(app)) + 2
  <2>1. Fullname(app) = Release(app) \o ChartFullnameSuffix
    BY DEF Fullname
  <2> QED BY <1>3, <1>4, <1>5, <2>1
<1> QED BY <1>1, <1>2, <1>3, <1>6

LEMMA TenantComesOff ==
    ASSUME NEW app \in App
    PROVE  StripNamespacePrefix(Release(app)) = app
<1>1. Tenant \in Names /\ app \in Names /\ Len(app) \in Nat \ {0} /\ Len(Tenant) \in Nat
  BY AppNames, ProbingAssumption, StringsAreSegments DEF Names
<1>2. Len(Release(app)) = Len(Tenant) + Len(app) /\ Release(app) \in Names
  BY AppNames
<1>3. SubSeq(Tenant, 1, Len(Tenant)) = SubSeq(Release(app), 1, Len(Tenant))
  BY <1>1, <1>2 DEF Release, Names
<1>4. Tenant # Release(app)
  BY <1>1, <1>2
<1>5. IsStrictPrefix(Tenant, Release(app))
  BY <1>1, <1>2, <1>3, <1>4 DEF IsStrictPrefix, IsPrefix
<1>6. SubSeq(Release(app), Len(Tenant) + 1, Len(Release(app))) = app
  BY <1>1, <1>2 DEF Release, Names
<1> QED BY <1>5, <1>6 DEF StripNamespacePrefix

LEMMA SuffixComesOff ==
    ASSUME NEW app \in App
    PROVE  HasSignature(Fullname(app)) /\ StripSuffix(Fullname(app)) = Release(app)
<1> DEFINE n == Len(Release(app))
           full == Fullname(app)
           rev == Reverse(full)
<1>1. /\ Release(app) \in Names /\ n \in Nat \ {0} /\ full \in Names /\ Len(full) = n + 2
      /\ Len(ChartFullnameSuffix) = 2
  BY AppNames, ProbingAssumption, StringsAreSegments DEF Names, ChartFullnameSuffix
<1>2. full[n + 1] = "base" /\ full[n + 2] = "service"
  BY <1>1 DEF Fullname, ChartFullnameSuffix, Names
<1>3. Len(rev) = n + 2 /\ rev[1] = "service" /\ rev[2] = "base" /\ rev \in Names
  BY <1>1, <1>2 DEF Reverse, Names
<1>4. Reverse(ChartFullnameSuffix) = <<"service", "base">>
  BY DEF Reverse, ChartFullnameSuffix
<1> HIDE DEF rev
<1>5. SubSeq(rev, 1, 2) = SubSeq(<<"service", "base">>, 1, 2)
  <2>1. /\ SubSeq(rev, 1, 2) = [k \in 1..2 |-> rev[k]]
        /\ SubSeq(<<"service", "base">>, 1, 2) = [k \in 1..2 |-> <<"service", "base">>[k]]
    BY <1>1, <1>3 DEF Names
  <2>2. \A k \in 1..2 : rev[k] = <<"service", "base">>[k]
    BY <1>3
  <2> QED BY <2>1, <2>2
<1>6. IsSuffix(ChartFullnameSuffix, full)
  BY <1>1, <1>3, <1>4, <1>5 DEF IsSuffix, IsPrefix, rev
<1>7. SubSeq(full, 1, n) = Release(app)
  BY <1>1 DEF Fullname, ChartFullnameSuffix, Names
<1> QED BY <1>1, <1>6, <1>7 DEF HasSignature, StripSuffix

LEMMA AppendedComesOff ==
    ASSUME NEW s \in Names, NEW x \in Segments
    PROVE  /\ s \o <<x>> \in Names /\ Len(s \o <<x>>) = Len(s) + 1
           /\ (s \o <<x>>)[Len(s) + 1] = x /\ Front(s \o <<x>>) = s
<1> DEFINE t == s \o <<x>>
<1>1. t \in Names /\ Len(t) = Len(s) + 1 /\ t[Len(s) + 1] = x /\ \A k \in 1..Len(s) : t[k] = s[k]
  BY DEF Names
<1>2. Len(s) \in Nat /\ DOMAIN s = 1..Len(s) /\ s = [k \in 1..Len(s) |-> s[k]]
  BY DEF Names
<1> HIDE DEF t
<1>3. SubSeq(t, 1, Len(s)) = [k \in 1..Len(s) |-> t[k]]
  BY <1>1, <1>2 DEF Names
<1>4. Front(t) = s
  <2>1. Len(t) - 1 = Len(s)
    BY <1>1, <1>2
  <2>2. SubSeq(t, 1, Len(t) - 1) = s
    BY <1>1, <1>2, <1>3, <2>1
  <2> QED BY <2>2 DEF Front
<1> QED BY <1>1, <1>4 DEF t

\* Pods of a ReplicaSet lose two segments, pods of a StatefulSet the ordinal.
LEMMA PodComesOff ==
    ASSUME NEW app \in App
    PROVE  /\ TrimPodSuffix(Fullname(app) \o <<"rs", "id">>) = Fullname(app)
           /\ TrimPodSuffix(Fullname(app) \o <<Ordinal>>) = Fullname(app)
<1> DEFINE full == Fullname(app)
           n == Len(full)
<1>1. full \in Names /\ n \in Nat /\ n > 2
  BY AppNames, ProbingAssumption, StringsAreSegments DEF Names
<1>2. HasSignature(full)
  BY SuffixComesOff
<1>3. {"rs", "id", Ordinal} \subseteq Segments
  BY DEF Segments
<1> HIDE DEF full, n
<1>4. TrimPodSuffix(full \o <<Ordinal>>) = full
  <2> DEFINE pod == full \o <<Ordinal>>
  <2>1. Len(pod) = n + 1 /\ pod[n + 1] = Ordinal /\ Front(pod) = full
    BY <1>1, <1>3, AppendedComesOff DEF n
  <2> HIDE DEF pod
  <2>2. TrimPodSuffix(pod) = full
    BY <1>1, <1>2, <2>1 DEF TrimPodSuffix
  <2> QED BY <2>2 DEF pod
<1>5. TrimPodSuffix(full \o <<"rs", "id">>) = full
  <2> DEFINE mid == full \o <<"rs">>
             pod == mid \o <<"id">>
  <2>1. mid \in Names /\ Len(mid) = n + 1 /\ Front(mid) = full
    BY <1>1, <1>3, AppendedComesOff DEF n
  <2>2. full \o <<"rs", "id">> = pod
    BY <1>1, <1>3 DEF Names
  <2> HIDE DEF mid
  <2>3. Len(pod) = n + 2 /\ pod[n + 2] = "id" /\ Front(pod) = mid
    <3>1. n + 1 + 1 = n + 2
      BY <1>1
    <3> QED BY <1>3, <2>1, <3>1, AppendedComesOff
  <2> HIDE DEF pod
  <2>4. TrimPodSuffix(pod) = Front(Front(pod))
    BY <1>1, <2>3 DEF TrimPodSuffix, Ordinal
  <2> QED BY <2>1, <2>2, <2>3, <2>4
<1> QED BY <1>4, <1>5 DEF full

\* c is <<x, y, z>>.
Triple(c, x, y, z) == c \in Seq(Names) /\ Len(c) = 3 /\ c[1] = x /\ c[2] = y /\ c[3] = z

\* The candidates for a chart's full name lead with the app's.
LEMMA FullnameCandidates ==
    ASSUME NEW app \in App
    PROVE  /\ Triple(Candidates(Fullname(app), NoLabel), app, Release(app), Fullname(app))
           /\ Resolve(Fullname(app), NoLabel) = app
<1>1. HasSignature(Fullname(app)) /\ StripSuffix(Fullname(app)) = Release(app)
      /\ StripNamespacePrefix(Release(app)) = app
  BY SuffixComesOff, TenantComesOff
<1>2. Identity(NoLabel) = <<>>
  BY DEF Identity, NoLabel
<1>3. Candidates(Fullname(app), NoLabel) = <<>> \o <<app, Release(app)>> \o <<Fullname(app)>>
  BY <1>1, <1>2 DEF Candidates
<1>4. ASSUME NEW S, NEW a \in S, NEW b \in S, NEW c \in S
      PROVE  LET d == <<>> \o <<a, b>> \o <<c>> IN
             d \in Seq(S) /\ Len(d) = 3 /\ d[1] = a /\ d[2] = b /\ d[3] = c /\ Head(d) = a
  <2>1. <<>> \o <<a, b>> = <<a, b>> /\ <<a, b>> \in Seq(S) /\ <<c>> \in Seq(S)
    OBVIOUS
  <2> DEFINE d == <<a, b>> \o <<c>>
  <2>2. d \in Seq(S) /\ Len(d) = 3 /\ d[1] = a /\ d[2] = b /\ d[3] = c
    BY <2>1
  <2> HIDE DEF d
  <2>3. Head(d) = a
    BY <2>2
  <2> QED BY <2>1, <2>2, <2>3 DEF d
<1> QED BY <1>3, <1>4, AppNames DEF Resolve, Triple

\* Other names stand for themselves.
LEMMA AppCandidates ==
    ASSUME NEW app \in App, ~HasSignature(app)
    PROVE  Candidates(app, NoLabel) \in Seq(Names) /\ Len(Candidates(app, NoLabel)) = 1
           /\ Candidates(app, NoLabel)[1] = app
<1>1. Candidates(app, NoLabel) = <<>> \o <<>> \o <<app>>
  BY DEF Candidates, Identity, NoLabel
<1>2. <<>> \o <<>> \o <<app>> = <<app>> /\ <<app>> \in Seq(Names)
  BY AppNames
<1> QED BY <1>1, <1>2

\* An identity label comes first.
LEMMA LabelLeads ==
    ASSUME NEW app \in App, NEW label, Identity(label) = <<app>>
    PROVE  Resolve(Fullname(app), label) = app
<1>1. /\ HasSignature(Fullname(app)) /\ StripSuffix(Fullname(app)) = Release(app)
      /\ StripNamespacePrefix(Release(app)) = app
  BY SuffixComesOff, TenantComesOff
<1>2. Candidates(Fullname(app), label) = <<app>> \o <<app, Release(app)>> \o <<Fullname(app)>>
  BY <1>1 DEF Candidates
<1>3. ASSUME NEW S, NEW a \in S, NEW b \in S, NEW c \in S
      PROVE  Head(<<a>> \o <<a, b>> \o <<c>>) = a
  <2> DEFINE d == <<a>> \o <<a, b>>
  <2>1. d \in Seq(S) /\ Len(d) = 3 /\ d[1] = a
        /\ <<c>> \in Seq(S) /\ Len(<<c>>) = 1
    OBVIOUS
  <2>2. ASSUME NEW s \in Seq(S), Len(s) = 3 PROVE Head(s \o <<c>>) = s[1]
    BY <2>2
  <2> HIDE DEF d
  <2>3. Head(d \o <<c>>) = a
    BY <2>1, <2>2
  <2> QED BY <2>3 DEF d
<1> QED BY <1>2, <1>3, AppNames DEF Resolve

\* processAlert gives every alert about an app the app's own name.
LEMMA ServicesOf ==
    ASSUME NEW app \in App
    PROVE  Services(app) \subseteq {app, Fullname(app)}
<1>1. Fullname(app) # NoName
  BY AppNames, ProbingAssumption, StringsAreSegments DEF NoName, Names
<1>2. ASSUME NEW alert \in PodAlerts(app) PROVE ServiceOf(alert) = app
  <2>1. PICK id \in {<<"rs", "id">>, <<Ordinal>>},
             label \in {NoLabel, [key |-> "id", value |-> app],
                        [key |-> "instance", value |-> Release(app)]} :
               alert = [pod |-> Fullname(app) \o id, workload |-> NoName, label |-> label]
    BY <1>2 DEF PodAlerts
  <2>2. TrimPodSuffix(alert.pod) = Fullname(app) /\ Labels(alert) = label
    BY <2>1, PodComesOff DEF Labels
  <2>3. ServiceOf(alert) = Resolve(Fullname(app), label)
    BY <2>1, <2>2 DEF ServiceOf
  <2>4. CASE label = NoLabel
    BY <2>3, <2>4, FullnameCandidates
  <2>5. CASE label = [key |-> "id", value |-> app]
    <3>1. Identity(label) = <<app>>
      BY <2>5 DEF Identity
    <3> QED BY <2>3, <3>1, LabelLeads
  <2>6. CASE label = [key |-> "instance", value |-> Release(app)]
    <3>1. Identity(label) = <<app>>
      BY <2>6, TenantComesOff DEF Identity
    <3> QED BY <2>3, <3>1, LabelLeads
  <2> QED BY <2>1, <2>4, <2>5, <2>6
<1>3. ASSUME NEW alert \in WorkloadAlerts(app) PROVE ServiceOf(alert) = app
  <2>1. alert.workload = Fullname(app)
    BY <1>3 DEF WorkloadAlerts
  <2>2. ServiceOf(alert) = Resolve(Fullname(app), NoLabel)
    BY <1>1, <2>1 DEF ServiceOf, Labels
  <2> QED BY <2>2, FullnameCandidates
<1> QED BY <1>2, <1>3 DEF Services

-----------------------------------------------------------------------------
(* Probes *)

\* The file a list of paths ends at was found, after every earlier path was a 404.
LEMMA FileIsFirstHit ==
    ASSUME NEW paths, NEW n \in Nat, DOMAIN paths = 1..n, NEW answer,
           FileFor(paths, answer) # NoName
    PROVE  \E k \in 1..n :
             /\ FileFor(paths, answer) = paths[k] /\ paths[k] \in Probed(paths)
             /\ answer[paths[k]] = "found"
             /\ \A j \in 1..n : j < k /\ paths[j] \in Probed(paths) => answer[paths[j]] = "404"
<1> DEFINE stops == {k \in 1..n : paths[k] \in Probed(paths) /\ answer[paths[k]] # "404"}
           first == CHOOSE k \in stops : \A j \in stops : k <= j
<1>1. /\ stops # {} /\ answer[paths[first]] = "found" /\ FileFor(paths, answer) = paths[first]
  BY DEF FileFor
<1>2. \E k \in stops : \A j \in stops : k <= j
  <2>1. stops \subseteq Nat
    OBVIOUS
  <2>2. PICK R : IsWellFoundedOn(R, Nat) /\ \A x, y \in Nat : y < x => <<y, x>> \in R
    BY NatOrder
  <2> HIDE DEF stops
  <2>3. PICK k \in stops : \A j \in stops : ~ (<<j, k>> \in R)
    BY <1>1, <2>1, <2>2, WFMin
  <2>4. \A j \in stops : ~(j < k)
    BY <2>1, <2>2, <2>3
  <2> QED BY <2>1, <2>4
<1>3. first \in stops /\ \A j \in stops : first <= j
  BY <1>2
<1> HIDE DEF first
<1>4. \A j \in 1..n : j < first /\ paths[j] \in Probed(paths) => answer[paths[j]] = "404"
  BY <1>3
<1> QED BY <1>1, <1>3, <1>4

\* No app is called like a chart's full name.
PlainNames == \A app \in App : ~HasSignature(app)

LEMMA OnlyAppsAreFound ==
    ASSUME PlainNames, NEW app \in App, NEW name, "found" \in Answers(name)
    PROVE  name \in App /\ name # Fullname(app)
BY SuffixComesOff DEF PlainNames, Answers

\* A probe ends at the app's own file, or at another's after a 404 for it.
LEMMA ProbeEnds ==
    ASSUME PlainNames, NEW app \in App, NEW service \in {app, Fullname(app)},
           NEW skillPath \in {service, NoName, Outside}, NEW answer,
           \A name \in Probed(candidatePaths(skillPath, service)) : answer[name] \in Answers(name),
           FileFor(candidatePaths(skillPath, service), answer) \notin {NoName, app}
    PROVE  /\ app \in Probed(candidatePaths(skillPath, service))
           /\ answer[app] = "404"
<1> DEFINE rest == Candidates(service, NoLabel)
           paths == candidatePaths(skillPath, service)
           n == Len(rest)
<1>1. rest \in Seq(Names) /\ n \in {1, 3}
  BY AppCandidates, FullnameCandidates DEF PlainNames, Triple
<1>2. /\ DOMAIN paths = 1..(n + 1) /\ paths[1] = skillPath
      /\ \A k \in 1..n : paths[k + 1] = rest[k]
  <2>1. skillPath \in Names
    <3>1. Outside \in Names /\ NoName \in Names
      BY DEF Outside, NoName, Names, Segments
    <3> QED BY <3>1, AppNames
  <2> QED BY <1>1, <2>1 DEF candidatePaths
<1>3. PICK k \in 1..(n + 1) :
        /\ FileFor(paths, answer) = paths[k] /\ paths[k] \in Probed(paths)
        /\ answer[paths[k]] = "found"
        /\ \A j \in 1..(n + 1) : j < k /\ paths[j] \in Probed(paths) => answer[paths[j]] = "404"
  <2>1. n + 1 \in Nat
    BY <1>1
  <2> HIDE DEF paths, n
  <2> QED BY <1>2, <2>1, FileIsFirstHit DEF paths
<1>4. paths[k] # app /\ paths[k] # Fullname(app) /\ paths[k] \notin {NoName, Outside}
  BY <1>3, OnlyAppsAreFound DEF Probed
<1>5. ~(k = 1)
  BY <1>2, <1>4
<1>6. CASE service = app
  <2>1. n = 1 /\ rest[1] = app
    BY <1>6, AppCandidates DEF PlainNames
  <2> QED BY <1>2, <1>3, <1>4, <1>5, <2>1
<1>7. CASE service = Fullname(app)
  <2>1. n = 3 /\ rest[1] = app /\ rest[3] = Fullname(app)
    BY <1>7, FullnameCandidates DEF Triple
  <2>2. paths[2] = app /\ paths[4] = Fullname(app)
    <3>1. paths[1 + 1] = rest[1] /\ paths[3 + 1] = rest[3]
      BY <1>2, <2>1
    <3> QED BY <2>1, <3>1
  <2>3. k = 3
    BY <1>4, <1>5, <2>1, <2>2
  <2>4. app \in Probed(paths)
    BY <1>2, <2>1, <2>2, ProbingAssumption DEF Probed
  <2> QED BY <1>3, <2>1, <2>2, <2>3, <2>4
<1> QED BY <1>6, <1>7

LEMMA OthersFileAfterGone ==
    ASSUME PlainNames, NEW app \in App, NEW end \in Probes(app), end.file \notin {NoName, end.app}
    PROVE  end.gone
<1> DEFINE Lists == UNION {{candidatePaths(skillPath, service) : skillPath \in {service, NoName, Outside}} :
                              service \in Services(app)}
           Outcomes(paths) ==
             {[app |-> app, file |-> FileFor(paths, answer),
               gone |-> app \in Probed(paths) /\ answer[app] = "404"] :
                 answer \in {f \in [Probed(paths) -> {"found", "404", "error"}] :
                               \A name \in Probed(paths) : f[name] \in Answers(name)}}
<1>1. PICK paths \in Lists : end \in Outcomes(paths)
  <2>1. end \in UNION {Outcomes(paths) : paths \in Lists}
    BY DEF Probes
  <2> HIDE DEF Lists, Outcomes
  <2> QED BY <2>1
<1>2. PICK service \in Services(app) :
        paths \in {candidatePaths(skillPath, service) : skillPath \in {service, NoName, Outside}}
  BY <1>1
<1>3. PICK skillPath \in {service, NoName, Outside} : paths = candidatePaths(skillPath, service)
  BY <1>2
<1>4. PICK answer \in {f \in [Probed(paths) -> {"found", "404", "error"}] :
                         \A name \in Probed(paths) : f[name] \in Answers(name)} :
        end = [app |-> app, file |-> FileFor(paths, answer),
               gone |-> app \in Probed(paths) /\ answer[app] = "404"]
  BY <1>1
<1>5. /\ end.app = app /\ end.file = FileFor(paths, answer)
      /\ end.gone = (app \in Probed(paths) /\ answer[app] = "404")
  BY <1>4
<1>6. service \in {app, Fullname(app)}
  BY <1>2, ServicesOf
<1>7. app \in Probed(paths) /\ answer[app] = "404"
  BY <1>3, <1>4, <1>5, <1>6, ProbeEnds
<1> QED BY <1>5, <1>7

\* What is remembered of a run that fixed another app's file.
AstrayInv == astray \in [Run -> {Home} \cup {end \in Ends : end.gone}]

\* The provenance walk of the probes: whatever labels an alert carries and whatever
\* GitHub answers, a fix is for the file of the app the alert is about, unless GitHub
\* said that this file does not exist.  For any tenant and apps, none of them called
\* like a release of the chart.
THEOREM FixesStayHome ==
    ASSUME PlainNames
    PROVE  ProbingSpec => []AppsOwnFileIsPatched
<1>1. ProbingInit => AstrayInv
  BY DEF ProbingInit, AstrayInv
<1>2. AstrayInv /\ [ProbingNext]_probingVars => AstrayInv'
  <2> SUFFICES ASSUME AstrayInv, [ProbingNext]_probingVars PROVE AstrayInv'
    OBVIOUS
  <2>1. ASSUME NEW r \in Run, Probe(r) PROVE AstrayInv'
    <3>1. PICK end \in Ends :
            astray' = [astray EXCEPT ![r] = IF end.file \in {NoName, end.app} THEN Home ELSE end]
      BY <2>1 DEF Probe
    <3>2. end.file \in {NoName, end.app} \/ end.gone
      BY OthersFileAfterGone DEF Ends
    <3> QED BY <3>1, <3>2 DEF AstrayInv
  <2>2. CASE astray' = astray
    BY <2>2 DEF AstrayInv
  <2> QED BY <2>1, <2>2 DEF ProbingNext, probingVars
<1>3. AstrayInv /\ GitOpsInv => AppsOwnFileIsPatched
  BY DEF AstrayInv, GitOpsInv, AppsOwnFileIsPatched
<1> QED BY <1>1, <1>2, <1>3, GitOpsInvariance, ProbesAreReads, PTL DEF ProbingSpec
=============================================================================
