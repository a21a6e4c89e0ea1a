------------------------------- MODULE GitOps --------------------------------
(***************************************************************************)
(* From a diagnosis to a pull request on mctl-gitops: the part of          *)
(* handleHighConfidenceFix between GetFileContent and MergePR, with        *)
(* rollbackImage, LookupPreviousImageTag and CreatePR, for the runs of     *)
(* several tickets that patch one values file while people commit to it.   *)
(*                                                                         *)
(* The file is its two values that fixes change: the chart's image tag and *)
(* the memory limit, a number of bumps.  `main' is the history of the file *)
(* on the main branch; two blobs are one when their contents are equal.    *)
(***************************************************************************)
EXTENDS Integers, Sequences

CONSTANTS
    Run,         \* runs that can be in handleHighConfidenceFix at a time
    Tag,         \* image tags
    MaxMemory,   \* bound on the memory limit
    MaxCommits,  \* bound on the history of the file
    LookupCap,   \* PreviousTagLookupCommitCap
    AutoMerge,   \* Pipeline.autoMerge
    Faults       \* {} or {"github"}: any GitHub call of a run may fail

NoTag == "noTag"
FixType == {"bump_memory", "rollback_image"}

ASSUME GitOpsAssumption ==
    /\ NoTag \notin Tag
    /\ MaxMemory \in Nat /\ MaxCommits \in Nat \ {0} /\ LookupCap \in Nat \ {0}
    /\ AutoMerge \in BOOLEAN
    /\ Faults \subseteq {"github"}

VARIABLES
    main,   \* the contents of the file, commit after commit
    run,    \* Run -> where it stands
    pull    \* Run -> the pull request it opened, while it is open

gitOpsVars == <<main, run, pull>>

Content == [tag: Tag \cup {NoTag}, memory: 0..MaxMemory]
Current == main[Len(main)]

\* readAt and listedAt are history: the length of `main' when the run read the file
\* and when it listed the commits.  newer is newContent, base the branch's commit.
RunState ==
    [step: {"idle", "lookup", "ref", "sha", "update", "create", "merge"},
     fix: FixType, content: Content, newer: Content, blob: Content,
     base: 0..MaxCommits, readAt: 0..MaxCommits, listedAt: 0..MaxCommits]

Pull == [state: {"none", "open"}, fix: FixType, content: Content,
         base: 0..MaxCommits, readAt: 0..MaxCommits]

GitOpsTypeOK ==
    /\ main \in Seq(Content) /\ Len(main) \in 1..MaxCommits
    /\ run \in [Run -> RunState]
    /\ pull \in [Run -> Pull]

Empty == [tag |-> NoTag, memory |-> 0]
Idle == [step |-> "idle", fix |-> "bump_memory", content |-> Empty, newer |-> Empty,
         blob |-> Empty, base |-> 0, readAt |-> 0, listedAt |-> 0]
NoPull == [state |-> "none", fix |-> "bump_memory", content |-> Empty, base |-> 0, readAt |-> 0]

GitOpsInit ==
    /\ main \in {<<[tag |-> t, memory |-> 0]>> : t \in Tag \cup {NoTag}}
    /\ run = [r \in Run |-> Idle]
    /\ pull = [r \in Run |-> NoPull]

-----------------------------------------------------------------------------
(* A run *)

\* The run ends without a pull request: it proposes the fix in words, or escalates.
GivesUp(r) == run' = [run EXCEPT ![r] = Idle] /\ UNCHANGED <<main, pull>>

CallFails(r) == "github" \in Faults /\ run[r].step # "idle" /\ GivesUp(r)

\* GenerateMemoryBump, on the values that fixes change.
MemoryBump(content) == [content EXCEPT !.memory = @ + 1]

\* GetFileContent of main; GenerateMemoryBump is at once, a rollback looks back first.
ReadFile(r) ==
    /\ run[r].step = "idle"
    /\ pull[r].state # "open"
    /\ \E fix \in FixType :
         /\ fix = "bump_memory" => Current.memory < MaxMemory
         /\ run' = [run EXCEPT ![r] =
              [Idle EXCEPT !.fix = fix, !.content = Current, !.readAt = Len(main),
                           !.step = IF fix = "bump_memory" THEN "ref" ELSE "lookup",
                           !.newer = IF fix = "bump_memory" THEN MemoryBump(Current) ELSE Empty]]
    /\ UNCHANGED <<main, pull>>

\* The commits ListCommits returns, as positions in `main'.
Listed == {k \in 1..Len(main) : k > Len(main) - LookupCap}

AnyTag(tag) == {k \in Listed : main[k].tag # NoTag}

\* The commits with a tag other than the one to roll back from.
Distinct(tag) == {k \in Listed : main[k].tag \notin {NoTag, tag}}

Latest(K) == CHOOSE k \in K : \A j \in K : j <= k

\* rollbackImage.  What the commits hold never changes, so that walking them is one
\* step at the time they are listed.  GenerateImageRollback refuses a file that has
\* no tag.
LookUp(r) ==
    /\ run[r].step = "lookup"
    /\ LET found == Distinct(run[r].content.tag) IN
         IF found = {} \/ run[r].content.tag = NoTag
         THEN GivesUp(r)
         ELSE /\ run' = [run EXCEPT ![r].step = "ref", ![r].listedAt = Len(main),
                           ![r].newer = [run[r].content EXCEPT !.tag = main[Latest(found)].tag]]
              /\ UNCHANGED <<main, pull>>

BranchAtFirst(r) ==
    /\ run[r].step = "ref"
    /\ run' = [run EXCEPT ![r].step = "sha", ![r].base = 1]
    /\ UNCHANGED <<main, pull>>

\* GetRef and CreateRef: the branch starts at the commit GetRef named.
Branch(r) ==
    /\ run[r].step = "ref"
    /\ run' = [run EXCEPT ![r].step = "sha", ![r].base = Len(main)]
    /\ UNCHANGED <<main, pull>>

\* GetContents of main, for the blob's SHA only.
GetSHA(r) ==
    /\ run[r].step = "sha"
    /\ run' = [run EXCEPT ![r].step = "update", ![r].blob = Current]
    /\ UNCHANGED <<main, pull>>

\* UpdateFile replaces the file on the branch if its blob is the one named.
UpdateFile(r) ==
    /\ run[r].step = "update"
    /\ IF run[r].blob = main[run[r].base]
       THEN run' = [run EXCEPT ![r].step = "create"] /\ UNCHANGED <<main, pull>>
       ELSE GivesUp(r)

\* Only a skill with AutoMergeSafe is merged without a review.
AutoMergeSafe(fix) == fix = "bump_memory"

Create(r) ==
    /\ run[r].step = "create"
    /\ pull' = [pull EXCEPT ![r] = [state |-> "open", fix |-> run[r].fix, content |-> run[r].newer,
                                    base |-> run[r].base, readAt |-> run[r].readAt]]
    /\ run' = [run EXCEPT ![r] =
         IF AutoMerge /\ AutoMergeSafe(run[r].fix) THEN [@ EXCEPT !.step = "merge"] ELSE Idle]
    /\ UNCHANGED main

-----------------------------------------------------------------------------
(* GitHub and people *)

\* Both sides changed a value, to different ones.
Conflict(base, ours, theirs) ==
    \E f \in {"tag", "memory"} : ours[f] # base[f] /\ theirs[f] # base[f] /\ ours[f] # theirs[f]

ThreeWay(base, ours, theirs) ==
    [f \in {"tag", "memory"} |-> IF theirs[f] = base[f] THEN ours[f] ELSE theirs[f]]

Commit(content) ==
    /\ main' = IF content = Current THEN main ELSE Append(main, content)
    /\ content # Current => Len(main) < MaxCommits

\* Squash-merges the pull request of r; GitHub refuses a conflict.
MergePR(r) ==
    LET base == main[pull[r].base] IN
    /\ pull[r].state = "open"
    /\ ~Conflict(base, Current, pull[r].content)
    /\ Commit(ThreeWay(base, Current, pull[r].content))
    /\ pull' = [pull EXCEPT ![r] = NoPull]

AutoMerges(r) ==
    /\ run[r].step = "merge"
    /\ \/ MergePR(r)
       \/ /\ pull[r].state = "open" => Conflict(main[pull[r].base], Current, pull[r].content)
          /\ UNCHANGED <<main, pull>>
    /\ run' = [run EXCEPT ![r] = Idle]

\* /approve, /reject, or the pull request's own page.
Review(r) ==
    /\ \/ MergePR(r)
       \/ /\ pull[r].state = "open"
          /\ pull' = [pull EXCEPT ![r] = NoPull]
          /\ UNCHANGED main
    /\ UNCHANGED run

Deploy(t) == t # Current.tag /\ Commit([Current EXCEPT !.tag = t]) /\ UNCHANGED <<run, pull>>

Resize(m) == m # Current.memory /\ Commit([Current EXCEPT !.memory = m]) /\ UNCHANGED <<run, pull>>

PatchStep(r) ==
    \/ LookUp(r) \/ Branch(r) \/ GetSHA(r) \/ UpdateFile(r) \/ Create(r)
    \/ AutoMerges(r) \/ CallFails(r)

People ==
    \/ \E r \in Run : Review(r)
    \/ \E t \in Tag \cup {NoTag} : Deploy(t)
    \/ \E m \in 0..MaxMemory : Resize(m)

\* Runs that read the file whenever they like; Probing says when they do.
GitOpsNext == (\E r \in Run : ReadFile(r) \/ PatchStep(r)) \/ People

GitOpsSpec == GitOpsInit /\ [][GitOpsNext]_gitOpsVars

-----------------------------------------------------------------------------
(* Properties *)

FieldOf(fix) == IF fix = "bump_memory" THEN "memory" ELSE "tag"

\* Somebody committed to the file between the run's read and its branch.
Overtaken(r) == \E k \in pull[r].readAt..pull[r].base : main[k] # main[pull[r].readAt]

Merged(r) == pull[r].state = "open" /\ pull'[r].state = "none" /\ main' # main

\* Merging the pull request of a run that nobody overtook changes nothing in the file
\* but what its fix is about, whatever other runs and people did to the file since.
MergeIsItsFix ==
    [][\A r \in Run : Merged(r) /\ ~Overtaken(r) =>
         \A f \in {"tag", "memory"} \ {FieldOf(pull[r].fix)} : Current'[f] = Current[f]]_gitOpsVars

\* The commits before the run's read that have another tag than it read.
PriorTags(r) ==
    {k \in 1..run[r].readAt : /\ k > run[r].readAt - LookupCap
                              /\ main[k].tag \notin {NoTag, run[r].content.tag}}

RollingBack(r) == run[r].fix = "rollback_image" /\ run[r].step \in {"ref", "sha", "update", "create"}

\* The tag a rollback proposes is the one that ran before the tag it leaves, as far
\* as the look back goes, if nobody deployed between the read and the list.
UnovertakenRollbackGoesBack ==
    \A r \in Run : RollingBack(r) /\ run[r].listedAt = run[r].readAt =>
        \E k \in PriorTags(r) : run[r].newer.tag = main[k].tag /\ \A j \in PriorTags(r) : j <= k

-----------------------------------------------------------------------------
(* The inductive invariant behind the properties.  What a run or a pull    *)
(* request remembers of `main' is a position in it and what was there.     *)

OnlyFixes(fix, from, to) == \A f \in {"tag", "memory"} \ {FieldOf(fix)} : to[f] = from[f]

ReadIsKept(r) ==
    run[r].step # "idle" =>
        run[r].readAt \in 1..Len(main) /\ run[r].content = main[run[r].readAt]

NewerIsFixed(r) ==
    /\ run[r].step = "lookup" => run[r].fix = "rollback_image"
    /\ run[r].step \notin {"idle", "lookup"} => OnlyFixes(run[r].fix, run[r].content, run[r].newer)

BranchIsLater(r) ==
    run[r].step \in {"sha", "update", "create"} => run[r].base \in run[r].readAt..Len(main)

\* Distinct, for a file with n commits.
TagsBefore(n, tag) == {k \in 1..n : k > n - LookupCap /\ main[k].tag \notin {NoTag, tag}}

NewerIsListed(r) ==
    RollingBack(r) =>
        /\ run[r].listedAt \in 1..Len(main)
        /\ \E k \in TagsBefore(run[r].listedAt, run[r].content.tag) :
             /\ run[r].newer.tag = main[k].tag
             /\ \A j \in TagsBefore(run[r].listedAt, run[r].content.tag) : j <= k

PullIsFix(r) ==
    pull[r].state = "open" =>
        /\ pull[r].readAt \in 1..Len(main)
        /\ pull[r].base \in pull[r].readAt..Len(main)
        /\ OnlyFixes(pull[r].fix, main[pull[r].readAt], pull[r].content)

GitOpsInv ==
    /\ GitOpsTypeOK
    /\ \A r \in Run :
         /\ ReadIsKept(r) /\ NewerIsFixed(r) /\ BranchIsLater(r)
         /\ NewerIsListed(r) /\ PullIsFix(r)
=============================================================================
