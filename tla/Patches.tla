------------------------------- MODULE Patches -------------------------------
(***************************************************************************)
(* The patches of internal/fixer: patcher.go and the part of               *)
(* previous_tag.go that finds the chart's image tag.  They scan the lines  *)
(* of a values file; what they mean to change is said of the YAML mapping  *)
(* the lines stand for, so that is the reference they are checked against. *)
(*                                                                         *)
(* A line is its indentation, its key and its value.  People write a file  *)
(* line by line; the agent patches it at any time, and more than once.     *)
(* The form of a file says which keys they write in which block (`inside', *)
(* pairs <<key, block>>, the whole file being the block "file"), with      *)
(* which numbers (`values'), and bounds the lines they write (`lines'),    *)
(* their indentation (`indent') and what bumps lead to (`value').          *)
(***************************************************************************)
EXTENDS Integers, Sequences, FiniteSets

CONSTANT Form   \* the forms of files that people write

Block == {"resources", "limits", "requests", "image", "probes", "liveness", "livenessProbe", "other"}
Scalar == {"cpu", "memory", "tag", "initialDelaySeconds"}
NoValue == 0   \* of a block, a comment, or a scalar that is no number

ASSUME PatchesAssumption ==
    \A f \in Form : /\ f.inside \subseteq (Block \cup Scalar \cup {"comment"}) \X (Block \cup {"file"})
                    /\ f.lines \in Nat /\ f.indent \in Nat /\ f.value \in Nat
                    /\ f.values \subseteq 1..f.value

VARIABLES
    lines,   \* the values file
    form     \* its form

patchesVars == <<lines, form>>

Line == [indent: 0..form.indent, key: Block \cup Scalar \cup {"comment"},
         value: 0..form.value]

Least(S) == CHOOSE i \in S : \A j \in S : i <= j
Greatest(S) == CHOOSE i \in S : \A j \in S : j <= i

IsComment(l) == l.key = "comment"
Keyed(ls) == {i \in DOMAIN ls : ~IsComment(ls[i])}

-----------------------------------------------------------------------------
(* YAML *)

\* The block that line i is in, or 0.
Parent(ls, i) ==
    LET outer == {j \in Keyed(ls) : j < i /\ ls[j].indent < ls[i].indent} IN
    IF outer = {} THEN 0 ELSE Greatest(outer)

\* The keys that lead to a line.
Paths(ls) ==
    LET path[i \in Keyed(ls)] ==
          IF Parent(ls, i) = 0 THEN <<ls[i].key>>
          ELSE Append(path[Parent(ls, i)], ls[i].key)
    IN path

Mapping(ls) ==
    LET path == Paths(ls) IN
    [p \in {path[i] : i \in Keyed(ls)} |-> ls[CHOOSE i \in Keyed(ls) : path[i] = p].value]

\* A block opens every deeper line, siblings are indented alike, no key occurs twice.
WellFormed(ls) ==
    LET path == Paths(ls) IN
    /\ \A i, j \in Keyed(ls) : i # j => path[i] # path[j]
    /\ \A i \in Keyed(ls) :
         IF Parent(ls, i) = 0 THEN ls[i].indent = 0 ELSE ls[Parent(ls, i)].key \in Block
    /\ \A i, j \in Keyed(ls) : Parent(ls, i) = Parent(ls, j) => ls[i].indent = ls[j].indent

-----------------------------------------------------------------------------
(* Blocks *)

\* The lines that are deeper than line i, down to the first that is not.
Body(ls, i) ==
    {j \in Keyed(ls) : j > i /\ \A k \in Keyed(ls) : k > i /\ k <= j => ls[k].indent > ls[i].indent}

FirstChild(ls, i) == Least(Body(ls, i))

\* The direct children of block i with this key.
FirstChildOnly(ls, i, key) == {j \in Body(ls, i) : j = FirstChild(ls, i) /\ ls[j].key = key}
ChildrenWith(ls, i, key) ==
    {j \in Body(ls, i) : ls[j].indent = ls[FirstChild(ls, i)].indent /\ ls[j].key = key}

-----------------------------------------------------------------------------
(* GenerateImageRollback *)

\* Lines that tagLinePattern matches with a value.
TaggedLines(ls) == {j \in Keyed(ls) : ls[j].key = "tag" /\ ls[j].value # NoValue}

\* The tags of the image: blocks of the least indentation.
ChartTags(ls) ==
    LET images == {i \in Keyed(ls) : ls[i].key = "image"}
        shallow == {i \in images : \A k \in images : ls[i].indent <= ls[k].indent}
    IN {j \in TaggedLines(ls) : \E i \in shallow : j \in ChildrenWith(ls, i, "tag")}

ExtractImageTag(ls) == IF ChartTags(ls) = {} THEN NoValue ELSE ls[Least(ChartTags(ls))].value

ImageRollback(ls, tag) ==
    IF ChartTags(ls) = {} THEN ls ELSE [ls EXCEPT ![Least(ChartTags(ls))].value = tag]

-----------------------------------------------------------------------------
(* GenerateMemoryBump and GenerateCPUBump *)

\* Millicores, and Mi rounded up to 64.
bumpCPU(n) == n + n \div 2
bumpMemory(n) == LET half == n + n \div 2 IN half + ((64 - (half % 64)) % 64)

BumpedBy(ls, I, Bump(_)) ==
    [i \in DOMAIN ls |-> IF i \in I /\ ls[i].value # NoValue
                         THEN [ls[i] EXCEPT !.value = Bump(@)] ELSE ls[i]]

\* Every memory line, if the file has limits anywhere.
MemoryBump(ls) ==
    BumpedBy(ls, {i \in Keyed(ls) : ls[i].key = "memory"
                                    /\ \E k \in Keyed(ls) : ls[k].key = "limits"}, bumpMemory)

\* Line i comes after limits with nothing at the margin between, comments included.
RightAfterLimits(ls, i) == i > 1 /\ ls[i - 1].key = "limits"
InLimits(ls, i) ==
    \E k \in Keyed(ls) : /\ k < i /\ ls[k].key = "limits"
                         /\ \A j \in k + 1..i : ls[j].indent > 0

CPUBump(ls) ==
    BumpedBy(ls, {i \in Keyed(ls) : ls[i].key = "cpu" /\ InLimits(ls, i)}, bumpCPU)

-----------------------------------------------------------------------------
(* GenerateProbeFix *)

defaultProbeDelay == 30
bumpedDelay(current) == IF current + 15 < 30 THEN 30 ELSE current + 15

\* inProbes of findProbeBlocks when it comes to line i.
InProbes(ls, i) ==
    \E j \in Keyed(ls) :
      /\ j < i /\ ls[j].key = "probes"
      /\ \A k \in Keyed(ls) : k > j /\ k < i => ls[k].key # "probes"
      /\ i \in Body(ls, j)

\* findProbeBlocks for the kind "liveness".
ProbeBlocks(ls) ==
    {i \in Keyed(ls) : /\ \/ ls[i].key = "livenessProbe"
                          \/ ls[i].key = "liveness" /\ InProbes(ls, i)
                       /\ Body(ls, i) # {}}

Insert(ls, i, l) == SubSeq(ls, 1, i - 1) \o <<l>> \o SubSeq(ls, i, Len(ls))

\* The block whose key is at line i of `found' is patched in ls.
PatchBlock(found, ls, i) ==
    LET delays == ChildrenWith(found, i, "initialDelaySeconds")
        first == FirstChild(found, i)
    IN IF delays = {}
       THEN Insert(ls, first, [indent |-> found[first].indent, key |-> "initialDelaySeconds",
                               value |-> defaultProbeDelay])
       ELSE IF ls[Least(delays)].value = NoValue THEN ls
       ELSE [ls EXCEPT ![Least(delays)].value = bumpedDelay(@)]

\* The n-th block to patch.
TopDown(I, n) == CHOOSE i \in I : Cardinality({j \in I : j < i}) = n - 1
BottomUp(I, n) == CHOOSE i \in I : Cardinality({j \in I : j > i}) = n - 1

ProbeFix(ls) ==
    LET blocks == ProbeBlocks(ls)
        patched[n \in 0..Cardinality(blocks)] ==
          IF n = 0 THEN ls ELSE PatchBlock(ls, patched[n - 1], BottomUp(blocks, n))
    IN patched[Cardinality(blocks)]

-----------------------------------------------------------------------------
(* People and the agent *)

PatchesInit == lines = <<>> /\ form \in Form

ValuesOf(key) == IF key \in Scalar THEN form.values \cup {NoValue} ELSE {NoValue}

AddLine ==
    /\ Len(lines) < form.lines
    /\ \E indent \in 0..form.indent, place \in form.inside : \E value \in ValuesOf(place[1]) :
         LET more == Append(lines, [indent |-> indent, key |-> place[1], value |-> value])
             block == Parent(more, Len(more))
         IN /\ place[2] = IF block = 0 \/ place[1] = "comment" THEN "file" ELSE more[block].key
            /\ WellFormed(more)
            /\ lines' = more
    /\ UNCHANGED form

\* A patch that finds nothing to change is refused.
Patch(patched) ==
    /\ patched # lines
    /\ \A i \in DOMAIN patched : patched[i].value <= form.value
    /\ lines' = patched
    /\ UNCHANGED form

RollBack == \E tag \in form.values : Patch(ImageRollback(lines, tag))
BumpMemory == Patch(MemoryBump(lines))
BumpCPU == Patch(CPUBump(lines))
AdjustProbe == Patch(ProbeFix(lines))

PatchesNext == AddLine \/ RollBack \/ BumpMemory \/ BumpCPU \/ AdjustProbe

PatchesSpec == PatchesInit /\ [][PatchesNext]_patchesVars

-----------------------------------------------------------------------------
(* Properties *)

\* A patched file still is a file: no patch repeats a key or breaks the indentation,
\* with the comments, the depths and the orders people write.
PatchesTypeOK == lines \in Seq(Line) /\ WellFormed(lines) /\ form \in Form

Last(p) == p[Len(p)]
Under(p, key) == \E k \in 1..Len(p) - 1 : p[k] = key

\* What a rollback changes is image.tag, and what it wrote is what the next look back
\* starts from, whatever other images and tags the file has.
RollbackIsTheChartTag ==
    \A tag \in form.values :
      LET old == Mapping(lines)
          new == Mapping(ImageRollback(lines, tag))
      IN (<<"image", "tag">> \in DOMAIN old /\ old[<<"image", "tag">>] # NoValue) =>
           /\ new = [old EXCEPT ![<<"image", "tag">>] = tag]
           /\ ExtractImageTag(ImageRollback(lines, tag)) = tag

\* A liveness probe, of a chart or a manifest, that sets something.
IsProbe(paths, p) ==
    /\ Last(p) = "livenessProbe" \/ (Last(p) = "liveness" /\ Under(p, "probes"))
    /\ \E q \in paths : Len(q) > Len(p) /\ SubSeq(q, 1, Len(p)) = p

\* The probe fix raises the delay of every liveness probe and of nothing else, and sets
\* the default where there is none, although what it inserts moves the lines it found.
ProbeFixIsTheProbes ==
    LET old == Mapping(lines)
        new == Mapping(ProbeFix(lines))
        delays == {Append(p, "initialDelaySeconds") : p \in {q \in DOMAIN old : IsProbe(DOMAIN old, q)}}
    IN /\ DOMAIN new = DOMAIN old \cup delays
       /\ \A p \in DOMAIN new :
            new[p] = IF p \notin delays THEN old[p]
                     ELSE IF p \notin DOMAIN old THEN defaultProbeDelay
                     ELSE IF old[p] = NoValue THEN NoValue
                     ELSE bumpedDelay(old[p])

IsLimit(p, key) == Last(p) = key /\ Len(p) > 1 /\ p[Len(p) - 1] = "limits"

\* Every limit of the file is raised, in whatever order its lines come, unless a comment
\* at the margin follows limits; and no value but CPU and memory is touched.
LimitsAreBumped ==
    LET old == Mapping(lines)
        cpu == Mapping(CPUBump(lines))
        memory == Mapping(MemoryBump(lines))
        margin == \E i \in DOMAIN lines : IsComment(lines[i]) /\ lines[i].indent = 0
    IN \A p \in DOMAIN old :
         /\ (IsLimit(p, "memory") /\ old[p] # NoValue) => memory[p] = bumpMemory(old[p])
         /\ (IsLimit(p, "cpu") /\ old[p] # NoValue /\ ~margin) => cpu[p] = bumpCPU(old[p])
         /\ Last(p) # "memory" => memory[p] = old[p]
         /\ Last(p) # "cpu" => cpu[p] = old[p]
=============================================================================
