-------------------------- MODULE Patches_proofs --------------------------
(***************************************************************************)
(* Proofs about Patches, for files of any length, depth and order.  What   *)
(* the scans compute over the lines is shown by the least line that would  *)
(* be a counterexample.                                                    *)
(***************************************************************************)
EXTENDS Patches, TLAPS, FiniteSetTheorems, SequenceTheorems, WellFoundedInduction

Key == Block \cup Scalar \cup {"comment"}
Text == [indent: Nat, key: Key, value: Nat]
File == Seq(Text)

-----------------------------------------------------------------------------
(* The least and the greatest line *)

LEMMA LessThanOrders ==
    \E R : IsWellFoundedOn(R, Nat) /\ \A i, j \in Nat : j < i => <<j, i>> \in R
<1>1. \A i, j \in Nat : j < i => <<j, i>> \in OpToRel(<, Nat)
  BY Zenon DEF OpToRel
<1> QED BY <1>1, NatLessThanWellFounded, Zenon

LEMMA LeastExists ==
    ASSUME NEW S, S \subseteq Nat, S # {}
    PROVE  \E i \in S : \A j \in S : i <= j
<1>1. PICK R : IsWellFoundedOn(R, Nat) /\ \A i, j \in Nat : j < i => <<j, i>> \in R
  BY LessThanOrders
<1>2. PICK i \in S : \A j \in S : <<j, i>> \notin R
  BY <1>1, WFMin
<1>3. \A j \in S : ~(j < i)
  BY <1>1, <1>2
<1> QED BY <1>3

\* Induction over lines, with the set of those it is shown of in the place of a predicate.
LEMMA Induction ==
    ASSUME NEW K, K \subseteq Nat, NEW S,
           \A i \in K : (\A j \in K : j < i => j \in S) => i \in S
    PROVE  K \subseteq S
<1>1. ASSUME K \ S # {} PROVE FALSE
  <2>1. PICK i \in K \ S : \A j \in K \ S : i <= j
    <3>1. K \ S \subseteq Nat
      OBVIOUS
    <3> QED BY <1>1, <3>1, LeastExists
  <2>2. \A j \in K : j < i => j \in S
    BY <2>1
  <2> QED BY <2>1, <2>2
<1> QED BY <1>1

LEMMA LeastIs ==
    ASSUME NEW S, S \subseteq Nat, S # {}
    PROVE  Least(S) \in S /\ \A j \in S : Least(S) <= j
BY LeastExists DEF Least

LEMMA GreatestIs ==
    ASSUME NEW S, NEW n \in Nat, S \subseteq 1..n, S # {}
    PROVE  Greatest(S) \in S /\ \A j \in S : j <= Greatest(S)
<1> DEFINE T == {n - j : j \in S}
<1>1. \A j \in S : n - j \in Nat
  OBVIOUS
<1>2. PICK x \in T : \A y \in T : x <= y
  <2>1. T \subseteq Nat /\ T # {}
    BY <1>1
  <2> HIDE DEF T
  <2> QED BY <2>1, LeastExists
<1>3. PICK i \in S : x = n - i
  OBVIOUS
<1>4. \A j \in S : n - j \in T
  OBVIOUS
<1>5. \A j \in S : j <= i
  BY <1>2, <1>3, <1>4
<1> QED BY <1>5 DEF Greatest

-----------------------------------------------------------------------------
(* The block of a line *)

LEMMA FileLines ==
    ASSUME NEW ls \in File
    PROVE  /\ Len(ls) \in Nat /\ DOMAIN ls = 1..Len(ls)
           /\ \A i \in 1..Len(ls) : /\ ls[i] \in Text /\ ls[i].indent \in Nat
                                    /\ ls[i].key \in Key /\ ls[i].value \in Nat
           /\ Keyed(ls) \subseteq 1..Len(ls)
<1>1. ls \in Seq(Text)
  BY DEF File
<1>2. Len(ls) \in Nat /\ DOMAIN ls = 1..Len(ls)
  BY <1>1
<1>3. \A i \in 1..Len(ls) : ls[i] \in Text
  BY <1>1
<1>4. \A l \in Text : l.indent \in Nat /\ l.key \in Key /\ l.value \in Nat
  BY DEF Text
<1> QED BY <1>2, <1>3, <1>4 DEF Keyed

Outer(ls, i) == {j \in Keyed(ls) : j < i /\ ls[j].indent < ls[i].indent}

LEMMA ParentIs ==
    ASSUME NEW ls \in File, NEW i \in 1..Len(ls)
    PROVE  \/ /\ Parent(ls, i) = 0
              /\ \A j \in Keyed(ls) : j < i => ls[j].indent >= ls[i].indent
           \/ /\ Parent(ls, i) \in Keyed(ls)
              /\ Parent(ls, i) < i /\ ls[Parent(ls, i)].indent < ls[i].indent
              /\ \A j \in Keyed(ls) : j > Parent(ls, i) /\ j < i => ls[j].indent >= ls[i].indent
<1>1. /\ Len(ls) \in Nat /\ Outer(ls, i) \subseteq 1..Len(ls) /\ Keyed(ls) \subseteq 1..Len(ls)
      /\ \A j \in 1..Len(ls) : ls[j].indent \in Nat
  BY FileLines DEF Outer
<1>2. Parent(ls, i) = IF Outer(ls, i) = {} THEN 0 ELSE Greatest(Outer(ls, i))
  BY DEF Parent, Outer
<1>3. CASE Outer(ls, i) = {}
  BY <1>1, <1>2, <1>3 DEF Outer
<1>4. CASE Outer(ls, i) # {}
  <2>1. Parent(ls, i) \in Outer(ls, i) /\ \A j \in Outer(ls, i) : j <= Parent(ls, i)
    BY <1>1, <1>2, <1>4, GreatestIs
  <2> QED BY <1>1, <2>1 DEF Outer
<1> QED BY <1>3, <1>4

LEMMA ParentUnique ==
    ASSUME NEW ls \in File, NEW i \in 1..Len(ls), NEW p \in Keyed(ls),
           p < i, ls[p].indent < ls[i].indent,
           \A j \in Keyed(ls) : j > p /\ j < i => ls[j].indent >= ls[i].indent
    PROVE  Parent(ls, i) = p
<1>1. /\ Keyed(ls) \subseteq 1..Len(ls) /\ Len(ls) \in Nat
      /\ \A j \in 1..Len(ls) : ls[j].indent \in Nat
  BY FileLines
<1> QED BY <1>1, ParentIs

\* What opens a line is at least as deep as the last line that is less deep.
LEMMA ParentAfter ==
    ASSUME NEW ls \in File, NEW i \in 1..Len(ls), NEW a \in Keyed(ls),
           a < i, ls[a].indent < ls[i].indent
    PROVE  /\ Parent(ls, i) \in Keyed(ls) /\ a <= Parent(ls, i) /\ Parent(ls, i) < i
           /\ ls[Parent(ls, i)].indent < ls[i].indent
<1>1. /\ Keyed(ls) \subseteq 1..Len(ls) /\ Len(ls) \in Nat
      /\ \A j \in 1..Len(ls) : ls[j].indent \in Nat
  BY FileLines
<1> QED BY <1>1, ParentIs

-----------------------------------------------------------------------------
(* The keys that lead to a line *)

\* One step of the definition of Paths.
PathStep(ls, path, i) ==
    IF Parent(ls, i) = 0 THEN <<ls[i].key>> ELSE Append(path[Parent(ls, i)], ls[i].key)

PathsOf(ls, path, S) == path = [i \in S |-> PathStep(ls, path, i)]

LEMMA PathsExist ==
    ASSUME NEW ls \in File
    PROVE  \E path : PathsOf(ls, path, Keyed(ls))
<1> DEFINE K(n) == Keyed(ls) \cap 1..n
           S == {n \in 0..Len(ls) : \E path : PathsOf(ls, path, K(n))}
<1>1. Len(ls) \in Nat /\ Keyed(ls) \subseteq 1..Len(ls)
  BY FileLines
<1>2. ASSUME NEW n \in 0..Len(ls), \A m \in 0..Len(ls) : m < n => m \in S
      PROVE  n \in S
  <2>1. CASE n = 0
    <3>1. K(0) = {}
      BY <1>1
    <3>2. PathsOf(ls, [i \in {} |-> 0], K(0))
      BY <3>1 DEF PathsOf
    <3> QED BY <2>1, <3>2
  <2>2. CASE n # 0
    <3>1. n - 1 \in 0..Len(ls) /\ n - 1 < n
      BY <1>1, <2>2
    <3>2. n - 1 \in S
      BY <1>2, <3>1
    <3>3. PICK path : PathsOf(ls, path, K(n - 1))
      BY <3>2
    <3> DEFINE more == [i \in K(n) |-> PathStep(ls, path, i)]
    <3>4. ASSUME NEW i \in K(n) PROVE PathStep(ls, more, i) = PathStep(ls, path, i)
      <4>1. CASE Parent(ls, i) = 0
        BY <4>1 DEF PathStep
      <4>2. CASE Parent(ls, i) # 0
        <5>1. Parent(ls, i) \in K(n - 1) /\ Parent(ls, i) \in K(n)
          BY <1>1, <4>2, ParentIs
        <5>2. more[Parent(ls, i)] = path[Parent(ls, i)]
          BY <3>3, <5>1 DEF PathsOf
        <5> QED BY <5>2 DEF PathStep
      <4> QED BY <4>1, <4>2
    <3>5. PathsOf(ls, more, K(n))
      BY <3>4 DEF PathsOf
    <3> QED BY <3>5
  <2> QED BY <2>1, <2>2
<1>3. 0..Len(ls) \subseteq S
  <2>1. 0..Len(ls) \subseteq Nat
    BY <1>1
  <2> HIDE DEF S
  <2> QED BY <1>2, <2>1, Induction
<1>4. \E path : PathsOf(ls, path, K(Len(ls)))
  <2>1. Len(ls) \in 0..Len(ls)
    BY <1>1
  <2> QED BY <1>3, <2>1
<1>5. K(Len(ls)) = Keyed(ls)
  BY <1>1
<1> QED BY <1>4, <1>5

LEMMA PathsAre == ASSUME NEW ls \in File PROVE PathsOf(ls, Paths(ls), Keyed(ls))
BY PathsExist DEF Paths, PathsOf, PathStep

LEMMA AppendIs ==
    ASSUME NEW s \in Seq(Key), NEW k \in Key
    PROVE  /\ Append(s, k) \in Seq(Key) /\ Len(Append(s, k)) = Len(s) + 1 /\ Len(s) \in Nat
           /\ Append(s, k)[Len(s) + 1] = k /\ \A n \in 1..Len(s) : Append(s, k)[n] = s[n]
OBVIOUS

\* The keys that lead to a line: its own one, after those that lead to its block.
LEMMA PathAt ==
    ASSUME NEW ls \in File, NEW i \in Keyed(ls)
    PROVE  /\ Paths(ls)[i] \in Seq(Key)
           /\ \/ Parent(ls, i) = 0 /\ Paths(ls)[i] = <<ls[i].key>>
              \/ /\ Parent(ls, i) \in Keyed(ls) /\ Parent(ls, i) < i
                 /\ Paths(ls)[Parent(ls, i)] \in Seq(Key)
                 /\ Paths(ls)[i] = Append(Paths(ls)[Parent(ls, i)], ls[i].key)
<1> DEFINE S == {k \in Keyed(ls) : Paths(ls)[k] \in Seq(Key)}
<1>1. /\ Len(ls) \in Nat /\ Keyed(ls) \subseteq 1..Len(ls)
      /\ \A k \in 1..Len(ls) : ls[k].key \in Key
  BY FileLines
<1>2. \A k \in Keyed(ls) : Paths(ls)[k] = PathStep(ls, Paths(ls), k)
  BY PathsAre, Zenon DEF PathsOf
<1>3. \A k \in Keyed(ls) : Parent(ls, k) = 0 \/ (Parent(ls, k) \in Keyed(ls) /\ Parent(ls, k) < k)
  BY <1>1, ParentIs
<1>4. ASSUME NEW k \in Keyed(ls), \A j \in Keyed(ls) : j < k => j \in S
      PROVE  k \in S
  <2>1. CASE Parent(ls, k) = 0
    <3>1. Paths(ls)[k] = <<ls[k].key>>
      BY <1>2, <2>1 DEF PathStep
    <3>2. <<ls[k].key>> \in Seq(Key)
      BY <1>1
    <3> QED BY <3>1, <3>2
  <2>2. CASE Parent(ls, k) # 0
    <3>1. Parent(ls, k) \in S
      BY <1>3, <1>4, <2>2
    <3>2. Paths(ls)[k] = Append(Paths(ls)[Parent(ls, k)], ls[k].key)
      BY <1>2, <2>2 DEF PathStep
    <3>3. Paths(ls)[Parent(ls, k)] \in Seq(Key) /\ ls[k].key \in Key
      BY <1>1, <3>1
    <3>4. Paths(ls)[k] \in Seq(Key)
      BY <3>2, <3>3, AppendIs
    <3> QED BY <3>4
  <2> QED BY <2>1, <2>2
<1>5. Keyed(ls) \subseteq S
  <2> HIDE DEF S
  <2>1. Keyed(ls) \subseteq Nat
    BY <1>1
  <2> QED BY <1>4, <2>1, Induction
<1> QED BY <1>2, <1>3, <1>5 DEF PathStep

LEMMA PathLength ==
    ASSUME NEW ls \in File, NEW i \in Keyed(ls)
    PROVE  /\ Len(Paths(ls)[i]) \in Nat /\ Len(Paths(ls)[i]) >= 1
           /\ Last(Paths(ls)[i]) = ls[i].key
           /\ Len(Paths(ls)[i]) = 1 <=> Parent(ls, i) = 0
           /\ Parent(ls, i) # 0 =>
                /\ Len(Paths(ls)[i]) = Len(Paths(ls)[Parent(ls, i)]) + 1
                /\ Paths(ls)[i][Len(Paths(ls)[i]) - 1] = ls[Parent(ls, i)].key
<1> DEFINE L(k) == /\ Len(Paths(ls)[k]) \in Nat /\ Len(Paths(ls)[k]) >= 1
                   /\ Last(Paths(ls)[k]) = ls[k].key
<1>1. \A k \in Keyed(ls) : ls[k].key \in Key
  BY FileLines
<1>2. ASSUME NEW k \in Keyed(ls) PROVE L(k)
  <2>1. CASE Paths(ls)[k] = <<ls[k].key>>
    BY <1>1, <2>1 DEF Last
  <2>2. CASE Parent(ls, k) \in Keyed(ls) /\ Paths(ls)[Parent(ls, k)] \in Seq(Key)
             /\ Paths(ls)[k] = Append(Paths(ls)[Parent(ls, k)], ls[k].key)
    BY <1>1, <2>2, AppendIs DEF Last
  <2> QED BY <2>1, <2>2, PathAt
<1>3. CASE Parent(ls, i) = 0 /\ Paths(ls)[i] = <<ls[i].key>>
  BY <1>2, <1>3
<1>4. CASE /\ Parent(ls, i) \in Keyed(ls) /\ Paths(ls)[Parent(ls, i)] \in Seq(Key)
           /\ Paths(ls)[i] = Append(Paths(ls)[Parent(ls, i)], ls[i].key)
  <2>1. Parent(ls, i) # 0
    BY <1>4, FileLines
  <2>2. L(Parent(ls, i)) /\ L(i)
    BY <1>2, <1>4
  <2> QED BY <1>1, <1>4, <2>1, <2>2, AppendIs DEF Last
<1> QED BY <1>3, <1>4, PathAt

\* Files with the same indentation and keys down to line n.
Alike(a, b, n) ==
    /\ n \in Nat /\ n <= Len(a) /\ n <= Len(b)
    /\ \A i \in 1..n : a[i].indent = b[i].indent /\ a[i].key = b[i].key

LEMMA AlikeParents ==
    ASSUME NEW a \in File, NEW b \in File, NEW n, Alike(a, b, n), NEW i \in 1..n
    PROVE  (i \in Keyed(a) <=> i \in Keyed(b)) /\ Parent(a, i) = Parent(b, i)
<1>1. /\ n \in Nat /\ Len(a) \in Nat /\ Len(b) \in Nat /\ n <= Len(a) /\ n <= Len(b)
      /\ DOMAIN a = 1..Len(a) /\ DOMAIN b = 1..Len(b)
      /\ \A j \in 1..n : a[j].indent = b[j].indent /\ a[j].key = b[j].key
  BY FileLines DEF Alike
<1>2. \A j \in 1..n : j \in Keyed(a) <=> j \in Keyed(b)
  BY <1>1 DEF Keyed, IsComment
<1>3. Keyed(a) \subseteq 1..Len(a) /\ Keyed(b) \subseteq 1..Len(b)
  BY FileLines
<1>4. Outer(a, i) = Outer(b, i)
  <2>1. ASSUME NEW j, j \in Outer(a, i) \/ j \in Outer(b, i) PROVE j \in 1..n
    BY <1>1, <1>3, <2>1 DEF Outer
  <2>2. \A j \in 1..n : j \in Outer(a, i) <=> j \in Outer(b, i)
    BY <1>1, <1>2 DEF Outer
  <2> QED BY <2>1, <2>2
<1>5. Parent(a, i) = Parent(b, i)
  BY <1>4 DEF Parent, Outer
<1> QED BY <1>2, <1>5

LEMMA AlikePaths ==
    ASSUME NEW a \in File, NEW b \in File, NEW n, Alike(a, b, n)
    PROVE  \A i \in Keyed(a) \cap 1..n : Paths(a)[i] = Paths(b)[i]
<1> DEFINE S == {i \in 1..n : Paths(a)[i] = Paths(b)[i]}
           K == Keyed(a) \cap 1..n
<1>1. /\ n \in Nat /\ n <= Len(a) /\ n <= Len(b)
      /\ \A j \in 1..n : a[j].indent = b[j].indent /\ a[j].key = b[j].key
  BY DEF Alike
<1>2. ASSUME NEW i \in K, \A j \in K : j < i => j \in S
      PROVE  i \in S
  <2>1. i \in Keyed(a) /\ i \in Keyed(b) /\ Parent(a, i) = Parent(b, i)
    BY AlikeParents
  <2>2. Paths(a)[i] = PathStep(a, Paths(a), i) /\ Paths(b)[i] = PathStep(b, Paths(b), i)
    BY <2>1, PathsAre, Zenon DEF PathsOf
  <2>3. CASE Parent(a, i) = 0
    BY <1>1, <2>1, <2>2, <2>3 DEF PathStep
  <2>4. CASE Parent(a, i) # 0
    <3>1. Parent(a, i) \in K /\ Parent(a, i) < i
      BY <1>1, <2>1, <2>4, PathAt, FileLines
    <3>2. Paths(a)[Parent(a, i)] = Paths(b)[Parent(a, i)]
      BY <1>2, <3>1
    <3> QED BY <1>1, <2>1, <2>2, <2>4, <3>2 DEF PathStep
  <2> QED BY <2>3, <2>4
<1>3. K \subseteq S
  <2>1. K \subseteq Nat
    BY <1>1
  <2> HIDE DEF S, K
  <2> QED BY <1>2, <2>1, Induction
<1> QED BY <1>3

-----------------------------------------------------------------------------
(* What makes a file well-formed, block by block *)

DistinctSiblings(ls) ==
    \A i, j \in Keyed(ls) : Parent(ls, i) = Parent(ls, j) /\ ls[i].key = ls[j].key => i = j
Opened(ls) ==
    \A i \in Keyed(ls) :
      IF Parent(ls, i) = 0 THEN ls[i].indent = 0 ELSE ls[Parent(ls, i)].key \in Block
SiblingsAlign(ls) ==
    \A i, j \in Keyed(ls) : Parent(ls, i) = Parent(ls, j) => ls[i].indent = ls[j].indent

LEMMA SiblingPaths ==
    ASSUME NEW ls \in File, NEW i \in Keyed(ls), NEW j \in Keyed(ls),
           Parent(ls, i) = Parent(ls, j), ls[i].key = ls[j].key
    PROVE  Paths(ls)[i] = Paths(ls)[j]
<1>1. \A k \in Keyed(ls) : Paths(ls)[k] = PathStep(ls, Paths(ls), k)
  BY PathsAre, Zenon DEF PathsOf
<1> QED BY <1>1 DEF PathStep

\* Where no key occurs twice in a block, no two lines have the same keys leading to them.
LEMMA DistinctPaths ==
    ASSUME NEW ls \in File, DistinctSiblings(ls)
    PROVE  \A i, j \in Keyed(ls) : Paths(ls)[i] = Paths(ls)[j] => i = j
<1> DEFINE S == {i \in Keyed(ls) : \A j \in Keyed(ls) : Paths(ls)[i] = Paths(ls)[j] => i = j}
<1>1. ASSUME NEW i \in Keyed(ls), \A k \in Keyed(ls) : k < i => k \in S,
             NEW j \in Keyed(ls), Paths(ls)[i] = Paths(ls)[j]
      PROVE  i = j
  <2>1. ls[i].key = ls[j].key /\ (Parent(ls, i) = 0 <=> Parent(ls, j) = 0)
    BY <1>1, PathLength
  <2>2. CASE Parent(ls, i) = 0
    BY <2>1, <2>2 DEF DistinctSiblings
  <2>3. CASE Parent(ls, i) # 0
    <3>1. /\ Parent(ls, i) \in Keyed(ls) /\ Parent(ls, i) < i
          /\ Paths(ls)[Parent(ls, i)] \in Seq(Key)
          /\ Paths(ls)[i] = Append(Paths(ls)[Parent(ls, i)], ls[i].key)
      BY <2>3, PathAt
    <3>2. /\ Parent(ls, j) \in Keyed(ls)
          /\ Paths(ls)[Parent(ls, j)] \in Seq(Key)
          /\ Paths(ls)[j] = Append(Paths(ls)[Parent(ls, j)], ls[j].key)
      BY <2>1, <2>3, PathAt
    <3>3. ls[i].key \in Key
      BY FileLines
    <3>4. Paths(ls)[Parent(ls, i)] = Paths(ls)[Parent(ls, j)]
      <4> DEFINE r == Paths(ls)[Parent(ls, i)]
                 t == Paths(ls)[Parent(ls, j)]
                 k == ls[i].key
      <4>1. r \in Seq(Key) /\ t \in Seq(Key) /\ k \in Key /\ Append(r, k) = Append(t, k)
        BY <1>1, <2>1, <3>1, <3>2, <3>3
      <4> HIDE DEF r, t, k
      <4>2. r = t
        BY <4>1, AppendInjective
      <4> QED BY <4>2 DEF r, t
    <3>5. Parent(ls, i) = Parent(ls, j)
      BY <1>1, <3>1, <3>2, <3>4
    <3> QED BY <2>1, <3>5 DEF DistinctSiblings
  <2> QED BY <2>2, <2>3
<1>2. Keyed(ls) \subseteq S
  <2>1. Keyed(ls) \subseteq Nat
    BY FileLines
  <2>2. \A i \in Keyed(ls) : (\A k \in Keyed(ls) : k < i => k \in S) => i \in S
    BY <1>1
  <2> HIDE DEF S
  <2> QED BY <2>1, <2>2, Induction
<1> QED BY <1>2

LEMMA WellFormedIs ==
    ASSUME NEW ls \in File
    PROVE  WellFormed(ls) <=> DistinctSiblings(ls) /\ Opened(ls) /\ SiblingsAlign(ls)
<1>1. WellFormed(ls) <=> /\ \A i, j \in Keyed(ls) : i # j => Paths(ls)[i] # Paths(ls)[j]
                         /\ Opened(ls) /\ SiblingsAlign(ls)
  BY DEF WellFormed, Opened, SiblingsAlign
<1>2. DistinctSiblings(ls) <=> \A i, j \in Keyed(ls) : i # j => Paths(ls)[i] # Paths(ls)[j]
  BY DistinctPaths, SiblingPaths DEF DistinctSiblings
<1> QED BY <1>1, <1>2

LEMMA OwnPath ==
    ASSUME NEW ls \in File, WellFormed(ls), NEW i \in Keyed(ls), NEW j \in Keyed(ls),
           Paths(ls)[i] = Paths(ls)[j]
    PROVE  i = j
BY WellFormedIs, DistinctPaths

\* A well-formed file maps the keys that lead to a line to the value of the line.
LEMMA MappingAt ==
    ASSUME NEW ls \in File, WellFormed(ls)
    PROVE  /\ DOMAIN Mapping(ls) = {Paths(ls)[i] : i \in Keyed(ls)}
           /\ \A i \in Keyed(ls) : Mapping(ls)[Paths(ls)[i]] = ls[i].value
<1> DEFINE D == {Paths(ls)[i] : i \in Keyed(ls)}
           Line_(p) == CHOOSE i \in Keyed(ls) : Paths(ls)[i] = p
<1>1. Mapping(ls) = [p \in D |-> ls[Line_(p)].value]
  BY DEF Mapping
<1>2. ASSUME NEW i \in Keyed(ls) PROVE Line_(Paths(ls)[i]) = i
  <2>1. \E k \in Keyed(ls) : Paths(ls)[k] = Paths(ls)[i]
    OBVIOUS
  <2> QED BY <2>1, OwnPath
<1>3. DOMAIN Mapping(ls) = D /\ \A p \in D : Mapping(ls)[p] = ls[Line_(p)].value
  BY <1>1
<1> HIDE DEF Line_
<1> QED BY <1>2, <1>3

-----------------------------------------------------------------------------
(* Patches that change values only *)

SameShape(a, b) == Len(b) = Len(a) /\ Alike(a, b, Len(a))

LEMMA ShapeKept ==
    ASSUME NEW a \in File, NEW b \in File, SameShape(a, b), WellFormed(a)
    PROVE  /\ Keyed(b) = Keyed(a) /\ WellFormed(b)
           /\ \A i \in Keyed(a) : Parent(b, i) = Parent(a, i) /\ Paths(b)[i] = Paths(a)[i]
           /\ DOMAIN Mapping(b) = DOMAIN Mapping(a)
           /\ \A i \in Keyed(a) : Mapping(b)[Paths(a)[i]] = b[i].value
<1>1. /\ Len(a) \in Nat /\ Len(b) = Len(a) /\ Alike(a, b, Len(a))
      /\ Keyed(a) \subseteq 1..Len(a) /\ Keyed(b) \subseteq 1..Len(a)
  BY FileLines DEF SameShape
<1>2. \A i \in 1..Len(a) : a[i].indent = b[i].indent /\ a[i].key = b[i].key
  BY <1>1 DEF Alike
<1>3. \A i \in 1..Len(a) : (i \in Keyed(a) <=> i \in Keyed(b)) /\ Parent(a, i) = Parent(b, i)
  BY <1>1, AlikeParents
<1>4. Keyed(a) = Keyed(b)
  BY <1>1, <1>3
<1>5. \A i \in Keyed(a) : Parent(a, i) = Parent(b, i) /\ Paths(a)[i] = Paths(b)[i]
  BY <1>1, <1>3, AlikePaths
<1>6. \A i \in Keyed(a) : Parent(a, i) # 0 => Parent(a, i) \in Keyed(a)
  BY PathAt
<1>7. DistinctSiblings(a) /\ Opened(a) /\ SiblingsAlign(a)
  BY WellFormedIs
<1>8. DistinctSiblings(b)
  BY <1>1, <1>2, <1>4, <1>5, <1>7 DEF DistinctSiblings
<1>9. Opened(b)
  BY <1>1, <1>2, <1>4, <1>5, <1>6, <1>7 DEF Opened
<1>10. SiblingsAlign(b)
  BY <1>1, <1>2, <1>4, <1>5, <1>7 DEF SiblingsAlign
<1>11. WellFormed(b)
  BY <1>8, <1>9, <1>10, WellFormedIs
<1>12. DOMAIN Mapping(b) = DOMAIN Mapping(a)
  <2>1. {Paths(b)[i] : i \in Keyed(b)} = {Paths(a)[i] : i \in Keyed(a)}
    BY <1>4, <1>5
  <2> QED BY <1>11, <2>1, MappingAt
<1>13. \A i \in Keyed(a) : Mapping(b)[Paths(a)[i]] = b[i].value
  BY <1>4, <1>5, <1>11, MappingAt
<1> QED BY <1>4, <1>5, <1>11, <1>12, <1>13

LEMMA TextSeq ==
    ASSUME NEW n \in Nat, NEW f \in [1..n -> Text]
    PROVE  f \in File /\ Len(f) = n
BY DEF File

LEMMA TextValue ==
    ASSUME NEW l \in Text, NEW v \in Nat
    PROVE  /\ [l EXCEPT !.value = v] \in Text
           /\ [l EXCEPT !.value = v].indent = l.indent /\ [l EXCEPT !.value = v].key = l.key
           /\ [l EXCEPT !.value = v].value = v
BY DEF Text

\* The file with the values of v.
Revalued(ls, v) == [i \in DOMAIN ls |-> [ls[i] EXCEPT !.value = v[i]]]

LEMMA RevaluedIs ==
    ASSUME NEW ls \in File, NEW v \in [1..Len(ls) -> Nat]
    PROVE  /\ Revalued(ls, v) \in File /\ SameShape(ls, Revalued(ls, v))
           /\ \A i \in 1..Len(ls) : Revalued(ls, v)[i] = [ls[i] EXCEPT !.value = v[i]]
           /\ \A i \in 1..Len(ls) : Revalued(ls, v)[i].value = v[i]
<1>1. Len(ls) \in Nat /\ DOMAIN ls = 1..Len(ls) /\ \A i \in 1..Len(ls) : ls[i] \in Text
  BY FileLines
<1>2. \A i \in 1..Len(ls) : Revalued(ls, v)[i] = [ls[i] EXCEPT !.value = v[i]]
  BY <1>1 DEF Revalued
<1>3. \A i \in 1..Len(ls) :
        /\ Revalued(ls, v)[i] \in Text
        /\ Revalued(ls, v)[i].indent = ls[i].indent /\ Revalued(ls, v)[i].key = ls[i].key
        /\ Revalued(ls, v)[i].value = v[i]
  <2> SUFFICES ASSUME NEW i \in 1..Len(ls)
               PROVE  /\ Revalued(ls, v)[i] \in Text
                      /\ Revalued(ls, v)[i].indent = ls[i].indent
                      /\ Revalued(ls, v)[i].key = ls[i].key
                      /\ Revalued(ls, v)[i].value = v[i]
    OBVIOUS
  <2> DEFINE l == ls[i]
             x == v[i]
  <2>1. l \in Text /\ x \in Nat
    BY <1>1
  <2>2. Revalued(ls, v)[i] = [l EXCEPT !.value = x]
    BY <1>2
  <2> HIDE DEF l, x
  <2>3. /\ Revalued(ls, v)[i] \in Text
        /\ Revalued(ls, v)[i].indent = l.indent /\ Revalued(ls, v)[i].key = l.key
        /\ Revalued(ls, v)[i].value = x
    BY <2>1, <2>2, TextValue
  <2> QED BY <2>3 DEF l, x
<1>4. Revalued(ls, v) \in [1..Len(ls) -> Text]
  BY <1>1, <1>3 DEF Revalued
<1>5. Revalued(ls, v) \in File /\ Len(Revalued(ls, v)) = Len(ls)
  BY <1>1, <1>4, TextSeq
<1> QED BY <1>1, <1>2, <1>3, <1>5 DEF SameShape, Alike

LEMMA KeptValue == ASSUME NEW l \in Text PROVE [l EXCEPT !.value = l.value] = l
BY DEF Text

LEMMA BumpsAreNat ==
    ASSUME NEW n \in Nat
    PROVE  bumpCPU(n) \in Nat /\ bumpMemory(n) \in Nat /\ bumpedDelay(n) \in Nat
<1>1. bumpCPU(n) \in Nat
  BY DEF bumpCPU
<1>2. \A h \in Nat : (64 - (h % 64)) % 64 \in Nat
  OBVIOUS
<1>3. bumpMemory(n) \in Nat
  BY <1>1, <1>2 DEF bumpMemory, bumpCPU
<1> QED BY <1>1, <1>3 DEF bumpedDelay

CPULimits(ls) == {i \in Keyed(ls) : ls[i].key = "cpu" /\ InLimits(ls, i)}
MemoryLines(ls) ==
    {i \in Keyed(ls) : ls[i].key = "memory" /\ \E k \in Keyed(ls) : ls[k].key = "limits"}

LEMMA CPUBumpIs ==
    ASSUME NEW ls \in File
    PROVE  /\ CPUBump(ls) \in File /\ SameShape(ls, CPUBump(ls))
           /\ \A i \in 1..Len(ls) :
                CPUBump(ls)[i].value = IF i \in CPULimits(ls) /\ ls[i].value # NoValue
                                       THEN bumpCPU(ls[i].value) ELSE ls[i].value
<1> DEFINE v == [i \in 1..Len(ls) |-> IF i \in CPULimits(ls) /\ ls[i].value # NoValue
                                      THEN bumpCPU(ls[i].value) ELSE ls[i].value]
<1>1. DOMAIN ls = 1..Len(ls) /\ \A i \in 1..Len(ls) : ls[i] \in Text /\ ls[i].value \in Nat
  BY FileLines
<1>2. v \in [1..Len(ls) -> Nat]
  BY <1>1, BumpsAreNat
<1>3. CPUBump(ls) = Revalued(ls, v)
  BY <1>1, KeptValue DEF CPUBump, BumpedBy, Revalued, CPULimits
<1> QED BY <1>2, <1>3, RevaluedIs

LEMMA MemoryBumpIs ==
    ASSUME NEW ls \in File
    PROVE  /\ MemoryBump(ls) \in File /\ SameShape(ls, MemoryBump(ls))
           /\ \A i \in 1..Len(ls) :
                MemoryBump(ls)[i].value = IF i \in MemoryLines(ls) /\ ls[i].value # NoValue
                                          THEN bumpMemory(ls[i].value) ELSE ls[i].value
<1> DEFINE v == [i \in 1..Len(ls) |-> IF i \in MemoryLines(ls) /\ ls[i].value # NoValue
                                      THEN bumpMemory(ls[i].value) ELSE ls[i].value]
<1>1. DOMAIN ls = 1..Len(ls) /\ \A i \in 1..Len(ls) : ls[i] \in Text /\ ls[i].value \in Nat
  BY FileLines
<1>2. v \in [1..Len(ls) -> Nat]
  BY <1>1, BumpsAreNat
<1>3. MemoryBump(ls) = Revalued(ls, v)
  BY <1>1, KeptValue DEF MemoryBump, BumpedBy, Revalued, MemoryLines
<1> QED BY <1>2, <1>3, RevaluedIs

\* An update of one value.
LEMMA SetValueIs ==
    ASSUME NEW ls \in File, NEW d \in 1..Len(ls), NEW n \in Nat
    PROVE  LET new == [ls EXCEPT ![d].value = n]
           IN  /\ new \in File /\ SameShape(ls, new)
               /\ \A i \in 1..Len(ls) : new[i].value = IF i = d THEN n ELSE ls[i].value
               /\ \A i \in 1..Len(ls) : i # d => new[i] = ls[i]
<1> DEFINE v == [i \in 1..Len(ls) |-> IF i = d THEN n ELSE ls[i].value]
<1>1. DOMAIN ls = 1..Len(ls) /\ \A i \in 1..Len(ls) : ls[i] \in Text /\ ls[i].value \in Nat
  BY FileLines
<1>2. v \in [1..Len(ls) -> Nat]
  BY <1>1
<1>3. [ls EXCEPT ![d].value = n] = Revalued(ls, v)
  BY <1>1, KeptValue DEF Revalued
<1>4. \A i \in 1..Len(ls) : v[i] = IF i = d THEN n ELSE ls[i].value
  OBVIOUS
<1> HIDE DEF v
<1> DEFINE new == Revalued(ls, v)
<1>5. /\ new \in File /\ SameShape(ls, new)
      /\ \A i \in 1..Len(ls) : new[i] = [ls[i] EXCEPT !.value = v[i]]
      /\ \A i \in 1..Len(ls) : new[i].value = v[i]
  BY <1>2, RevaluedIs
<1> HIDE DEF new
<1>6. \A i \in 1..Len(ls) : i # d => new[i] = ls[i]
  BY <1>1, <1>4, <1>5, KeptValue
<1>7. \A i \in 1..Len(ls) : new[i].value = IF i = d THEN n ELSE ls[i].value
  BY <1>4, <1>5
<1>8. [ls EXCEPT ![d].value = n] = new
  BY <1>3 DEF new
<1> QED BY <1>5, <1>6, <1>7, <1>8

-----------------------------------------------------------------------------
(* The bumps *)

LEMMA LimitHasLimits ==
    ASSUME NEW ls \in File, NEW i \in Keyed(ls), NEW key, IsLimit(Paths(ls)[i], key)
    PROVE  /\ ls[i].key = key /\ Parent(ls, i) \in Keyed(ls) /\ Parent(ls, i) < i
           /\ ls[Parent(ls, i)].key = "limits"
<1>1. Last(Paths(ls)[i]) = key /\ Len(Paths(ls)[i]) > 1
      /\ Paths(ls)[i][Len(Paths(ls)[i]) - 1] = "limits"
  BY DEF IsLimit
<1>2. Len(Paths(ls)[i]) # 1
  <2> DEFINE n == Len(Paths(ls)[i])
  <2>1. n \in Nat /\ n > 1
    BY <1>1, PathLength
  <2> HIDE DEF n
  <2>2. n # 1
    BY <2>1
  <2> QED BY <2>2 DEF n
<1>3. Parent(ls, i) # 0 /\ ls[i].key = key
  BY <1>1, <1>2, PathLength
<1>4. ls[Parent(ls, i)].key = "limits"
  BY <1>1, <1>3, PathLength
<1> QED BY <1>3, <1>4, PathAt

\* No line between a limit and its limits is at the margin, unless it is a comment.
LEMMA LimitIsInLimits ==
    ASSUME NEW ls \in File, NEW i \in Keyed(ls), IsLimit(Paths(ls)[i], "cpu"),
           ~\E j \in DOMAIN ls : IsComment(ls[j]) /\ ls[j].indent = 0
    PROVE  i \in CPULimits(ls)
<1> DEFINE k == Parent(ls, i)
<1>1. ls[i].key = "cpu" /\ k \in Keyed(ls) /\ k < i /\ ls[k].key = "limits"
  BY LimitHasLimits
<1>2. /\ Keyed(ls) \subseteq 1..Len(ls) /\ DOMAIN ls = 1..Len(ls) /\ Len(ls) \in Nat
      /\ \A j \in 1..Len(ls) : ls[j].indent \in Nat
  BY FileLines
<1>3. /\ ls[k].indent < ls[i].indent
      /\ \A j \in Keyed(ls) : j > k /\ j < i => ls[j].indent >= ls[i].indent
  BY <1>1, <1>2, ParentIs
<1> HIDE DEF k
<1>4. ASSUME NEW j \in k + 1..i PROVE ls[j].indent > 0
  <2>1. j \in DOMAIN ls /\ ls[j].indent \in Nat /\ ls[i].indent \in Nat /\ ls[k].indent \in Nat
    BY <1>1, <1>2
  <2>2. CASE j \in Keyed(ls)
    BY <1>1, <1>2, <1>3, <2>1, <2>2
  <2>3. CASE j \notin Keyed(ls)
    BY <2>1, <2>3 DEF Keyed
  <2> QED BY <2>2, <2>3
<1>5. InLimits(ls, i)
  BY <1>1, <1>4 DEF InLimits
<1> QED BY <1>1, <1>5 DEF CPULimits

LEMMA LimitsBumped ==
    ASSUME lines \in File, WellFormed(lines)
    PROVE  LimitsAreBumped
<1> DEFINE old == Mapping(lines)
           cpu == Mapping(CPUBump(lines))
           memory == Mapping(MemoryBump(lines))
           margin == \E i \in DOMAIN lines : IsComment(lines[i]) /\ lines[i].indent = 0
<1> SUFFICES ASSUME NEW p \in DOMAIN old
             PROVE  /\ IsLimit(p, "memory") /\ old[p] # NoValue => memory[p] = bumpMemory(old[p])
                    /\ IsLimit(p, "cpu") /\ old[p] # NoValue /\ ~margin => cpu[p] = bumpCPU(old[p])
                    /\ Last(p) # "memory" => memory[p] = old[p]
                    /\ Last(p) # "cpu" => cpu[p] = old[p]
  BY DEF LimitsAreBumped
<1>1. PICK i \in Keyed(lines) : p = Paths(lines)[i]
  <2>1. p \in {Paths(lines)[i] : i \in Keyed(lines)}
    BY MappingAt
  <2> QED BY <2>1
<1>2. i \in 1..Len(lines) /\ Last(p) = lines[i].key
  BY <1>1, FileLines, PathLength
<1>3. old[p] = lines[i].value
  BY <1>1, MappingAt
<1>4. cpu[p] = CPUBump(lines)[i].value
  BY <1>1, CPUBumpIs, ShapeKept
<1>5. memory[p] = MemoryBump(lines)[i].value
  BY <1>1, MemoryBumpIs, ShapeKept
<1>6. cpu[p] = IF i \in CPULimits(lines) /\ old[p] # NoValue THEN bumpCPU(old[p]) ELSE old[p]
  BY <1>2, <1>3, <1>4, CPUBumpIs
<1>7. memory[p] = IF i \in MemoryLines(lines) /\ old[p] # NoValue THEN bumpMemory(old[p]) ELSE old[p]
  BY <1>2, <1>3, <1>5, MemoryBumpIs
<1>8. IsLimit(p, "memory") => i \in MemoryLines(lines)
  BY <1>1, LimitHasLimits DEF MemoryLines
<1>9. IsLimit(p, "cpu") /\ ~margin => i \in CPULimits(lines)
  BY <1>1, LimitIsInLimits
<1>10. (i \in CPULimits(lines) => Last(p) = "cpu") /\ (i \in MemoryLines(lines) => Last(p) = "memory")
  BY <1>2 DEF CPULimits, MemoryLines
<1> HIDE DEF old, cpu, memory, margin
<1> QED BY <1>6, <1>7, <1>8, <1>9, <1>10

-----------------------------------------------------------------------------
(* The lines of a block *)

LEMMA BodyIs ==
    ASSUME NEW ls \in File, NEW b \in Keyed(ls), NEW j \in Body(ls, b)
    PROVE  /\ j \in Keyed(ls) /\ b < j /\ ls[b].indent < ls[j].indent
           /\ \A k \in Keyed(ls) : b < k /\ k <= j => k \in Body(ls, b)
<1>1. Keyed(ls) \subseteq 1..Len(ls) /\ Len(ls) \in Nat /\ \A k \in 1..Len(ls) : ls[k].indent \in Nat
  BY FileLines
<1> QED BY <1>1 DEF Body

\* A line belongs to the block that opens it, and to those that one belongs to.
LEMMA ParentsBody ==
    ASSUME NEW ls \in File, NEW i \in Keyed(ls), Parent(ls, i) # 0
    PROVE  /\ Parent(ls, i) \in Keyed(ls) /\ i \in Body(ls, Parent(ls, i))
           /\ \A b \in Keyed(ls) : Parent(ls, i) \in Body(ls, b) => i \in Body(ls, b)
<1> DEFINE q == Parent(ls, i)
<1>1. /\ Keyed(ls) \subseteq 1..Len(ls) /\ Len(ls) \in Nat
      /\ \A k \in 1..Len(ls) : ls[k].indent \in Nat
  BY FileLines
<1>2. /\ q \in Keyed(ls) /\ q < i /\ ls[q].indent < ls[i].indent
      /\ \A k \in Keyed(ls) : k > q /\ k < i => ls[k].indent >= ls[i].indent
  BY <1>1, ParentIs
<1> HIDE DEF q
<1>3. i \in Body(ls, q)
  BY <1>1, <1>2 DEF Body
<1>4. ASSUME NEW b \in Keyed(ls), q \in Body(ls, b) PROVE i \in Body(ls, b)
  <2>1. /\ q > b /\ ls[q].indent > ls[b].indent
        /\ \A k \in Keyed(ls) : k > b /\ k <= q => ls[k].indent > ls[b].indent
    BY <1>4, BodyIs DEF Body
  <2>2. ASSUME NEW k \in Keyed(ls), k > b, k <= i PROVE ls[k].indent > ls[b].indent
    BY <1>1, <1>2, <2>1, <2>2
  <2> QED BY <1>1, <1>2, <2>1, <2>2 DEF Body
<1> QED BY <1>2, <1>3, <1>4 DEF q

\* What belongs to a block is opened by it or by what belongs to it.
LEMMA BodysParent ==
    ASSUME NEW ls \in File, NEW b \in Keyed(ls), NEW j \in Body(ls, b)
    PROVE  Parent(ls, j) = b \/ Parent(ls, j) \in Body(ls, b)
<1>1. j \in Keyed(ls) /\ b < j /\ ls[b].indent < ls[j].indent
      /\ \A k \in Keyed(ls) : b < k /\ k <= j => k \in Body(ls, b)
  BY BodyIs
<1>2. /\ Parent(ls, j) \in Keyed(ls) /\ b <= Parent(ls, j) /\ Parent(ls, j) < j
  BY <1>1, ParentAfter, FileLines
<1> QED BY <1>1, <1>2, FileLines

\* The first line of a block: it is opened by the block, and nothing comes between.
LEMMA FirstChildIs ==
    ASSUME NEW ls \in File, NEW b \in Keyed(ls), Body(ls, b) # {}
    PROVE  /\ FirstChild(ls, b) \in Body(ls, b) /\ FirstChild(ls, b) \in Keyed(ls)
           /\ b < FirstChild(ls, b) /\ ls[b].indent < ls[FirstChild(ls, b)].indent
           /\ Parent(ls, FirstChild(ls, b)) = b
           /\ \A k \in Keyed(ls) : b < k => FirstChild(ls, b) <= k
<1> DEFINE c == FirstChild(ls, b)
<1>1. Body(ls, b) \subseteq Nat /\ Keyed(ls) \subseteq Nat
  BY FileLines DEF Body
<1>2. c \in Body(ls, b) /\ \A j \in Body(ls, b) : c <= j
  BY <1>1, LeastIs DEF FirstChild
<1> HIDE DEF c
<1>3. /\ c \in Keyed(ls) /\ b < c /\ ls[b].indent < ls[c].indent
      /\ \A k \in Keyed(ls) : b < k /\ k <= c => k \in Body(ls, b)
  BY <1>2, BodyIs
<1>4. \A k \in Keyed(ls) : b < k => c <= k
  BY <1>1, <1>2, <1>3
<1>5. Parent(ls, c) = b
  BY <1>1, <1>3, <1>4, ParentUnique, FileLines
<1> QED BY <1>2, <1>3, <1>4, <1>5 DEF c

\* In a well-formed file the lines of a block are as deep as the first one, or deeper, and
\* those as deep as it are the ones the block opens.
LEMMA Children ==
    ASSUME NEW ls \in File, WellFormed(ls), NEW b \in Keyed(ls)
    PROVE  \A j \in Keyed(ls) :
             Parent(ls, j) = b <=>
               j \in Body(ls, b) /\ ls[j].indent = ls[FirstChild(ls, b)].indent
<1> DEFINE c == FirstChild(ls, b)
<1>1. /\ Keyed(ls) \subseteq 1..Len(ls) /\ Len(ls) \in Nat
      /\ \A k \in 1..Len(ls) : ls[k].indent \in Nat
  BY FileLines
<1>2. SiblingsAlign(ls)
  BY WellFormedIs
<1>3. ASSUME NEW j \in Keyed(ls), Parent(ls, j) = b
      PROVE  j \in Body(ls, b) /\ ls[j].indent = ls[c].indent
  <2>1. j \in Body(ls, b)
    BY <1>1, <1>3, ParentsBody
  <2>2. Parent(ls, c) = b /\ c \in Keyed(ls)
    BY <2>1, FirstChildIs
  <2> QED BY <1>2, <1>3, <2>1, <2>2 DEF SiblingsAlign
<1>4. ASSUME Body(ls, b) # {} PROVE \A j \in Body(ls, b) : ls[j].indent >= ls[c].indent
  <2> DEFINE S == {j \in Body(ls, b) : ls[j].indent >= ls[c].indent}
  <2>1. ASSUME NEW j \in Body(ls, b), \A k \in Body(ls, b) : k < j => k \in S
        PROVE  j \in S
    <3>1. j \in Keyed(ls)
      BY BodyIs
    <3>2. CASE Parent(ls, j) = b
      BY <1>1, <1>3, <3>1, <3>2
    <3>3. CASE Parent(ls, j) \in Body(ls, b)
      <4>1. Parent(ls, j) < j /\ ls[Parent(ls, j)].indent < ls[j].indent /\ Parent(ls, j) \in Keyed(ls)
        BY <1>1, <3>1, <3>3, ParentIs, BodyIs
      <4>2. ls[Parent(ls, j)].indent >= ls[c].indent
        BY <2>1, <3>3, <4>1
      <4>3. c \in Keyed(ls)
        BY <1>4, FirstChildIs
      <4> QED BY <1>1, <3>1, <4>1, <4>2, <4>3
    <3> QED BY <3>2, <3>3, BodysParent
  <2>2. Body(ls, b) \subseteq S
    <3>1. Body(ls, b) \subseteq Nat
      BY <1>1 DEF Body
    <3> HIDE DEF S
    <3> QED BY <2>1, <3>1, Induction
  <2> QED BY <2>2
<1>5. ASSUME NEW j \in Keyed(ls), j \in Body(ls, b), ls[j].indent = ls[c].indent
      PROVE  Parent(ls, j) = b
  <2>1. SUFFICES ASSUME Parent(ls, j) \in Body(ls, b) PROVE FALSE
    BY <1>5, BodysParent
  <2>2. ls[Parent(ls, j)].indent >= ls[c].indent
    BY <1>4, <2>1
  <2>3. Parent(ls, j) \in Keyed(ls) /\ ls[Parent(ls, j)].indent < ls[j].indent
    BY <1>1, <2>1, ParentIs, BodyIs
  <2> QED BY <1>1, <1>5, <2>2, <2>3
<1> QED BY <1>3, <1>5

LEMMA ChildrenWithIs ==
    ASSUME NEW ls \in File, WellFormed(ls), NEW b \in Keyed(ls), NEW key
    PROVE  ChildrenWith(ls, b, key) = {j \in Keyed(ls) : Parent(ls, j) = b /\ ls[j].key = key}
<1>1. Body(ls, b) \subseteq Keyed(ls)
  BY DEF Body
<1> QED BY <1>1, Children DEF ChildrenWith

-----------------------------------------------------------------------------
(* The rollback *)

LEMMA ChartTagIs ==
    ASSUME NEW ls \in File, WellFormed(ls), NEW i \in Keyed(ls),
           Paths(ls)[i] = <<"image", "tag">>, ls[i].value # NoValue
    PROVE  ChartTags(ls) = {i}
<1> DEFINE q == Parent(ls, i)
           images == {k \in Keyed(ls) : ls[k].key = "image"}
           shallow == {k \in images : \A m \in images : ls[k].indent <= ls[m].indent}
<1>1. Keyed(ls) \subseteq 1..Len(ls) /\ \A k \in 1..Len(ls) : ls[k].indent \in Nat
  BY FileLines
<1>2. Len(Paths(ls)[i]) = 2 /\ Last(Paths(ls)[i]) = "tag" /\ Paths(ls)[i][1] = "image"
  BY DEF Last
<1>3. /\ ls[i].key = "tag" /\ q # 0 /\ q \in Keyed(ls) /\ ls[q].key = "image"
      /\ Len(Paths(ls)[q]) = 1
  <2>1. ls[i].key = "tag" /\ q # 0
    BY <1>2, PathLength
  <2>2. q \in Keyed(ls)
    BY <2>1, ParentsBody
  <2>3. Len(Paths(ls)[q]) = 1 /\ Paths(ls)[i][1] = ls[q].key
    <3>1. Len(Paths(ls)[i]) = Len(Paths(ls)[q]) + 1 /\ Paths(ls)[i][2 - 1] = ls[q].key
      BY <1>2, <2>1, PathLength
    <3>2. Len(Paths(ls)[q]) \in Nat
      BY <2>2, PathLength
    <3> DEFINE n == Len(Paths(ls)[q])
    <3>3. n \in Nat /\ 2 = n + 1
      BY <1>2, <3>1, <3>2
    <3> HIDE DEF n
    <3>4. n = 1 /\ 2 - 1 = 1
      BY <3>3
    <3> QED BY <3>1, <3>4 DEF n
  <2> QED BY <1>2, <2>1, <2>2, <2>3
<1>4. Parent(ls, q) = 0
  BY <1>3, PathLength
<1>5. DistinctSiblings(ls) /\ Opened(ls)
  BY WellFormedIs
<1>6. ls[q].indent = 0
  BY <1>3, <1>4, <1>5 DEF Opened
<1>7. ASSUME NEW k \in images, ls[k].indent = 0 PROVE k = q
  <2>1. Parent(ls, k) = 0
    BY <1>1, <1>7, ParentIs, ParentsBody
  <2> QED BY <1>3, <1>4, <1>5, <2>1 DEF DistinctSiblings
<1>8. q \in images
  BY <1>3
<1>9. shallow = {q}
  BY <1>1, <1>6, <1>7, <1>8
<1>10. ChildrenWith(ls, q, "tag") = {j \in Keyed(ls) : Parent(ls, j) = q /\ ls[j].key = "tag"}
  BY <1>3, ChildrenWithIs
<1>11. ChildrenWith(ls, q, "tag") = {i}
  BY <1>3, <1>5, <1>10 DEF DistinctSiblings
<1>12. ChartTags(ls) = {j \in TaggedLines(ls) : \E k \in shallow : j \in ChildrenWith(ls, k, "tag")}
  BY DEF ChartTags
<1>13. i \in TaggedLines(ls)
  BY <1>3 DEF TaggedLines
<1> HIDE DEF q, shallow
<1> QED BY <1>9, <1>11, <1>12, <1>13

LEMMA ImageRollbackIs ==
    ASSUME NEW ls \in File, NEW tag \in Nat
    PROVE  ImageRollback(ls, tag) \in File /\ SameShape(ls, ImageRollback(ls, tag))
<1>1. ls \in File /\ SameShape(ls, ls)
  BY FileLines DEF SameShape, Alike
<1>2. CASE ChartTags(ls) # {}
  <2>1. ChartTags(ls) \subseteq Nat /\ ChartTags(ls) \subseteq 1..Len(ls)
    BY FileLines DEF ChartTags, TaggedLines
  <2>2. Least(ChartTags(ls)) \in 1..Len(ls)
    BY <1>2, <2>1, LeastIs
  <2> QED BY <1>2, <2>2, SetValueIs DEF ImageRollback
<1> QED BY <1>1, <1>2 DEF ImageRollback

LEMMA TagRolledBack ==
    ASSUME lines \in File, WellFormed(lines), form.values \subseteq Nat \ {0}
    PROVE  RollbackIsTheChartTag
<1> DEFINE p == <<"image", "tag">>
           old == Mapping(lines)
<1> SUFFICES ASSUME NEW tag \in form.values, p \in DOMAIN old, old[p] # NoValue
             PROVE  /\ Mapping(ImageRollback(lines, tag)) = [old EXCEPT ![p] = tag]
                    /\ ExtractImageTag(ImageRollback(lines, tag)) = tag
  BY DEF RollbackIsTheChartTag
<1> DEFINE to == ImageRollback(lines, tag)
<1>1. tag \in Nat /\ tag # NoValue
  BY DEF NoValue
<1>2. PICK i \in Keyed(lines) : p = Paths(lines)[i]
  <2>1. p \in {Paths(lines)[i] : i \in Keyed(lines)}
    BY MappingAt
  <2> QED BY <2>1
<1>3. old[p] = lines[i].value /\ i \in 1..Len(lines)
  BY <1>2, MappingAt, FileLines
<1>4. ChartTags(lines) = {i}
  BY <1>2, <1>3, ChartTagIs
<1>5. Least({i}) = i
  BY <1>3 DEF Least
<1>6. to = [lines EXCEPT ![i].value = tag]
  BY <1>4, <1>5 DEF ImageRollback
<1>7. /\ to \in File /\ SameShape(lines, to)
      /\ \A j \in 1..Len(lines) : to[j].value = IF j = i THEN tag ELSE lines[j].value
  <2> DEFINE new == [lines EXCEPT ![i].value = tag]
  <2>1. /\ new \in File /\ SameShape(lines, new)
        /\ \A j \in 1..Len(lines) : new[j].value = IF j = i THEN tag ELSE lines[j].value
    BY <1>1, <1>3, SetValueIs
  <2>2. to = new
    BY <1>6
  <2> HIDE DEF new, to
  <2> QED BY <2>1, <2>2
<1> HIDE DEF to
<1>8. /\ WellFormed(to) /\ Keyed(to) = Keyed(lines) /\ Paths(to)[i] = Paths(lines)[i]
      /\ DOMAIN Mapping(to) = DOMAIN old
      /\ \A j \in Keyed(lines) : Mapping(to)[Paths(lines)[j]] = to[j].value
  BY <1>7, ShapeKept
<1>9. Mapping(to) = [old EXCEPT ![p] = tag]
  <2>1. ASSUME NEW r \in DOMAIN old PROVE Mapping(to)[r] = IF r = p THEN tag ELSE old[r]
    <3>1. PICK j \in Keyed(lines) : r = Paths(lines)[j]
      <4>1. r \in {Paths(lines)[j] : j \in Keyed(lines)}
        BY MappingAt
      <4> QED BY <4>1
    <3>2. old[r] = lines[j].value /\ j \in 1..Len(lines) /\ (r = p <=> j = i)
      BY <1>2, <3>1, MappingAt, FileLines, OwnPath
    <3> QED BY <1>7, <1>8, <3>1, <3>2
  <2>2. Mapping(to) = [r \in DOMAIN Mapping(to) |-> Mapping(to)[r]]
    BY DEF Mapping
  <2>3. [old EXCEPT ![p] = tag] = [r \in DOMAIN old |-> IF r = p THEN tag ELSE old[r]]
    OBVIOUS
  <2> HIDE DEF old, p
  <2> QED BY <1>8, <2>1, <2>2, <2>3
<1>10. to[i].value = tag
  BY <1>3, <1>7
<1>11. ChartTags(to) = {i}
  BY <1>1, <1>2, <1>7, <1>8, <1>10, ChartTagIs
<1>12. ExtractImageTag(to) = tag
  BY <1>5, <1>10, <1>11 DEF ExtractImageTag
<1> QED BY <1>9, <1>12 DEF to

-----------------------------------------------------------------------------
(* Blocks within blocks, by their keys *)

Leads(p, q) == Len(p) < Len(q) /\ \A k \in 1..Len(p) : q[k] = p[k]

\* The keys that lead to a block lead on to what belongs to it.
LEMMA BlockLeads ==
    ASSUME NEW ls \in File, NEW a \in Keyed(ls)
    PROVE  \A j \in Body(ls, a) : Leads(Paths(ls)[a], Paths(ls)[j])
<1> DEFINE path == Paths(ls)
           S == {j \in Body(ls, a) : Leads(path[a], path[j])}
<1>1. /\ \A k \in Keyed(ls) : path[k] \in Seq(Key) /\ ls[k].key \in Key /\ k \in Nat
      /\ \A k \in Body(ls, a) : k \in Keyed(ls) /\ a < k
  BY PathAt, FileLines, BodyIs
<1>2. ASSUME NEW j \in Body(ls, a), \A k \in Body(ls, a) : k < j => k \in S
      PROVE  j \in S
  <2>1. Parent(ls, j) = a \/ Parent(ls, j) \in Body(ls, a)
    BY BodysParent
  <2>2. Parent(ls, j) # 0
    BY <1>1, <2>1, FileLines
  <2>3. /\ Parent(ls, j) \in Keyed(ls) /\ Parent(ls, j) < j
        /\ path[j] = Append(path[Parent(ls, j)], ls[j].key)
    BY <1>1, <2>2, PathAt
  <2> DEFINE r == path[Parent(ls, j)]
             t == path[a]
  <2>4. r = t \/ Leads(t, r)
    BY <1>2, <2>1, <2>3
  <2>5. r \in Seq(Key) /\ t \in Seq(Key) /\ path[j] = Append(r, ls[j].key) /\ ls[j].key \in Key
    BY <1>1, <2>3
  <2> HIDE DEF r, t
  <2>6. /\ Len(r) \in Nat /\ Len(t) \in Nat /\ Len(path[j]) = Len(r) + 1
        /\ \A n \in 1..Len(r) : path[j][n] = r[n]
    BY <2>5, AppendIs
  <2>7. Leads(t, path[j])
    BY <2>4, <2>6 DEF Leads
  <2> QED BY <2>7 DEF t
<1>3. Body(ls, a) \subseteq S
  <2>1. Body(ls, a) \subseteq Nat
    BY <1>1
  <2> HIDE DEF S
  <2> QED BY <1>2, <2>1, Induction
<1> QED BY <1>3

\* Every start of the keys that lead to a line leads to a block it belongs to.
HasBlocks(ls, i) ==
    \A n \in 1..Len(Paths(ls)[i]) - 1 :
      \E a \in Keyed(ls) : /\ i \in Body(ls, a) /\ Len(Paths(ls)[a]) = n
                           /\ \A k \in 1..n : Paths(ls)[a][k] = Paths(ls)[i][k]

LEMMA BlocksOnTheWay ==
    ASSUME NEW ls \in File
    PROVE  \A i \in Keyed(ls) : HasBlocks(ls, i)
<1> DEFINE path == Paths(ls)
           S == {i \in Keyed(ls) : HasBlocks(ls, i)}
<1>1. \A k \in Keyed(ls) : path[k] \in Seq(Key) /\ ls[k].key \in Key /\ k \in Nat
  BY PathAt, FileLines
<1>2. ASSUME NEW i \in Keyed(ls), \A j \in Keyed(ls) : j < i => j \in S
      PROVE  HasBlocks(ls, i)
  <2>1. CASE Parent(ls, i) = 0
    <3>1. Len(path[i]) = 1
      BY <2>1, PathLength
    <3> QED BY <3>1 DEF HasBlocks
  <2>2. CASE Parent(ls, i) # 0
    <3> DEFINE q == Parent(ls, i)
               r == path[q]
    <3>1. /\ q \in Keyed(ls) /\ q < i /\ path[i] = Append(r, ls[i].key)
          /\ i \in Body(ls, q) /\ \A b \in Keyed(ls) : q \in Body(ls, b) => i \in Body(ls, b)
      BY <2>2, PathAt, ParentsBody, FileLines
    <3>2. HasBlocks(ls, q)
      BY <1>2, <3>1
    <3>3. r \in Seq(Key) /\ ls[i].key \in Key
      BY <1>1, <3>1
    <3> HIDE DEF r, q
    <3>4. /\ Len(r) \in Nat /\ Len(path[i]) = Len(r) + 1
          /\ \A n \in 1..Len(r) : path[i][n] = r[n]
      BY <3>1, <3>3, AppendIs
    <3> SUFFICES ASSUME NEW n \in 1..Len(path[i]) - 1
                 PROVE  \E a \in Keyed(ls) : /\ i \in Body(ls, a) /\ Len(path[a]) = n
                                             /\ \A k \in 1..n : path[a][k] = path[i][k]
      BY DEF HasBlocks
    <3>5. n \in Nat /\ n <= Len(r)
      BY <3>4
    <3>6. CASE n = Len(r)
      BY <3>1, <3>4, <3>6 DEF r
    <3>7. CASE n # Len(r)
      <4>1. n \in 1..Len(path[q]) - 1
        BY <3>4, <3>5, <3>7 DEF r
      <4>2. PICK a \in Keyed(ls) : /\ q \in Body(ls, a) /\ Len(path[a]) = n
                                   /\ \A k \in 1..n : path[a][k] = path[q][k]
        BY <3>2, <4>1 DEF HasBlocks
      <4>3. \A k \in 1..n : path[i][k] = path[q][k]
        BY <3>4, <3>5 DEF r
      <4> QED BY <3>1, <4>2, <4>3
    <3> QED BY <3>6, <3>7
  <2> QED BY <2>1, <2>2
<1>3. Keyed(ls) \subseteq S
  <2>1. Keyed(ls) \subseteq Nat
    BY <1>1
  <2>2. \A i \in Keyed(ls) : (\A j \in Keyed(ls) : j < i => j \in S) => i \in S
    BY <1>2
  <2> HIDE DEF S
  <2> QED BY <2>1, <2>2, Induction
<1> QED BY <1>3

LEMMA UnderIs ==
    ASSUME NEW ls \in File, NEW i \in Keyed(ls), NEW key
    PROVE  Under(Paths(ls)[i], key) <=> \E a \in Keyed(ls) : ls[a].key = key /\ i \in Body(ls, a)
<1> DEFINE path == Paths(ls)
<1>1. \A k \in Keyed(ls) : /\ Len(path[k]) \in Nat /\ Len(path[k]) >= 1
                           /\ path[k][Len(path[k])] = ls[k].key
  BY PathLength DEF Last
<1>2. ASSUME NEW a \in Keyed(ls), ls[a].key = key, i \in Body(ls, a)
      PROVE  Under(path[i], key)
  <2>1. Len(path[a]) < Len(path[i]) /\ \A k \in 1..Len(path[a]) : path[i][k] = path[a][k]
    BY <1>2, BlockLeads DEF Leads
  <2> DEFINE n == Len(path[a])
             m == Len(path[i])
  <2>2. n \in Nat /\ n >= 1 /\ m \in Nat /\ n < m
    BY <1>1, <2>1
  <2>3. path[i][n] = key
    BY <1>1, <1>2, <2>1, <2>2
  <2> HIDE DEF n
  <2>4. n \in 1..m - 1
    BY <2>2
  <2> QED BY <2>3, <2>4 DEF Under
<1>3. ASSUME Under(path[i], key)
      PROVE  \E a \in Keyed(ls) : ls[a].key = key /\ i \in Body(ls, a)
  <2>1. PICK n \in 1..Len(path[i]) - 1 : path[i][n] = key
    BY <1>3 DEF Under
  <2>2. PICK a \in Keyed(ls) : /\ i \in Body(ls, a) /\ Len(path[a]) = n
                               /\ \A k \in 1..n : path[a][k] = path[i][k]
    BY BlocksOnTheWay DEF HasBlocks
  <2>3. path[a][n] = path[i][n]
    BY <1>1, <2>2
  <2> QED BY <1>1, <2>1, <2>2, <2>3
<1> QED BY <1>2, <1>3

\* Something lies in a block when its keys lead on.
LEMMA LeadsOn ==
    ASSUME NEW ls \in File, WellFormed(ls), NEW i \in Keyed(ls)
    PROVE  Body(ls, i) # {} <=>
             \E q \in DOMAIN Mapping(ls) :
               /\ Len(q) > Len(Paths(ls)[i]) /\ SubSeq(q, 1, Len(Paths(ls)[i])) = Paths(ls)[i]
<1> DEFINE path == Paths(ls)
           n == Len(path[i])
<1>1. \A k \in Keyed(ls) : path[k] \in Seq(Key) /\ Len(path[k]) \in Nat /\ Len(path[k]) >= 1
  BY PathAt, PathLength
<1>2. DOMAIN Mapping(ls) = {path[k] : k \in Keyed(ls)}
  BY MappingAt
<1>3. ASSUME NEW j \in Keyed(ls), Len(path[j]) > n
      PROVE  /\ SubSeq(path[j], 1, n) \in Seq(Key) /\ Len(SubSeq(path[j], 1, n)) = n
             /\ \A k \in 1..n : SubSeq(path[j], 1, n)[k] = path[j][k]
  <2> DEFINE s == path[j]
  <2>1. s \in Seq(Key) /\ n \in Nat /\ Len(s) \in Nat /\ n < Len(s) /\ n >= 1
    BY <1>1, <1>3
  <2> HIDE DEF n, s
  <2>2. \A k \in 1..n : s[k] \in Key
    BY <2>1
  <2>3. /\ SubSeq(s, 1, n) \in Seq(Key) /\ Len(SubSeq(s, 1, n)) = IF 1 <= n THEN n - 1 + 1 ELSE 0
        /\ \A k \in 1..n - 1 + 1 : SubSeq(s, 1, n)[k] = s[1 + k - 1]
    BY <2>1, <2>2, SubSeqProperties
  <2>4. /\ SubSeq(s, 1, n) \in Seq(Key) /\ Len(SubSeq(s, 1, n)) = n
        /\ \A k \in 1..n : SubSeq(s, 1, n)[k] = s[k]
    BY <2>1, <2>3
  <2> QED BY <2>4 DEF s
<1>4. ASSUME NEW j \in Body(ls, i)
      PROVE  path[j] \in DOMAIN Mapping(ls) /\ Len(path[j]) > n /\ SubSeq(path[j], 1, n) = path[i]
  <2>1. j \in Keyed(ls) /\ n < Len(path[j]) /\ \A k \in 1..n : path[j][k] = path[i][k]
    BY BodyIs, BlockLeads DEF Leads
  <2>2. Len(path[j]) > n
    BY <1>1, <2>1
  <2>3. SubSeq(path[j], 1, n) = path[i]
    BY <1>1, <1>3, <2>1, <2>2, SeqEqual
  <2> QED BY <1>2, <2>1, <2>2, <2>3
<1>5. ASSUME NEW q \in DOMAIN Mapping(ls), Len(q) > n, SubSeq(q, 1, n) = path[i]
      PROVE  Body(ls, i) # {}
  <2>1. PICK j \in Keyed(ls) : q = path[j]
    BY <1>2
  <2> DEFINE m == Len(path[j])
  <2>2. n \in Nat /\ n >= 1 /\ m \in Nat /\ m > n
    BY <1>1, <1>5, <2>1
  <2>3. n \in 1..m - 1
    <3> HIDE DEF n, m
    <3> QED BY <2>2
  <2>4. PICK a \in Keyed(ls) : /\ j \in Body(ls, a) /\ Len(path[a]) = n
                               /\ \A k \in 1..n : path[a][k] = path[j][k]
    BY <2>3, BlocksOnTheWay DEF HasBlocks
  <2>5. path[a] = path[i]
    <3>1. \A k \in 1..n : path[a][k] = path[i][k]
      BY <1>3, <1>5, <2>1, <2>2, <2>4
    <3> QED BY <1>1, <2>4, <3>1, SeqEqual
  <2>6. a = i
    BY <2>5, OwnPath
  <2> QED BY <2>4, <2>6
<1> QED BY <1>4, <1>5

-----------------------------------------------------------------------------
(* The probe blocks *)

\* A probe is not part of another, and what is called probes is not part of probes.
ProbesApart(ls) ==
    /\ \A i, j \in ProbeBlocks(ls) : j \notin Body(ls, i)
    /\ \A i, j \in Keyed(ls) : ls[i].key = "probes" /\ ls[j].key = "probes" => j \notin Body(ls, i)

LEMMA InProbesIsUnder ==
    ASSUME NEW ls \in File, ProbesApart(ls), NEW i \in Keyed(ls)
    PROVE  InProbes(ls, i) <=> Under(Paths(ls)[i], "probes")
<1>1. Keyed(ls) \subseteq 1..Len(ls) /\ Len(ls) \in Nat
  BY FileLines
<1>2. Under(Paths(ls)[i], "probes") <=> \E a \in Keyed(ls) : ls[a].key = "probes" /\ i \in Body(ls, a)
  BY UnderIs
<1>3. InProbes(ls, i) => \E a \in Keyed(ls) : ls[a].key = "probes" /\ i \in Body(ls, a)
  BY DEF InProbes
<1>4. ASSUME NEW a \in Keyed(ls), ls[a].key = "probes", i \in Body(ls, a)
      PROVE  InProbes(ls, i)
  <2> DEFINE P == {j \in Keyed(ls) : j < i /\ ls[j].key = "probes"}
  <2>1. a \in P /\ P \subseteq 1..Len(ls) /\ P # {}
    BY <1>1, <1>4, BodyIs
  <2>2. PICK j \in P : \A k \in P : k <= j
    <3> HIDE DEF P
    <3> QED BY <1>1, <2>1, GreatestIs
  <2>3. CASE a = j
    BY <1>1, <1>4, <2>2, <2>3 DEF InProbes
  <2>4. CASE a # j
    <3>1. a < j /\ j <= i /\ j \in Keyed(ls)
      BY <1>1, <2>1, <2>2, <2>4
    <3>2. j \in Body(ls, a)
      BY <1>4, <3>1, BodyIs
    <3> QED BY <1>4, <2>2, <3>1, <3>2 DEF ProbesApart
  <2> QED BY <2>3, <2>4
<1> QED BY <1>2, <1>3, <1>4

\* The scan finds the liveness probes that the mapping has.
LEMMA ProbesFound ==
    ASSUME NEW ls \in File, WellFormed(ls), ProbesApart(ls), NEW i \in Keyed(ls)
    PROVE  IsProbe(DOMAIN Mapping(ls), Paths(ls)[i]) <=> i \in ProbeBlocks(ls)
<1> DEFINE p == Paths(ls)[i]
<1>1. Last(p) = ls[i].key
  BY PathLength
<1>2. InProbes(ls, i) <=> Under(p, "probes")
  BY InProbesIsUnder
<1>3. Body(ls, i) # {} <=> \E q \in DOMAIN Mapping(ls) : Len(q) > Len(p) /\ SubSeq(q, 1, Len(p)) = p
  BY LeadsOn
<1> HIDE DEF p
<1> QED BY <1>1, <1>2, <1>3, Zenon DEF IsProbe, ProbeBlocks, p

-----------------------------------------------------------------------------
(* A line more *)

LEMMA InsertIs ==
    ASSUME NEW ls \in File, NEW f \in 1..Len(ls), NEW l \in Text
    PROVE  /\ Insert(ls, f, l) \in File /\ Len(Insert(ls, f, l)) = Len(ls) + 1
           /\ \A j \in 1..Len(ls) + 1 :
                Insert(ls, f, l)[j] = IF j < f THEN ls[j] ELSE IF j = f THEN l ELSE ls[j - 1]
<1> DEFINE n == Len(ls)
           s == SubSeq(ls, 1, f - 1)
           t == SubSeq(ls, f, n)
<1>1. n \in Nat /\ f \in Nat /\ 1 <= f /\ f <= n /\ \A i \in 1..n : ls[i] \in Text
  BY FileLines
<1> HIDE DEF n
<1>2. /\ s \in Seq(Text) /\ Len(s) = f - 1 /\ \A i \in 1..f - 1 : s[i] = ls[i]
  <2>1. f - 1 \in Int /\ 1 \in Int /\ \A i \in 1..f - 1 : ls[i] \in Text
    BY <1>1
  <2>2. /\ s \in Seq(Text) /\ Len(s) = IF 1 <= f - 1 THEN f - 1 - 1 + 1 ELSE 0
        /\ \A i \in 1..f - 1 - 1 + 1 : s[i] = ls[1 + i - 1]
    BY <2>1, SubSeqProperties
  <2> HIDE DEF s
  <2> QED BY <1>1, <2>2
<1>3. /\ t \in Seq(Text) /\ Len(t) = n - f + 1 /\ \A i \in 1..n - f + 1 : t[i] = ls[f + i - 1]
  <2>1. n \in Int /\ f \in Int /\ \A i \in f..n : ls[i] \in Text
    BY <1>1
  <2>2. /\ t \in Seq(Text) /\ Len(t) = IF f <= n THEN n - f + 1 ELSE 0
        /\ \A i \in 1..n - f + 1 : t[i] = ls[f + i - 1]
    BY <2>1, SubSeqProperties
  <2> HIDE DEF t
  <2> QED BY <1>1, <2>2
<1> DEFINE r == s \o <<l>>
<1> HIDE DEF s, t
<1>4. <<l>> \in Seq(Text) /\ Len(<<l>>) = 1 /\ <<l>>[1] = l
  OBVIOUS
<1>5. r \in Seq(Text) /\ Len(r) = f /\ \A i \in 1..f : r[i] = IF i < f THEN ls[i] ELSE l
  <2>1. r \in Seq(Text) /\ Len(r) = Len(s) + 1
        /\ \A i \in 1..Len(s) + 1 : r[i] = IF i <= Len(s) THEN s[i] ELSE <<l>>[i - Len(s)]
    BY <1>2, <1>4, ConcatProperties
  <2>2. Len(r) = f
    BY <1>1, <1>2, <2>1
  <2>3. ASSUME NEW i \in 1..f PROVE r[i] = IF i < f THEN ls[i] ELSE l
    <3>1. r[i] = IF i <= f - 1 THEN s[i] ELSE <<l>>[i - (f - 1)]
      BY <1>1, <1>2, <2>1
    <3>2. CASE i < f
      BY <1>1, <1>2, <3>1, <3>2
    <3>3. CASE ~(i < f)
      <4>1. i - (f - 1) = 1 /\ ~(i <= f - 1)
        BY <1>1, <3>3
      <4> QED BY <1>4, <3>1, <3>3, <4>1
    <3> QED BY <3>2, <3>3
  <2> QED BY <2>1, <2>2, <2>3
<1>6. Insert(ls, f, l) = r \o t
  BY DEF Insert, s, t, n
<1> HIDE DEF r
<1>7. /\ r \o t \in Seq(Text) /\ Len(r \o t) = Len(r) + Len(t)
      /\ \A i \in 1..Len(r) + Len(t) : (r \o t)[i] = IF i <= Len(r) THEN r[i] ELSE t[i - Len(r)]
  BY <1>3, <1>5, ConcatProperties
<1>8. Len(r) + Len(t) = n + 1
  BY <1>1, <1>3, <1>5
<1>9. ASSUME NEW j \in 1..n + 1
      PROVE  (r \o t)[j] = IF j < f THEN ls[j] ELSE IF j = f THEN l ELSE ls[j - 1]
  <2>1. (r \o t)[j] = IF j <= f THEN r[j] ELSE t[j - f]
    BY <1>5, <1>7, <1>8
  <2>2. CASE j <= f
    BY <1>1, <1>5, <2>1, <2>2
  <2>3. CASE ~(j <= f)
    <3>1. j - f \in 1..n - f + 1 /\ f + (j - f) - 1 = j - 1
      BY <1>1, <2>3
    <3>2. t[j - f] = ls[j - 1]
      BY <1>3, <3>1
    <3> QED BY <1>1, <2>1, <2>3, <3>2
  <2> QED BY <2>2, <2>3
<1> QED BY <1>6, <1>7, <1>8, <1>9 DEF File, n

\* Line l of its own indentation before the first line f of block b, in a file without that
\* key in the block.
NewChild(ls, b, f, l) ==
    /\ WellFormed(ls) /\ b \in Keyed(ls) /\ Body(ls, b) # {} /\ f = FirstChild(ls, b)
    /\ l \in Text /\ ~IsComment(l) /\ l.indent = ls[f].indent
    /\ ~\E j \in Keyed(ls) : Parent(ls, j) = b /\ ls[j].key = l.key

\* Where line j is afterwards.
Moved(f, j) == IF j < f THEN j ELSE j + 1

LEMMA ChildKeyed ==
    ASSUME NEW ls \in File, NEW b, NEW f, NEW l, NewChild(ls, b, f, l)
    PROVE  LET new == Insert(ls, f, l)
           IN  /\ new \in File /\ Len(ls) \in Nat /\ Len(new) = Len(ls) + 1
               /\ f \in Keyed(ls) /\ f \in Keyed(new) /\ new[f] = l
               /\ b \in Keyed(new) /\ b < f /\ Moved(f, b) = b
               /\ Keyed(ls) \subseteq 1..Len(ls)
               /\ \A j \in Keyed(ls) : Moved(f, j) \in Keyed(new) /\ new[Moved(f, j)] = ls[j]
               /\ \A k \in Keyed(new) : k = f \/ \E j \in Keyed(ls) : k = Moved(f, j)
<1> DEFINE new == Insert(ls, f, l)
<1>1. /\ Len(ls) \in Nat /\ DOMAIN ls = 1..Len(ls) /\ Keyed(ls) \subseteq 1..Len(ls)
  BY FileLines
<1>2. /\ b \in Keyed(ls) /\ f \in Keyed(ls) /\ b < f /\ l \in Text /\ ~IsComment(l)
  BY FirstChildIs DEF NewChild
<1>3. /\ new \in File /\ Len(new) = Len(ls) + 1
      /\ \A j \in 1..Len(ls) + 1 : new[j] = IF j < f THEN ls[j] ELSE IF j = f THEN l ELSE ls[j - 1]
  BY <1>1, <1>2, InsertIs
<1> HIDE DEF new
<1>4. DOMAIN new = 1..Len(ls) + 1
  BY <1>3, FileLines
<1>5. new[f] = l /\ f \in Keyed(new)
  BY <1>1, <1>2, <1>3, <1>4 DEF Keyed
<1>6. ASSUME NEW j \in Keyed(ls) PROVE Moved(f, j) \in Keyed(new) /\ new[Moved(f, j)] = ls[j]
  <2>1. Moved(f, j) \in 1..Len(ls) + 1 /\ new[Moved(f, j)] = ls[j]
    BY <1>1, <1>2, <1>3 DEF Moved
  <2> QED BY <1>4, <2>1 DEF Keyed
<1>7. ASSUME NEW k \in Keyed(new), k # f PROVE \E j \in Keyed(ls) : k = Moved(f, j)
  <2>1. k \in 1..Len(ls) + 1 /\ ~IsComment(new[k])
    BY <1>4 DEF Keyed
  <2>2. CASE k < f
    BY <1>1, <1>2, <1>3, <2>1, <2>2 DEF Keyed, Moved
  <2>3. CASE ~(k < f)
    <3>1. k - 1 \in 1..Len(ls) /\ ~(k - 1 < f) /\ k - 1 + 1 = k /\ new[k] = ls[k - 1]
      BY <1>1, <1>2, <1>3, <1>7, <2>1, <2>3
    <3>2. k - 1 \in Keyed(ls) /\ k = Moved(f, k - 1)
      BY <1>1, <2>1, <3>1 DEF Keyed, Moved
    <3> QED BY <3>2
  <2> QED BY <2>2, <2>3
<1>8. Moved(f, b) = b
  BY <1>2 DEF Moved
<1>9. b \in Keyed(new)
  BY <1>2, <1>6, <1>8
<1> QED BY <1>1, <1>2, <1>3, <1>5, <1>6, <1>7, <1>8, <1>9 DEF new

LEMMA MovedOrder ==
    ASSUME NEW f \in Nat, NEW i \in Nat, NEW j \in Nat
    PROVE  /\ Moved(f, i) \in Nat /\ Moved(f, i) # f /\ Moved(f, j) \in Nat
           /\ i < j <=> Moved(f, i) < Moved(f, j)
           /\ Moved(f, i) = Moved(f, j) => i = j
           /\ Moved(f, i) < f <=> i < f
BY DEF Moved

\* The line joins the block, and every other line stays in the block it was in.
LEMMA ChildParents ==
    ASSUME NEW ls \in File, NEW b, NEW f, NEW l, NewChild(ls, b, f, l)
    PROVE  LET new == Insert(ls, f, l)
           IN  /\ Parent(new, f) = b
               /\ \A j \in Keyed(ls) :
                    Parent(new, Moved(f, j)) =
                      IF Parent(ls, j) = 0 THEN 0 ELSE Moved(f, Parent(ls, j))
<1> DEFINE new == Insert(ls, f, l)
<1>1. /\ new \in File /\ Len(ls) \in Nat /\ Len(new) = Len(ls) + 1
      /\ f \in Keyed(ls) /\ f \in Keyed(new) /\ new[f] = l
      /\ b \in Keyed(new) /\ b < f /\ Moved(f, b) = b
      /\ Keyed(ls) \subseteq 1..Len(ls)
      /\ \A j \in Keyed(ls) : Moved(f, j) \in Keyed(new) /\ new[Moved(f, j)] = ls[j]
      /\ \A k \in Keyed(new) : k = f \/ \E j \in Keyed(ls) : k = Moved(f, j)
  BY ChildKeyed
<1>2. /\ b \in Keyed(ls) /\ l.indent = ls[f].indent /\ ls[b].indent < ls[f].indent
      /\ \A k \in Keyed(ls) : b < k => f <= k
  BY FirstChildIs DEF NewChild
<1> HIDE DEF new
<1>3. Keyed(new) \subseteq 1..Len(new) /\ Len(new) \in Nat
  BY <1>1, FileLines
<1>4. \A k \in 1..Len(ls) : ls[k].indent \in Nat
  BY FileLines
<1>5. \A i, j \in Keyed(ls) : i < j <=> Moved(f, i) < Moved(f, j)
  <2>1. f \in Nat /\ Keyed(ls) \subseteq Nat
    BY <1>1
  <2> QED BY <2>1, MovedOrder
<1>6. Parent(new, f) = b
  <2>1. new[b].indent < new[f].indent
    BY <1>1, <1>2
  <2>2. ASSUME NEW k \in Keyed(new), k > b, k < f PROVE FALSE
    <3>1. PICK j \in Keyed(ls) : k = Moved(f, j)
      BY <1>1, <1>3, <2>2
    <3>2. j < f /\ k = j
      BY <1>1, <2>2, <3>1 DEF Moved
    <3> QED BY <1>1, <1>2, <2>2, <3>2
  <2> QED BY <1>1, <1>3, <2>1, <2>2, ParentUnique
<1>7. ASSUME NEW j \in Keyed(ls), Parent(ls, j) # 0
      PROVE  Parent(new, Moved(f, j)) = Moved(f, Parent(ls, j))
  <2> DEFINE p == Parent(ls, j)
  <2>1. /\ p \in Keyed(ls) /\ p < j /\ ls[p].indent < ls[j].indent
        /\ \A k \in Keyed(ls) : k > p /\ k < j => ls[k].indent >= ls[j].indent
    BY <1>1, <1>7, ParentIs, FileLines
  <2> HIDE DEF p
  <2>2. /\ Moved(f, p) < Moved(f, j) /\ Moved(f, p) \in Keyed(new) /\ Moved(f, j) \in 1..Len(new)
        /\ new[Moved(f, p)].indent < new[Moved(f, j)].indent
    BY <1>1, <1>3, <1>5, <2>1
  <2>3. ASSUME NEW k \in Keyed(new), k > Moved(f, p), k < Moved(f, j)
        PROVE  new[k].indent >= new[Moved(f, j)].indent
    <3>1. CASE k = f
      <4>1. p < f /\ f <= j
        BY <1>1, <2>1, <2>3, <3>1 DEF Moved
      <4>2. ls[f].indent >= ls[j].indent
        <5>1. CASE f = j
          BY <1>1, <1>4, <5>1
        <5>2. CASE f # j
          BY <1>1, <2>1, <4>1, <5>2
        <5> QED BY <5>1, <5>2
      <4> QED BY <1>1, <1>2, <3>1, <4>2
    <3>2. CASE k # f
      <4>1. PICK m \in Keyed(ls) : k = Moved(f, m)
        BY <1>1, <3>2
      <4>2. p < m /\ m < j
        BY <1>5, <2>1, <2>3, <4>1
      <4> QED BY <1>1, <2>1, <4>1, <4>2
    <3> QED BY <3>1, <3>2
  <2>4. Parent(new, Moved(f, j)) = Moved(f, p)
    BY <1>1, <2>2, <2>3, ParentUnique
  <2> QED BY <2>4 DEF p
<1>8. ASSUME NEW j \in Keyed(ls), Parent(ls, j) = 0
      PROVE  Parent(new, Moved(f, j)) = 0
  <2>1. \A k \in Keyed(ls) : k < j => ls[k].indent >= ls[j].indent
    BY <1>1, <1>8, ParentIs
  <2>2. ASSUME NEW k \in Keyed(new), k < Moved(f, j) PROVE new[k].indent >= new[Moved(f, j)].indent
    <3>1. CASE k = f
      <4>1. f <= j
        BY <1>1, <2>2, <3>1 DEF Moved
      <4>2. b < j
        BY <1>1, <1>2, <4>1
      <4>3. ls[b].indent >= ls[j].indent
        BY <1>2, <2>1, <4>2
      <4> QED BY <1>1, <1>2, <1>4, <3>1, <4>3
    <3>2. CASE k # f
      <4>1. PICK m \in Keyed(ls) : k = Moved(f, m)
        BY <1>1, <3>2
      <4>2. m < j
        BY <1>5, <2>2, <4>1
      <4> QED BY <1>1, <2>1, <4>1, <4>2
    <3> QED BY <3>1, <3>2
  <2>3. Moved(f, j) \in 1..Len(new) /\ new[Moved(f, j)].indent \in Nat
    BY <1>1, <1>3, FileLines
  <2>4. \A k \in Keyed(new) : new[k].indent \in Nat
    BY <1>1, <1>3, FileLines
  <2> DEFINE x == Moved(f, j)
  <2>5. /\ x \in 1..Len(new) /\ new[x].indent \in Nat
        /\ \A k \in Keyed(new) : k < x => new[k].indent >= new[x].indent
    BY <2>2, <2>3
  <2> HIDE DEF x
  <2>6. Parent(new, x) = 0
    <3>1. CASE /\ Parent(new, x) \in Keyed(new) /\ Parent(new, x) < x
               /\ new[Parent(new, x)].indent < new[x].indent
      BY <2>4, <2>5, <3>1
    <3> QED BY <1>1, <2>5, <3>1, ParentIs
  <2> QED BY <2>6 DEF x
<1> QED BY <1>6, <1>7, <1>8 DEF new

LEMMA ChildPaths ==
    ASSUME NEW ls \in File, NEW b, NEW f, NEW l, NewChild(ls, b, f, l)
    PROVE  LET new == Insert(ls, f, l)
           IN  /\ \A j \in Keyed(ls) : Paths(new)[Moved(f, j)] = Paths(ls)[j]
               /\ Paths(new)[f] = Append(Paths(ls)[b], l.key)
<1> DEFINE new == Insert(ls, f, l)
           S == {j \in Keyed(ls) : Paths(new)[Moved(f, j)] = Paths(ls)[j]}
<1>1. /\ new \in File /\ f \in Keyed(new) /\ new[f] = l /\ b # 0 /\ Moved(f, b) = b
      /\ b \in Keyed(ls) /\ Keyed(ls) \subseteq Nat \ {0} /\ f \in Nat
      /\ \A j \in Keyed(ls) : Moved(f, j) \in Keyed(new) /\ new[Moved(f, j)] = ls[j]
  <2>1. b \in Keyed(ls)
    BY DEF NewChild
  <2>2. /\ new \in File /\ f \in Keyed(new) /\ new[f] = l /\ Moved(f, b) = b /\ f \in Keyed(ls)
        /\ Keyed(ls) \subseteq 1..Len(ls) /\ Len(ls) \in Nat
        /\ \A j \in Keyed(ls) : Moved(f, j) \in Keyed(new) /\ new[Moved(f, j)] = ls[j]
    BY ChildKeyed
  <2> HIDE DEF new
  <2> QED BY <2>1, <2>2
<1>2. /\ Parent(new, f) = b
      /\ \A j \in Keyed(ls) :
           Parent(new, Moved(f, j)) = IF Parent(ls, j) = 0 THEN 0 ELSE Moved(f, Parent(ls, j))
  BY ChildParents
<1> HIDE DEF new
<1>3. ASSUME NEW j \in Keyed(ls), \A k \in Keyed(ls) : k < j => k \in S
      PROVE  j \in S
  <2>1. Moved(f, j) \in Keyed(new) /\ new[Moved(f, j)] = ls[j]
    BY <1>1
  <2>2. /\ Paths(new)[Moved(f, j)] = PathStep(new, Paths(new), Moved(f, j))
        /\ Paths(ls)[j] = PathStep(ls, Paths(ls), j)
    BY <1>1, <2>1, PathsAre, Zenon DEF PathsOf
  <2>3. CASE Parent(ls, j) = 0
    <3>1. Parent(new, Moved(f, j)) = 0
      BY <1>2, <2>3
    <3> QED BY <2>1, <2>2, <2>3, <3>1, Zenon DEF PathStep
  <2>4. CASE Parent(ls, j) # 0
    <3>1. Parent(ls, j) \in Keyed(ls) /\ Parent(ls, j) < j
      BY <1>1, <2>4, PathAt
    <3>2. Paths(new)[Moved(f, Parent(ls, j))] = Paths(ls)[Parent(ls, j)]
      BY <1>3, <3>1
    <3>3. Parent(new, Moved(f, j)) = Moved(f, Parent(ls, j))
      BY <1>2, <2>4
    <3>4. Moved(f, Parent(ls, j)) # 0
      BY <1>1, <3>1 DEF Moved
    <3> QED BY <2>1, <2>2, <2>4, <3>2, <3>3, <3>4, Zenon DEF PathStep
  <2> QED BY <2>3, <2>4
<1>4. Keyed(ls) \subseteq S
  <2>1. Keyed(ls) \subseteq Nat
    BY <1>1
  <2> HIDE DEF S
  <2> QED BY <1>3, <2>1, Induction
<1>5. Paths(new)[f] = Append(Paths(ls)[b], l.key)
  <2>1. Paths(new)[b] = Paths(ls)[b]
    BY <1>1, <1>4
  <2>2. Paths(new)[f] = PathStep(new, Paths(new), f)
    BY <1>1, PathsAre, Zenon DEF PathsOf
  <2> QED BY <1>1, <1>2, <2>1, <2>2, Zenon DEF PathStep
<1> QED BY <1>4, <1>5 DEF new

\* The file with the new line is well-formed and maps what it did, and the new key.
HasChild(ls, new, key, value) ==
    /\ new \in File /\ WellFormed(new)
    /\ DOMAIN Mapping(new) = DOMAIN Mapping(ls) \cup {key}
    /\ Mapping(new)[key] = value
    /\ \A p \in DOMAIN Mapping(ls) : Mapping(new)[p] = Mapping(ls)[p]

LEMMA ChildAdded ==
    ASSUME NEW ls \in File, NEW b, NEW f, NEW l, NewChild(ls, b, f, l)
    PROVE  HasChild(ls, Insert(ls, f, l), Append(Paths(ls)[b], l.key), l.value)
<1> DEFINE new == Insert(ls, f, l)
           key == Append(Paths(ls)[b], l.key)
<1>1. /\ new \in File /\ f \in Keyed(ls) /\ f \in Keyed(new) /\ new[f] = l
      /\ b \in Keyed(new) /\ Moved(f, b) = b /\ Keyed(ls) \subseteq 1..Len(ls) /\ Len(ls) \in Nat
      /\ \A j \in Keyed(ls) : Moved(f, j) \in Keyed(new) /\ new[Moved(f, j)] = ls[j]
      /\ \A k \in Keyed(new) : k = f \/ \E j \in Keyed(ls) : k = Moved(f, j)
  BY ChildKeyed
<1>2. /\ Parent(new, f) = b
      /\ \A j \in Keyed(ls) :
           Parent(new, Moved(f, j)) = IF Parent(ls, j) = 0 THEN 0 ELSE Moved(f, Parent(ls, j))
  BY ChildParents
<1>3. /\ \A j \in Keyed(ls) : Paths(new)[Moved(f, j)] = Paths(ls)[j]
      /\ Paths(new)[f] = key
  BY ChildPaths
<1>4. /\ WellFormed(ls) /\ b \in Keyed(ls) /\ l.indent = ls[f].indent
      /\ \A j \in Keyed(ls) : ~(Parent(ls, j) = b /\ ls[j].key = l.key)
      /\ Parent(ls, f) = b
  BY FirstChildIs DEF NewChild
<1> HIDE DEF new, key
<1>5. DistinctSiblings(ls) /\ Opened(ls) /\ SiblingsAlign(ls)
  BY <1>4, WellFormedIs
<1>6. \A i, j \in Keyed(ls) \cup {0} : Moved(f, i) = Moved(f, j) => i = j
  BY <1>1 DEF Moved
<1>7. \A j \in Keyed(ls) : Parent(ls, j) \in Keyed(ls) \cup {0}
  BY PathAt
<1>8. \A j \in Keyed(ls) : Moved(f, j) # 0
  BY <1>1 DEF Moved
<1>9. ASSUME NEW i \in Keyed(ls), NEW j \in Keyed(ls),
             Parent(new, Moved(f, i)) = Parent(new, Moved(f, j))
      PROVE  Parent(ls, i) = Parent(ls, j)
  BY <1>2, <1>6, <1>7, <1>8, <1>9
<1>10. ASSUME NEW j \in Keyed(ls), Parent(new, Moved(f, j)) = b
       PROVE  Parent(ls, j) = b
  <2>1. Parent(ls, j) # 0
    BY <1>1, <1>2, <1>4, <1>10
  <2>2. Moved(f, Parent(ls, j)) = Moved(f, b)
    BY <1>1, <1>2, <1>10, <2>1
  <2> QED BY <1>4, <1>6, <1>7, <2>2
<1>11. DistinctSiblings(new)
  <2> SUFFICES ASSUME NEW i \in Keyed(new), NEW j \in Keyed(new),
                      Parent(new, i) = Parent(new, j), new[i].key = new[j].key
               PROVE  i = j
    BY DEF DistinctSiblings
  <2>1. CASE i = f /\ j = f
    BY <2>1
  <2>2. CASE i = f /\ j # f
    <3>1. PICK m \in Keyed(ls) : j = Moved(f, m)
      BY <1>1, <2>2
    <3> QED BY <1>1, <1>2, <1>4, <1>10, <2>2, <3>1
  <2>3. CASE i # f /\ j = f
    <3>1. PICK m \in Keyed(ls) : i = Moved(f, m)
      BY <1>1, <2>3
    <3> QED BY <1>1, <1>2, <1>4, <1>10, <2>3, <3>1
  <2>4. CASE i # f /\ j # f
    <3>1. PICK m \in Keyed(ls), n \in Keyed(ls) : i = Moved(f, m) /\ j = Moved(f, n)
      BY <1>1, <2>4
    <3>2. Parent(ls, m) = Parent(ls, n)
      BY <1>9, <3>1
    <3> QED BY <1>1, <1>5, <3>1, <3>2 DEF DistinctSiblings
  <2> QED BY <2>1, <2>2, <2>3, <2>4
<1>12. SiblingsAlign(new)
  <2> SUFFICES ASSUME NEW i \in Keyed(new), NEW j \in Keyed(new),
                      Parent(new, i) = Parent(new, j)
               PROVE  new[i].indent = new[j].indent
    BY DEF SiblingsAlign
  <2>1. ASSUME NEW m \in Keyed(ls), Parent(new, Moved(f, m)) = b
        PROVE  new[Moved(f, m)].indent = l.indent
    <3>1. Parent(ls, m) = Parent(ls, f)
      BY <1>4, <1>10, <2>1
    <3> QED BY <1>1, <1>4, <1>5, <3>1 DEF SiblingsAlign
  <2>2. CASE i = f /\ j = f
    BY <2>2
  <2>3. CASE i = f /\ j # f
    BY <1>1, <1>2, <2>1, <2>3
  <2>4. CASE i # f /\ j = f
    BY <1>1, <1>2, <2>1, <2>4
  <2>5. CASE i # f /\ j # f
    <3>1. PICK m \in Keyed(ls), n \in Keyed(ls) : i = Moved(f, m) /\ j = Moved(f, n)
      BY <1>1, <2>5
    <3>2. Parent(ls, m) = Parent(ls, n)
      BY <1>9, <3>1
    <3> QED BY <1>1, <1>5, <3>1, <3>2 DEF SiblingsAlign
  <2> QED BY <2>2, <2>3, <2>4, <2>5
<1>13. Opened(new)
  <2> SUFFICES ASSUME NEW i \in Keyed(new)
               PROVE  IF Parent(new, i) = 0 THEN new[i].indent = 0
                      ELSE new[Parent(new, i)].key \in Block
    BY DEF Opened
  <2>1. CASE i = f
    <3>1. new[b] = ls[b]
      BY <1>1, <1>4
    <3>2. ls[b].key \in Block
      BY <1>1, <1>4, <1>5 DEF Opened
    <3>3. b # 0
      BY <1>1, <1>4
    <3> QED BY <1>2, <2>1, <3>1, <3>2, <3>3
  <2>2. CASE i # f
    <3>1. PICK m \in Keyed(ls) : i = Moved(f, m)
      BY <1>1, <2>2
    <3>2. CASE Parent(ls, m) = 0
      BY <1>1, <1>2, <1>5, <3>1, <3>2 DEF Opened
    <3>3. CASE Parent(ls, m) # 0
      <4>1. /\ Parent(ls, m) \in Keyed(ls) /\ ls[Parent(ls, m)].key \in Block
            /\ Parent(new, i) = Moved(f, Parent(ls, m))
        BY <1>2, <1>5, <1>7, <3>1, <3>3 DEF Opened
      <4> QED BY <1>1, <1>8, <4>1
    <3> QED BY <3>2, <3>3
  <2> QED BY <2>1, <2>2
<1>14. WellFormed(new)
  BY <1>1, <1>11, <1>12, <1>13, WellFormedIs
<1>15. DOMAIN Mapping(ls) = {Paths(ls)[j] : j \in Keyed(ls)}
       /\ \A j \in Keyed(ls) : Mapping(ls)[Paths(ls)[j]] = ls[j].value
  BY <1>4, MappingAt
<1>16. DOMAIN Mapping(new) = {Paths(new)[k] : k \in Keyed(new)}
       /\ \A k \in Keyed(new) : Mapping(new)[Paths(new)[k]] = new[k].value
  BY <1>1, <1>14, MappingAt
<1>17. DOMAIN Mapping(new) = DOMAIN Mapping(ls) \cup {key}
  <2>1. ASSUME NEW p \in DOMAIN Mapping(new) PROVE p \in DOMAIN Mapping(ls) \cup {key}
    <3>1. PICK k \in Keyed(new) : p = Paths(new)[k]
      BY <1>16
    <3> QED BY <1>1, <1>3, <1>15, <3>1
  <2>2. ASSUME NEW p \in DOMAIN Mapping(ls) PROVE p \in DOMAIN Mapping(new)
    <3>1. PICK j \in Keyed(ls) : p = Paths(ls)[j]
      BY <1>15
    <3> QED BY <1>1, <1>3, <1>16, <3>1
  <2>3. key \in DOMAIN Mapping(new)
    BY <1>1, <1>3, <1>16
  <2> QED BY <2>1, <2>2, <2>3
<1>18. Mapping(new)[key] = l.value
  BY <1>1, <1>3, <1>16
<1>19. ASSUME NEW p \in DOMAIN Mapping(ls) PROVE Mapping(new)[p] = Mapping(ls)[p]
  <2>1. PICK j \in Keyed(ls) : p = Paths(ls)[j]
    BY <1>15
  <2>2. Mapping(new)[Paths(new)[Moved(f, j)]] = new[Moved(f, j)].value
    BY <1>1, <1>16
  <2> QED BY <1>1, <1>3, <1>15, <2>1, <2>2
<1> QED BY <1>1, <1>14, <1>17, <1>18, <1>19 DEF HasChild, new, key

-----------------------------------------------------------------------------
(* One probe block *)

LEMMA PathOfChild ==
    ASSUME NEW ls \in File, WellFormed(ls), NEW b \in Keyed(ls), NEW j \in Keyed(ls), NEW key \in Key
    PROVE  Paths(ls)[j] = Append(Paths(ls)[b], key) <=> Parent(ls, j) = b /\ ls[j].key = key
<1> DEFINE path == Paths(ls)
<1>1. /\ path[b] \in Seq(Key) /\ ls[j].key \in Key /\ b # 0
      /\ Len(path[b]) \in Nat /\ Len(path[b]) >= 1
  BY PathAt, PathLength, FileLines
<1>2. ASSUME Parent(ls, j) = b, ls[j].key = key PROVE path[j] = Append(path[b], key)
  BY <1>1, <1>2, PathAt
<1>3. ASSUME path[j] = Append(path[b], key) PROVE Parent(ls, j) = b /\ ls[j].key = key
  <2>1. Len(path[j]) = Len(path[b]) + 1
    BY <1>1, <1>3, AppendIs
  <2>2. Len(path[j]) # 1
    BY <1>1, <2>1
  <2>3. Parent(ls, j) # 0
    BY <2>2, PathLength
  <2> DEFINE q == Parent(ls, j)
             r == path[q]
             t == path[b]
  <2>4. q \in Keyed(ls) /\ r \in Seq(Key) /\ path[j] = Append(r, ls[j].key)
    BY <2>3, PathAt
  <2>5. t \in Seq(Key) /\ ls[j].key \in Key /\ Append(r, ls[j].key) = Append(t, key)
    BY <1>1, <1>3, <2>4
  <2> HIDE DEF r, t, q
  <2>6. r = t /\ ls[j].key = key
    BY <2>4, <2>5, AppendInjective
  <2>7. q = b
    BY <2>4, <2>6, OwnPath DEF r, t
  <2> QED BY <2>6, <2>7 DEF q
<1> QED BY <1>2, <1>3

\* Where the mapping has the delay of block b.
Delay(ls, b) == Append(Paths(ls)[b], "initialDelaySeconds")
Delays(ls, D) == {Delay(ls, b) : b \in D}

\* What the mapping has for p when these delays have been raised.
Raised(old, delays, p) ==
    IF p \notin delays THEN old[p]
    ELSE IF p \notin DOMAIN old THEN defaultProbeDelay
    ELSE IF old[p] = NoValue THEN NoValue
    ELSE bumpedDelay(old[p])

\* The file cur is ls when the blocks D have been patched, the last of the file first.
PatchedAt(ls, cur, D) ==
    /\ cur \in File /\ WellFormed(cur) /\ Len(ls) <= Len(cur)
    /\ \A i \in 1..Len(cur) : \E k \in 1..Len(ls) : cur[i].indent = ls[k].indent
    /\ \A i \in 1..Len(ls) : (\A d \in D : i <= d) => cur[i] = ls[i]
    /\ DOMAIN Mapping(cur) = DOMAIN Mapping(ls) \cup Delays(ls, D)
    /\ ProbesApart(ls) =>
         \A p \in DOMAIN Mapping(cur) : Mapping(cur)[p] = Raised(Mapping(ls), Delays(ls, D), p)

\* Block b comes before the blocks D, and all of them are probes of ls.
NextBlock(ls, D, b) ==
    /\ D \subseteq ProbeBlocks(ls) /\ b \in ProbeBlocks(ls)
    /\ \A d \in D : b < d

LEMMA DelayKey == "initialDelaySeconds" \in Key /\ "initialDelaySeconds" # "comment"
BY DEF Key, Scalar

LEMMA ProbesKeyed ==
    ASSUME NEW ls \in File, NEW b \in ProbeBlocks(ls)
    PROVE  b \in Keyed(ls) /\ Body(ls, b) # {} /\ b \in Nat
BY FileLines DEF ProbeBlocks

\* No two blocks have the same delay.
LEMMA OwnDelay ==
    ASSUME NEW ls \in File, WellFormed(ls), NEW b \in Keyed(ls), NEW d \in Keyed(ls),
           Delay(ls, b) = Delay(ls, d)
    PROVE  b = d
<1>1. Paths(ls)[b] \in Seq(Key) /\ Paths(ls)[d] \in Seq(Key)
  BY PathAt
<1> DEFINE r == Paths(ls)[b]
           t == Paths(ls)[d]
           k == "initialDelaySeconds"
<1>2. r \in Seq(Key) /\ t \in Seq(Key) /\ k \in Key /\ Append(r, k) = Append(t, k)
  BY <1>1, DelayKey DEF Delay
<1> HIDE DEF r, t, k
<1>3. r = t
  BY <1>2, AppendInjective
<1> QED BY <1>3, OwnPath DEF r, t

\* Down to its first line, the next block is where the scan found it.
LEMMA NextBlockIsThere ==
    ASSUME NEW ls \in File, WellFormed(ls), NEW cur, NEW D, PatchedAt(ls, cur, D),
           NEW b, NextBlock(ls, D, b)
    PROVE  /\ b \in Keyed(cur) /\ Body(cur, b) # {} /\ FirstChild(cur, b) = FirstChild(ls, b)
           /\ Paths(cur)[b] = Paths(ls)[b]
           /\ cur[FirstChild(ls, b)] = ls[FirstChild(ls, b)]
<1> DEFINE f == FirstChild(ls, b)
<1>1. /\ b \in Keyed(ls) /\ Body(ls, b) # {} /\ b \in Nat
      /\ \A d \in D : b < d /\ d \in Keyed(ls) /\ d \in Nat
  BY ProbesKeyed DEF NextBlock
<1>2. /\ f \in Keyed(ls) /\ b < f /\ ls[b].indent < ls[f].indent
      /\ \A k \in Keyed(ls) : b < k => f <= k
  BY <1>1, FirstChildIs
<1> HIDE DEF f
<1>3. /\ Len(ls) \in Nat /\ Len(cur) \in Nat /\ Len(ls) <= Len(cur) /\ cur \in File
      /\ Keyed(ls) \subseteq 1..Len(ls) /\ Keyed(cur) \subseteq 1..Len(cur)
  BY FileLines DEF PatchedAt
<1>4. ASSUME NEW i \in 1..f PROVE cur[i] = ls[i]
  <2>1. i \in 1..Len(ls)
    BY <1>2, <1>3
  <2>2. \A d \in D : i <= d
    BY <1>1, <1>2, <1>3
  <2> QED BY <2>1, <2>2 DEF PatchedAt
<1>5. Alike(ls, cur, f)
  BY <1>2, <1>3, <1>4 DEF Alike
<1>6. \A i \in 1..f : i \in Keyed(ls) <=> i \in Keyed(cur)
  BY <1>3, <1>5, AlikeParents
<1>7. b \in 1..f /\ f \in 1..f /\ b \in Keyed(cur) /\ f \in Keyed(cur)
  BY <1>1, <1>2, <1>3, <1>6
<1>8. Paths(cur)[b] = Paths(ls)[b]
  BY <1>1, <1>3, <1>5, <1>7, AlikePaths
<1>9. \A k \in Keyed(cur) : b < k => f <= k
  <2>1. ASSUME NEW k \in Keyed(cur), b < k, ~(f <= k) PROVE FALSE
    <3>1. k \in 1..f
      BY <1>2, <1>3, <2>1
    <3> QED BY <1>2, <1>6, <2>1, <3>1
  <2> QED BY <2>1
<1>10. cur[b] = ls[b] /\ cur[f] = ls[f]
  BY <1>4, <1>7
<1>11. f \in Body(cur, b)
  <2>1. ASSUME NEW k \in Keyed(cur), k > b, k <= f PROVE k = f
    BY <1>2, <1>3, <1>9, <2>1
  <2> QED BY <1>2, <1>7, <1>10, <2>1 DEF Body
<1>12. FirstChild(cur, b) = f
  <2>1. FirstChild(cur, b) \in Body(cur, b) /\ \A k \in Keyed(cur) : b < k => FirstChild(cur, b) <= k
    BY <1>3, <1>7, <1>11, FirstChildIs
  <2>2. FirstChild(cur, b) \in Keyed(cur) /\ b < FirstChild(cur, b)
    BY <1>3, <1>7, <2>1, BodyIs
  <2> QED BY <1>2, <1>3, <1>7, <1>9, <2>1, <2>2
<1> QED BY <1>7, <1>8, <1>10, <1>11, <1>12 DEF f

\* The delays of the blocks D and b.
LEMMA DelaysAdd ==
    ASSUME NEW ls, NEW D, NEW b
    PROVE  Delays(ls, D \cup {b}) = Delays(ls, D) \cup {Delay(ls, b)}
BY DEF Delays

\* A block without a delay gets the default one.
LEMMA DelayInserted ==
    ASSUME NEW ls \in File, WellFormed(ls), NEW cur, NEW D, PatchedAt(ls, cur, D),
           NEW b, NextBlock(ls, D, b), ChildrenWith(ls, b, "initialDelaySeconds") = {}
    PROVE  PatchedAt(ls, PatchBlock(ls, cur, b), D \cup {b})
<1> DEFINE f == FirstChild(ls, b)
           l == [indent |-> ls[f].indent, key |-> "initialDelaySeconds", value |-> defaultProbeDelay]
           new == Insert(cur, f, l)
           d == Delay(ls, b)
           old == Mapping(ls)
<1>1. PatchBlock(ls, cur, b) = new
  BY DEF PatchBlock
<1>2. /\ b \in Keyed(ls) /\ Body(ls, b) # {} /\ b \in Nat /\ D \subseteq Keyed(ls)
      /\ \A e \in D : b < e
  BY ProbesKeyed DEF NextBlock
<1>3. f \in Keyed(ls) /\ b < f /\ \A k \in Keyed(ls) : b < k => f <= k
  BY <1>2, FirstChildIs
<1>4. /\ b \in Keyed(cur) /\ Body(cur, b) # {} /\ FirstChild(cur, b) = f
      /\ Paths(cur)[b] = Paths(ls)[b] /\ cur[f] = ls[f]
  BY NextBlockIsThere
<1>5. /\ Len(ls) \in Nat /\ Len(cur) \in Nat /\ Len(ls) <= Len(cur) /\ cur \in File /\ WellFormed(cur)
      /\ Keyed(ls) \subseteq 1..Len(ls) /\ ls[f].indent \in Nat
  <2>1. cur \in File /\ WellFormed(cur) /\ Len(ls) <= Len(cur)
    BY DEF PatchedAt
  <2> QED BY <1>3, <2>1, FileLines
<1>6. l \in Text /\ ~IsComment(l) /\ l.indent = cur[f].indent /\ l.key = "initialDelaySeconds"
      /\ l.value = defaultProbeDelay
  BY <1>4, <1>5, DelayKey DEF Text, IsComment, defaultProbeDelay
<1>7. d \notin DOMAIN old
  <2>1. ASSUME d \in DOMAIN old PROVE FALSE
    <3>1. d \in {Paths(ls)[j] : j \in Keyed(ls)}
      BY <2>1, MappingAt
    <3>2. PICK j \in Keyed(ls) : Paths(ls)[j] = d
      BY <3>1
    <3>3. Parent(ls, j) = b /\ ls[j].key = "initialDelaySeconds"
      <4>1. Paths(ls)[j] = Append(Paths(ls)[b], "initialDelaySeconds")
        BY <3>2 DEF Delay
      <4>2. "initialDelaySeconds" \in Key
        BY DelayKey
      <4>3. \A k \in Key : Paths(ls)[j] = Append(Paths(ls)[b], k) <=> Parent(ls, j) = b /\ ls[j].key = k
        BY <1>2, PathOfChild
      <4> QED BY <4>1, <4>2, <4>3
    <3>4. j \in ChildrenWith(ls, b, "initialDelaySeconds")
      BY <1>2, <3>3, ChildrenWithIs
    <3> QED BY <3>4
  <2> QED BY <2>1
<1>8. d \notin Delays(ls, D)
  BY <1>2, OwnDelay DEF Delays
<1>9. DOMAIN Mapping(cur) = DOMAIN old \cup Delays(ls, D)
  BY DEF PatchedAt
<1>10. d \notin DOMAIN Mapping(cur)
  BY <1>7, <1>8, <1>9
<1>11. \A j \in Keyed(cur) : ~(Parent(cur, j) = b /\ cur[j].key = "initialDelaySeconds")
  <2>1. ASSUME NEW j \in Keyed(cur), Parent(cur, j) = b, cur[j].key = "initialDelaySeconds" PROVE FALSE
    <3>1. Paths(cur)[j] = d
      BY <1>4, <1>5, <2>1, PathOfChild, DelayKey DEF Delay
    <3>2. Paths(cur)[j] \in DOMAIN Mapping(cur)
      BY <1>5, MappingAt
    <3> QED BY <1>10, <3>1, <3>2
  <2> QED BY <2>1
<1> HIDE DEF f, l, d, old
<1>12. NewChild(cur, b, f, l)
  BY <1>4, <1>5, <1>6, <1>11 DEF NewChild
<1>13. Append(Paths(cur)[b], l.key) = d
  BY <1>4, <1>6 DEF d, Delay
<1>14. /\ new \in File /\ WellFormed(new)
       /\ DOMAIN Mapping(new) = DOMAIN Mapping(cur) \cup {d}
       /\ Mapping(new)[d] = defaultProbeDelay
       /\ \A p \in DOMAIN Mapping(cur) : Mapping(new)[p] = Mapping(cur)[p]
  <2>1. HasChild(cur, new, Append(Paths(cur)[b], l.key), l.value)
    BY <1>5, <1>12, ChildAdded
  <2> HIDE DEF new
  <2> QED BY <1>6, <1>13, <2>1 DEF HasChild
<1>15. /\ Len(new) = Len(cur) + 1
       /\ \A j \in 1..Len(cur) + 1 :
            new[j] = IF j < f THEN cur[j] ELSE IF j = f THEN l ELSE cur[j - 1]
  BY <1>3, <1>5, <1>6, InsertIs
<1> HIDE DEF new
<1>16. Len(ls) <= Len(new)
  BY <1>5, <1>14, <1>15, FileLines
<1>17. ASSUME NEW i \in 1..Len(new) PROVE \E k \in 1..Len(ls) : new[i].indent = ls[k].indent
  <2>1. \A j \in 1..Len(cur) : \E k \in 1..Len(ls) : cur[j].indent = ls[k].indent
    BY DEF PatchedAt
  <2>2. f \in 1..Len(ls)
    BY <1>3, <1>5
  <2>3. CASE i < f
    BY <1>5, <1>15, <2>1, <2>2, <2>3
  <2>4. CASE i = f
    BY <1>4, <1>6, <1>15, <2>2, <2>4
  <2>5. CASE ~(i <= f)
    <3>1. i - 1 \in 1..Len(cur) /\ new[i] = cur[i - 1]
      BY <1>5, <1>15, <2>2, <2>5
    <3> QED BY <2>1, <3>1
  <2> QED BY <2>2, <2>3, <2>4, <2>5
<1>18. ASSUME NEW i \in 1..Len(ls), \A e \in D \cup {b} : i <= e PROVE new[i] = ls[i]
  <2>1. cur[i] = ls[i]
    BY <1>18 DEF PatchedAt
  <2>2. i < f /\ i \in 1..Len(cur) + 1
    BY <1>2, <1>3, <1>5, <1>18
  <2> QED BY <1>15, <2>1, <2>2
<1>19. DOMAIN Mapping(new) = DOMAIN old \cup Delays(ls, D \cup {b})
  BY <1>9, <1>14, DelaysAdd DEF d
<1>20. ASSUME ProbesApart(ls), NEW p \in DOMAIN Mapping(new)
       PROVE  Mapping(new)[p] = Raised(old, Delays(ls, D \cup {b}), p)
  <2>1. CASE p = d
    <3>1. d \in Delays(ls, D \cup {b})
      BY DelaysAdd DEF d
    <3> QED BY <1>7, <1>14, <2>1, <3>1 DEF Raised
  <2>2. CASE p # d
    <3>1. p \in DOMAIN Mapping(cur) /\ Mapping(new)[p] = Mapping(cur)[p]
      BY <1>14, <1>20, <2>2
    <3>2. Mapping(cur)[p] = Raised(old, Delays(ls, D), p)
      BY <1>20, <3>1 DEF PatchedAt, old
    <3>3. Raised(old, Delays(ls, D \cup {b}), p) = Raised(old, Delays(ls, D), p)
      <4>1. Delays(ls, D \cup {b}) = Delays(ls, D) \cup {d}
        BY DelaysAdd DEF d
      <4> QED BY <2>2, <4>1 DEF Raised
    <3> QED BY <3>1, <3>2, <3>3
  <2> QED BY <2>1, <2>2
<1>21. PatchedAt(ls, new, D \cup {b})
  BY <1>14, <1>16, <1>17, <1>18, <1>19, <1>20 DEF PatchedAt, old
<1> QED BY <1>1, <1>21

\* The delay that the scan finds in a block.
LEMMA DelayIs ==
    ASSUME NEW ls \in File, WellFormed(ls), NEW b \in Keyed(ls),
           ChildrenWith(ls, b, "initialDelaySeconds") # {}
    PROVE  LET d == Least(ChildrenWith(ls, b, "initialDelaySeconds"))
           IN  d \in Keyed(ls) /\ d \in Body(ls, b) /\ Paths(ls)[d] = Delay(ls, b)
<1> DEFINE S == ChildrenWith(ls, b, "initialDelaySeconds")
           d == Least(S)
<1>1. S \subseteq Nat /\ S \subseteq Keyed(ls) /\ S \subseteq Body(ls, b)
  BY FileLines DEF ChildrenWith, Body
<1>2. d \in S
  BY <1>1, LeastIs
<1>3. S = {j \in Keyed(ls) : Parent(ls, j) = b /\ ls[j].key = "initialDelaySeconds"}
  BY ChildrenWithIs
<1> HIDE DEF d, S
<1>4. d \in Keyed(ls) /\ Parent(ls, d) = b /\ ls[d].key = "initialDelaySeconds"
  BY <1>2, <1>3
<1>5. \A k \in Key : Paths(ls)[d] = Append(Paths(ls)[b], k) <=> Parent(ls, d) = b /\ ls[d].key = k
  BY <1>4, PathOfChild
<1>6. Paths(ls)[d] = Delay(ls, b)
  BY <1>4, <1>5, DelayKey DEF Delay
<1> QED BY <1>1, <1>2, <1>4, <1>6 DEF d, S

\* What a patched block has at the line where the scan found its delay.
RaisedLine(cur, new, d) ==
    /\ new \in File /\ SameShape(cur, new)
    /\ new[d].value = IF cur[d].value = NoValue THEN NoValue ELSE bumpedDelay(cur[d].value)
    /\ \A i \in 1..Len(cur) : i # d => new[i] = cur[i]

LEMMA UpdateRaises ==
    ASSUME NEW cur \in File, NEW d \in 1..Len(cur), cur[d].value # NoValue
    PROVE  RaisedLine(cur, [cur EXCEPT ![d].value = bumpedDelay(cur[d].value)], d)
<1>1. PICK n \in Nat : n = bumpedDelay(cur[d].value)
  BY FileLines, BumpsAreNat
<1> DEFINE new == [cur EXCEPT ![d].value = n]
<1>2. /\ new \in File /\ SameShape(cur, new)
      /\ \A i \in 1..Len(cur) : new[i].value = IF i = d THEN n ELSE cur[i].value
      /\ \A i \in 1..Len(cur) : i # d => new[i] = cur[i]
  BY SetValueIs
<1>3. new = [cur EXCEPT ![d].value = bumpedDelay(cur[d].value)]
  BY <1>1
<1> HIDE DEF new
<1>4. RaisedLine(cur, new, d)
  BY <1>1, <1>2 DEF RaisedLine
<1> QED BY <1>3, <1>4

LEMMA PatchBlockRaises ==
    ASSUME NEW ls \in File, WellFormed(ls), NEW b \in Keyed(ls),
           ChildrenWith(ls, b, "initialDelaySeconds") # {},
           NEW cur \in File, Len(ls) <= Len(cur)
    PROVE  RaisedLine(cur, PatchBlock(ls, cur, b), Least(ChildrenWith(ls, b, "initialDelaySeconds")))
<1>1. PICK d \in Keyed(ls) : d = Least(ChildrenWith(ls, b, "initialDelaySeconds"))
  BY DelayIs
<1>2. d \in 1..Len(cur) /\ Len(cur) \in Nat /\ cur[d].value \in Nat
  BY FileLines
<1>3. PatchBlock(ls, cur, b) = IF cur[d].value = NoValue THEN cur
                               ELSE [cur EXCEPT ![d].value = bumpedDelay(cur[d].value)]
  BY <1>1, <1>2, FileLines DEF PatchBlock
<1>4. CASE cur[d].value = NoValue
  <2>1. SameShape(cur, cur)
    BY <1>2 DEF SameShape, Alike
  <2> QED BY <1>1, <1>3, <1>4, <2>1 DEF RaisedLine
<1>5. CASE cur[d].value # NoValue
  BY <1>1, <1>2, <1>3, <1>5, UpdateRaises
<1> QED BY <1>4, <1>5

\* A block with a delay gets it raised.
LEMMA DelayRaised ==
    ASSUME NEW ls \in File, WellFormed(ls), NEW cur, NEW D, PatchedAt(ls, cur, D),
           NEW b, NextBlock(ls, D, b), ChildrenWith(ls, b, "initialDelaySeconds") # {}
    PROVE  PatchedAt(ls, PatchBlock(ls, cur, b), D \cup {b})
<1> DEFINE l == Least(ChildrenWith(ls, b, "initialDelaySeconds"))
           d == Delay(ls, b)
           new == PatchBlock(ls, cur, b)
           old == Mapping(ls)
<1>1. /\ b \in Keyed(ls) /\ b \in Nat /\ D \subseteq Keyed(ls) /\ b \in ProbeBlocks(ls)
      /\ \A e \in D : b < e /\ e \in ProbeBlocks(ls)
  BY ProbesKeyed DEF NextBlock
<1>2. l \in Keyed(ls) /\ l \in Body(ls, b) /\ Paths(ls)[l] = d
  BY <1>1, DelayIs
<1>3. cur \in File /\ WellFormed(cur) /\ Len(ls) <= Len(cur)
  BY DEF PatchedAt
<1>4. RaisedLine(cur, new, l)
  BY <1>1, <1>3, PatchBlockRaises
<1>5. d \in DOMAIN old /\ old[d] = ls[l].value
  BY <1>2, MappingAt
<1>6. d \notin Delays(ls, D)
  BY <1>1, OwnDelay DEF Delays
<1>7. Delays(ls, D \cup {b}) = Delays(ls, D) \cup {d}
  BY DelaysAdd
<1> HIDE DEF l, d, new, old
<1>8. /\ Len(ls) \in Nat /\ Len(cur) \in Nat /\ Keyed(ls) \subseteq 1..Len(ls)
      /\ Keyed(cur) \subseteq 1..Len(cur) /\ b < l /\ l \in 1..Len(ls)
  BY <1>1, <1>2, <1>3, FileLines, BodyIs
<1>9. /\ new \in File /\ SameShape(cur, new) /\ Len(new) = Len(cur)
      /\ \A i \in 1..Len(cur) : new[i].indent = cur[i].indent
      /\ \A i \in 1..Len(cur) : i # l => new[i] = cur[i]
      /\ new[l].value = IF cur[l].value = NoValue THEN NoValue ELSE bumpedDelay(cur[l].value)
  BY <1>4 DEF RaisedLine, SameShape, Alike
<1>10. /\ WellFormed(new) /\ DOMAIN Mapping(new) = DOMAIN Mapping(cur)
       /\ \A i \in Keyed(cur) : Mapping(new)[Paths(cur)[i]] = new[i].value
  BY <1>3, <1>9, ShapeKept
<1>11. /\ DOMAIN Mapping(cur) = {Paths(cur)[i] : i \in Keyed(cur)}
       /\ \A i \in Keyed(cur) : Mapping(cur)[Paths(cur)[i]] = cur[i].value
  BY <1>3, MappingAt
<1>12. DOMAIN Mapping(new) = DOMAIN old \cup Delays(ls, D \cup {b})
  <2>1. DOMAIN Mapping(cur) = DOMAIN old \cup Delays(ls, D)
    BY DEF PatchedAt, old
  <2> QED BY <1>5, <1>7, <1>10, <2>1
<1>13. \A i \in 1..Len(new) : \E k \in 1..Len(ls) : new[i].indent = ls[k].indent
  BY <1>9 DEF PatchedAt
<1>14. ASSUME NEW i \in 1..Len(ls), \A e \in D \cup {b} : i <= e PROVE new[i] = ls[i]
  <2>1. cur[i] = ls[i]
    BY <1>14 DEF PatchedAt
  <2>2. i # l /\ i \in 1..Len(cur)
    BY <1>1, <1>3, <1>8, <1>14
  <2> QED BY <1>9, <2>1, <2>2
<1>15. ASSUME ProbesApart(ls)
       PROVE  l \in Keyed(cur) /\ Paths(cur)[l] = d /\ cur[l] = ls[l]
  <2>1. ASSUME NEW e \in D, ~(l <= e) PROVE FALSE
    <3>1. e \in Keyed(ls) /\ b < e /\ e <= l
      BY <1>1, <1>8, <2>1
    <3>2. e \in Body(ls, b)
      BY <1>1, <1>2, <3>1, BodyIs
    <3> QED BY <1>1, <1>15, <3>2 DEF ProbesApart
  <2>2. ASSUME NEW i \in 1..l PROVE cur[i] = ls[i]
    <3>1. i \in 1..Len(ls) /\ \A e \in D : i <= e
      BY <1>1, <1>8, <2>1
    <3> QED BY <3>1 DEF PatchedAt
  <2>3. Alike(ls, cur, l)
    BY <1>3, <1>8, <2>2 DEF Alike
  <2>4. l \in 1..l
    BY <1>8
  <2>5. l \in Keyed(cur)
    BY <1>2, <1>3, <2>3, <2>4, AlikeParents
  <2>6. Paths(cur)[l] = Paths(ls)[l]
    BY <1>2, <1>3, <2>3, <2>4, AlikePaths
  <2> QED BY <1>2, <2>2, <2>4, <2>5, <2>6
<1>16. ASSUME ProbesApart(ls), NEW p \in DOMAIN Mapping(new)
       PROVE  Mapping(new)[p] = Raised(old, Delays(ls, D \cup {b}), p)
  <2>1. PICK i \in Keyed(cur) : p = Paths(cur)[i]
    <3>1. p \in {Paths(cur)[i] : i \in Keyed(cur)}
      BY <1>10, <1>11, <1>16
    <3> QED BY <3>1
  <2>2. l \in Keyed(cur) /\ Paths(cur)[l] = d /\ cur[l] = ls[l]
    BY <1>15, <1>16
  <2>3. CASE i = l
    <3>1. p = d /\ Mapping(new)[p] = new[l].value
      BY <1>10, <2>1, <2>2, <2>3
    <3> QED BY <1>5, <1>7, <1>9, <2>2, <3>1 DEF Raised
  <2>4. CASE i # l
    <3>1. p # d
      BY <1>3, <2>1, <2>2, <2>4, OwnPath
    <3>2. Mapping(new)[p] = cur[i].value /\ Mapping(cur)[p] = cur[i].value
      BY <1>8, <1>9, <1>10, <1>11, <2>1, <2>4
    <3>3. Mapping(cur)[p] = Raised(old, Delays(ls, D), p)
      BY <1>10, <1>16 DEF PatchedAt, old
    <3>4. Raised(old, Delays(ls, D \cup {b}), p) = Raised(old, Delays(ls, D), p)
      BY <1>7, <3>1 DEF Raised
    <3> QED BY <3>2, <3>3, <3>4
  <2> QED BY <2>3, <2>4
<1>17. Len(ls) <= Len(new)
  BY <1>3, <1>9
<1>18. PatchedAt(ls, new, D \cup {b})
  BY <1>9, <1>10, <1>12, <1>13, <1>14, <1>16, <1>17 DEF PatchedAt, old
<1> QED BY <1>18 DEF new

\* One block of the loop of GenerateProbeFix.
LEMMA BlockPatched ==
    ASSUME NEW ls \in File, WellFormed(ls), NEW cur, NEW D, PatchedAt(ls, cur, D),
           NEW b, NextBlock(ls, D, b)
    PROVE  PatchedAt(ls, PatchBlock(ls, cur, b), D \cup {b})
BY DelayInserted, DelayRaised

-----------------------------------------------------------------------------
(* The blocks of a file, the last one first *)

Above(I, i) == {j \in I : j > i}

LEMMA CountIs ==
    ASSUME NEW n \in Nat, NEW I, I \subseteq 1..n
    PROVE  I \subseteq Int /\ IsFiniteSet(I) /\ Cardinality(I) \in Nat
<1>1. I \subseteq Int
  OBVIOUS
<1>2. IsFiniteSet(1..n)
  BY FS_Interval
<1>3. I \in SUBSET (1..n)
  OBVIOUS
<1>4. IsFiniteSet(I)
  BY <1>2, <1>3, FS_Subset
<1> QED BY <1>1, <1>4, FS_CardinalityType

LEMMA AboveHas ==
    ASSUME NEW I, I \subseteq Int, NEW i \in I
    PROVE  /\ Above(I, i) \subseteq I /\ i \notin Above(I, i)
           /\ \A j \in I : j \in Above(I, i) <=> i < j
BY DEF Above

LEMMA AboveIs ==
    ASSUME NEW n \in Nat, NEW I, I \subseteq 1..n, NEW i \in I
    PROVE  /\ IsFiniteSet(I) /\ Cardinality(I) \in Nat
           /\ IsFiniteSet(Above(I, i)) /\ Cardinality(Above(I, i)) \in Nat
           /\ Cardinality(Above(I, i)) < Cardinality(I)
           /\ \A j \in I : i < j => Cardinality(Above(I, j)) < Cardinality(Above(I, i))
<1>1. I \subseteq Int
  BY CountIs
<1>2. IsFiniteSet(I) /\ Cardinality(I) \in Nat
  BY CountIs
<1>3. \A j \in I : /\ IsFiniteSet(Above(I, j)) /\ Cardinality(Above(I, j)) \in Nat
                   /\ IsFiniteSet(Above(I, j) \cup {j})
                   /\ Cardinality(Above(I, j) \cup {j}) = Cardinality(Above(I, j)) + 1
  <2> TAKE j \in I
  <2>1. Above(I, j) \in SUBSET I /\ j \notin Above(I, j)
    BY <1>1, AboveHas
  <2>2. IsFiniteSet(Above(I, j)) /\ Cardinality(Above(I, j)) \in Nat
    BY <1>2, <2>1, FS_Subset, FS_CardinalityType
  <2> QED BY <2>1, <2>2, FS_AddElement
<1>4. Cardinality(Above(I, i) \cup {i}) <= Cardinality(I)
  <2>1. Above(I, i) \cup {i} \in SUBSET I
    BY DEF Above
  <2> QED BY <1>2, <2>1, FS_Subset
<1>5. ASSUME NEW j \in I, i < j PROVE Cardinality(Above(I, j)) < Cardinality(Above(I, i))
  <2>1. Above(I, j) \cup {j} \in SUBSET Above(I, i)
    <3>1. ASSUME NEW k \in I, k \in Above(I, j) PROVE i < k
      <4>1. i \in Int /\ j \in Int /\ k \in Int /\ j < k
        BY <1>1, <3>1, AboveHas
      <4> QED BY <1>5, <4>1
    <3>2. ASSUME NEW k \in Above(I, j) PROVE k \in Above(I, i)
      BY <1>1, <3>1, AboveHas
    <3>3. j \in Above(I, i)
      BY <1>1, <1>5, AboveHas
    <3> QED BY <3>2, <3>3
  <2>2. Cardinality(Above(I, j) \cup {j}) <= Cardinality(Above(I, i))
    BY <1>3, <2>1, FS_Subset
  <2> DEFINE x == Cardinality(Above(I, i))
             y == Cardinality(Above(I, j))
  <2>3. x \in Nat /\ y \in Nat /\ y + 1 <= x
    BY <1>3, <2>2
  <2> HIDE DEF x, y
  <2>4. y < x
    BY <2>3
  <2> QED BY <2>4 DEF x, y
<1>6. Cardinality(Above(I, i)) < Cardinality(I)
  <2> DEFINE x == Cardinality(I)
             y == Cardinality(Above(I, i))
  <2>1. x \in Nat /\ y \in Nat /\ y + 1 <= x
    BY <1>2, <1>3, <1>4
  <2> HIDE DEF x, y
  <2>2. y < x
    BY <2>1
  <2> QED BY <2>2 DEF x, y
<1> QED BY <1>2, <1>3, <1>5, <1>6

\* The blocks can be counted from the last one up.
LEMMA Counted ==
    ASSUME NEW n \in Nat, NEW I, I \subseteq 1..n, NEW m \in Nat, m < Cardinality(I)
    PROVE  \E i \in I : Cardinality(Above(I, i)) = m
<1> DEFINE K == {k \in Nat : k < Cardinality(I)}
           S == {k \in K : \E i \in I : Cardinality(Above(I, i)) = k}
<1>1. I \subseteq Int
  BY CountIs
<1>2. IsFiniteSet(I) /\ Cardinality(I) \in Nat
  BY CountIs
<1>3. \A i \in I : IsFiniteSet(Above(I, i)) /\ Cardinality(Above(I, i)) \in Nat
  BY AboveIs
<1>4. ASSUME NEW k \in K, \A j \in K : j < k => j \in S
      PROVE  k \in S
  <2>1. CASE k = 0
    <3>1. I # {}
      BY <1>2, <2>1, FS_EmptySet
    <3>2. PICK i \in I : \A j \in I : j <= i
      BY <3>1, GreatestIs
    <3>3. Above(I, i) = {}
      <4>1. ASSUME NEW j \in Above(I, i) PROVE FALSE
        <5>1. j \in I /\ i < j
          BY <1>1, AboveHas
        <5> QED BY <1>1, <3>2, <5>1
      <4> QED BY <4>1
    <3>4. Cardinality(Above(I, i)) = k
      BY <2>1, <3>3, FS_EmptySet
    <3> QED BY <3>4
  <2>2. CASE k # 0
    <3>1. k - 1 \in K /\ k - 1 < k
      BY <1>2, <2>2
    <3>2. k - 1 \in S
      BY <1>4, <3>1
    <3>3. PICK i \in I : Cardinality(Above(I, i)) = k - 1
      BY <3>2
    <3> DEFINE T == {j \in I : j < i}
    <3>4. Cardinality(Above(I, i) \cup {i}) = k
      <4>1. i \notin Above(I, i)
        BY DEF Above
      <4>2. Cardinality(Above(I, i) \cup {i}) = Cardinality(Above(I, i)) + 1
        BY <1>3, <4>1, FS_AddElement
      <4> QED BY <3>3, <4>2
    <3>5. T # {}
      <4>1. ASSUME T = {} PROVE I = Above(I, i) \cup {i}
        <5>1. ASSUME NEW j \in I PROVE j \in Above(I, i) \/ j = i
          <6>1. ~(j < i)
            BY <4>1
          <6>2. i \in Int /\ j \in Int /\ (j \in Above(I, i) <=> i < j)
            BY <1>1, AboveHas
          <6> QED BY <6>1, <6>2
        <5>2. Above(I, i) \subseteq I
          BY <1>1, AboveHas
        <5> QED BY <5>1, <5>2
      <4> QED BY <1>2, <3>4, <4>1
    <3>6. PICK j \in T : \A l \in T : l <= j
      <4>1. T \subseteq 1..n
        OBVIOUS
      <4> HIDE DEF T
      <4> QED BY <3>5, <4>1, GreatestIs
    <3>7. j \in I /\ Above(I, j) = Above(I, i) \cup {i}
      <4>1. j \in I /\ j < i
        BY <3>6
      <4>2. ASSUME NEW l \in I PROVE l \in Above(I, j) <=> l \in Above(I, i) \/ l = i
        <5>1. (l \in Above(I, j) <=> j < l) /\ (l \in Above(I, i) <=> i < l)
          BY <1>1, <4>1, AboveHas
        <5>2. l < i => l <= j
          BY <3>6
        <5> QED BY <1>1, <4>1, <5>1, <5>2
      <4>3. Above(I, j) \subseteq I /\ Above(I, i) \subseteq I
        BY <1>1, <4>1, AboveHas
      <4> QED BY <4>1, <4>2, <4>3
    <3> QED BY <3>4, <3>7
  <2> QED BY <2>1, <2>2
<1>5. K \subseteq S
  <2>1. K \subseteq Nat
    OBVIOUS
  <2> HIDE DEF S, K
  <2> QED BY <1>4, <2>1, Induction
<1>6. m \in S
  BY <1>5
<1> QED BY <1>6

\* The n blocks of I that come last.
Lowest(I, n) == {i \in I : Cardinality(Above(I, i)) < n}

LEMMA BottomUpIs ==
    ASSUME NEW n \in Nat, NEW I, I \subseteq 1..n
    PROVE  /\ Cardinality(I) \in Nat /\ Lowest(I, 0) = {} /\ Lowest(I, Cardinality(I)) = I
           /\ \A m \in 1..Cardinality(I) :
                /\ BottomUp(I, m) \in I
                /\ Lowest(I, m) = Lowest(I, m - 1) \cup {BottomUp(I, m)}
                /\ \A d \in Lowest(I, m - 1) : BottomUp(I, m) < d
<1>1. Cardinality(I) \in Nat
  BY CountIs
<1>2. \A i \in I : Cardinality(Above(I, i)) \in Nat /\ Cardinality(Above(I, i)) < Cardinality(I)
  BY AboveIs
<1>3. Lowest(I, 0) = {} /\ Lowest(I, Cardinality(I)) = I
  <2>1. \A i \in I : i \notin Lowest(I, 0) /\ i \in Lowest(I, Cardinality(I))
    BY <1>1, <1>2 DEF Lowest
  <2>2. Lowest(I, 0) \subseteq I /\ Lowest(I, Cardinality(I)) \subseteq I
    BY DEF Lowest
  <2> QED BY <2>1, <2>2
<1>4. ASSUME NEW m \in 1..Cardinality(I)
      PROVE  /\ BottomUp(I, m) \in I
             /\ Lowest(I, m) = Lowest(I, m - 1) \cup {BottomUp(I, m)}
             /\ \A d \in Lowest(I, m - 1) : BottomUp(I, m) < d
  <2> DEFINE b == BottomUp(I, m)
  <2>1. m - 1 \in Nat /\ m - 1 < Cardinality(I) /\ m \in Nat
    BY <1>1
  <2>2. \E i \in I : Cardinality(Above(I, i)) = m - 1
    BY <2>1, Counted
  <2>3. b \in I /\ Cardinality(Above(I, b)) = m - 1
    BY <2>2 DEF BottomUp, Above
  <2> HIDE DEF b
  <2>4. ASSUME NEW i \in I, i # b
        PROVE  IF b < i THEN Cardinality(Above(I, i)) < m - 1 ELSE Cardinality(Above(I, i)) > m - 1
    <3>1. CASE b < i
      BY <2>3, <3>1, AboveIs
    <3>2. CASE ~(b < i)
      <4>1. i < b
        BY <2>3, <2>4, <3>2
      <4>2. Cardinality(Above(I, b)) < Cardinality(Above(I, i))
        BY <2>3, <4>1, AboveIs
      <4> QED BY <1>2, <2>1, <2>3, <3>2, <4>2
    <3> QED BY <3>1, <3>2
  <2>5. ASSUME NEW i \in I PROVE i \in Lowest(I, m) <=> i \in Lowest(I, m - 1) \/ i = b
    BY <1>2, <2>1, <2>3, <2>4 DEF Lowest
  <2>6. Lowest(I, m) = Lowest(I, m - 1) \cup {b}
    BY <2>3, <2>5 DEF Lowest
  <2>7. ASSUME NEW d \in Lowest(I, m - 1) PROVE b < d
    BY <1>2, <2>1, <2>3, <2>4 DEF Lowest
  <2> QED BY <2>3, <2>6, <2>7 DEF b
<1> QED BY <1>1, <1>3, <1>4

-----------------------------------------------------------------------------
(* All probe blocks *)

\* The definition of `patched' in ProbeFix, up to the n-th block.
FixStep(ls, blocks, patched, n) ==
    IF n = 0 THEN ls ELSE PatchBlock(ls, patched[n - 1], BottomUp(blocks, n))

FixOf(ls, blocks, patched, n) ==
    patched = [m \in 0..n |-> FixStep(ls, blocks, patched, m)]

LEMMA FixExists ==
    ASSUME NEW ls, NEW blocks, NEW n \in Nat
    PROVE  \E patched : FixOf(ls, blocks, patched, n)
<1> DEFINE S == {m \in Nat : \E patched : FixOf(ls, blocks, patched, m)}
<1>1. ASSUME NEW m \in Nat, \A k \in Nat : k < m => k \in S
      PROVE  m \in S
  <2>1. CASE m = 0
    <3> DEFINE patched == [k \in 0..0 |-> ls]
    <3>1. FixOf(ls, blocks, patched, 0)
      BY DEF FixOf, FixStep
    <3> QED BY <2>1, <3>1
  <2>2. CASE m # 0
    <3>1. m - 1 \in Nat /\ m - 1 < m
      BY <2>2
    <3>2. m - 1 \in S
      BY <1>1, <3>1
    <3>3. PICK patched : FixOf(ls, blocks, patched, m - 1)
      BY <3>2
    <3> DEFINE more == [k \in 0..m |-> FixStep(ls, blocks, patched, k)]
    <3>4. ASSUME NEW k \in 0..m
          PROVE  FixStep(ls, blocks, more, k) = FixStep(ls, blocks, patched, k)
      <4>1. CASE k = 0
        BY <4>1 DEF FixStep
      <4>2. CASE k # 0
        <5>1. k - 1 \in 0..m - 1 /\ k - 1 \in 0..m
          BY <4>2
        <5>2. more[k - 1] = patched[k - 1]
          BY <3>3, <5>1 DEF FixOf
        <5> QED BY <5>2 DEF FixStep
      <4> QED BY <4>1, <4>2
    <3>5. FixOf(ls, blocks, more, m)
      BY <3>4 DEF FixOf
    <3> QED BY <3>5
  <2> QED BY <2>1, <2>2
<1>2. Nat \subseteq S
  <2> HIDE DEF S
  <2> QED BY <1>1, Induction
<1> QED BY <1>2

LEMMA ProbeFixIs ==
    ASSUME NEW ls, Cardinality(ProbeBlocks(ls)) \in Nat
    PROVE  \E patched : /\ FixOf(ls, ProbeBlocks(ls), patched, Cardinality(ProbeBlocks(ls)))
                        /\ ProbeFix(ls) = patched[Cardinality(ProbeBlocks(ls))]
<1> DEFINE blocks == ProbeBlocks(ls)
           n == Cardinality(blocks)
           fix == CHOOSE patched : FixOf(ls, blocks, patched, n)
<1>1. FixOf(ls, blocks, fix, n)
  <2> HIDE DEF blocks
  <2> QED BY FixExists DEF blocks
<1>2. ProbeFix(ls) = fix[n]
  BY DEF ProbeFix, FixOf, FixStep
<1> QED BY <1>1, <1>2

\* The file after the loop: every probe block of the file it began with is patched.
LEMMA AllBlocksPatched ==
    ASSUME NEW ls \in File, WellFormed(ls)
    PROVE  PatchedAt(ls, ProbeFix(ls), ProbeBlocks(ls))
<1> DEFINE I == ProbeBlocks(ls)
           n == Cardinality(I)
<1>1. Len(ls) \in Nat /\ I \subseteq 1..Len(ls)
  BY FileLines DEF ProbeBlocks
<1>2. /\ n \in Nat /\ Lowest(I, 0) = {} /\ Lowest(I, n) = I
      /\ \A m \in 1..n : /\ BottomUp(I, m) \in I
                         /\ Lowest(I, m) = Lowest(I, m - 1) \cup {BottomUp(I, m)}
                         /\ \A d \in Lowest(I, m - 1) : BottomUp(I, m) < d
  BY <1>1, BottomUpIs
<1>3. PICK patched : FixOf(ls, I, patched, n) /\ ProbeFix(ls) = patched[n]
  BY <1>2, ProbeFixIs
<1>4. \A m \in 0..n : patched[m] = FixStep(ls, I, patched, m)
  BY <1>3 DEF FixOf
<1>5. PatchedAt(ls, ls, {})
  <2>1. \A p \in DOMAIN Mapping(ls) : Mapping(ls)[p] = Raised(Mapping(ls), Delays(ls, {}), p)
    BY DEF Raised, Delays
  <2>2. Delays(ls, {}) = {}
    BY DEF Delays
  <2>3. DOMAIN Mapping(ls) = DOMAIN Mapping(ls) \cup Delays(ls, {})
    BY <2>2
  <2>4. \A i \in 1..Len(ls) : \E k \in 1..Len(ls) : ls[i].indent = ls[k].indent
    OBVIOUS
  <2>5. Len(ls) <= Len(ls)
    BY <1>1
  <2> QED BY <2>1, <2>3, <2>4, <2>5 DEF PatchedAt
<1> HIDE DEF n
<1> DEFINE S == {m \in 0..n : PatchedAt(ls, patched[m], Lowest(I, m))}
<1>6. ASSUME NEW m \in 0..n, \A k \in 0..n : k < m => k \in S
      PROVE  m \in S
  <2>1. CASE m = 0
    BY <1>2, <1>4, <1>5, <2>1 DEF FixStep
  <2>2. CASE m # 0
    <3>1. m - 1 \in 0..n /\ m - 1 < m /\ m \in 1..n
      BY <1>2, <2>2
    <3>2. PatchedAt(ls, patched[m - 1], Lowest(I, m - 1))
      BY <1>6, <3>1
    <3>3. NextBlock(ls, Lowest(I, m - 1), BottomUp(I, m))
      BY <1>2, <3>1 DEF NextBlock, Lowest
    <3>4. PatchedAt(ls, PatchBlock(ls, patched[m - 1], BottomUp(I, m)),
                    Lowest(I, m - 1) \cup {BottomUp(I, m)})
      BY <3>2, <3>3, BlockPatched
    <3>5. patched[m] = PatchBlock(ls, patched[m - 1], BottomUp(I, m))
      BY <1>4, <2>2 DEF FixStep
    <3> QED BY <1>2, <3>1, <3>4, <3>5
  <2> QED BY <2>1, <2>2
<1>7. 0..n \subseteq S
  <2>1. 0..n \subseteq Nat
    BY <1>2
  <2> HIDE DEF S
  <2> QED BY <1>6, <2>1, Induction
<1>8. n \in S
  BY <1>2, <1>7
<1> QED BY <1>2, <1>3, <1>8 DEF n

\* The delays that the property speaks of are those of the blocks that the scan finds.
LEMMA ProbesFixed ==
    ASSUME lines \in File, WellFormed(lines), ProbesApart(lines)
    PROVE  ProbeFixIsTheProbes
<1> DEFINE old == Mapping(lines)
           new == Mapping(ProbeFix(lines))
           D == Delays(lines, ProbeBlocks(lines))
           P == {q \in DOMAIN old : IsProbe(DOMAIN old, q)}
<1>1. DOMAIN old = {Paths(lines)[i] : i \in Keyed(lines)}
  BY MappingAt
<1>2. \A i \in Keyed(lines) : IsProbe(DOMAIN old, Paths(lines)[i]) <=> i \in ProbeBlocks(lines)
  BY ProbesFound
<1>3. ProbeBlocks(lines) \subseteq Keyed(lines)
  BY DEF ProbeBlocks
<1>4. PatchedAt(lines, ProbeFix(lines), ProbeBlocks(lines))
  BY AllBlocksPatched
<1>5. /\ DOMAIN new = DOMAIN old \cup D
      /\ \A p \in DOMAIN new : new[p] = Raised(old, D, p)
  BY <1>4 DEF PatchedAt
<1> HIDE DEF old, new
<1>6. P = {Paths(lines)[i] : i \in ProbeBlocks(lines)}
  <2>1. ASSUME NEW p \in P PROVE p \in {Paths(lines)[i] : i \in ProbeBlocks(lines)}
    <3>1. PICK i \in Keyed(lines) : p = Paths(lines)[i]
      BY <1>1
    <3> QED BY <1>2, <3>1
  <2>2. ASSUME NEW i \in ProbeBlocks(lines) PROVE Paths(lines)[i] \in P
    BY <1>1, <1>2, <1>3
  <2> QED BY <2>1, <2>2
<1>7. {Append(p, "initialDelaySeconds") : p \in P} = D
  BY <1>6 DEF Delays, Delay
<1> HIDE DEF D
<1>8. /\ DOMAIN new = DOMAIN old \cup {Append(p, "initialDelaySeconds") : p \in P}
      /\ \A p \in DOMAIN new :
           new[p] = Raised(old, {Append(q, "initialDelaySeconds") : q \in P}, p)
  BY <1>5, <1>7
<1> QED BY <1>8, Zenon DEF ProbeFixIsTheProbes, Raised, old, new

-----------------------------------------------------------------------------
(* People and the agent *)

\* What the forms say of the numbers of a file.
LEMMA FormIs ==
    ASSUME form \in Form
    PROVE  /\ form.indent \in Nat /\ form.value \in Nat /\ form.values \subseteq 1..form.value
           /\ form.values \subseteq Nat \ {0}
           /\ form.inside \subseteq Key \X (Block \cup {"file"})
<1>1. /\ form.indent \in Nat /\ form.value \in Nat /\ form.values \subseteq 1..form.value
      /\ form.inside \subseteq Key \X (Block \cup {"file"})
  BY PatchesAssumption DEF Key
<1>2. 1..form.value \subseteq Nat \ {0}
  BY <1>1
<1> QED BY <1>1, <1>2

LEMMA LinesAreFile ==
    ASSUME PatchesTypeOK
    PROVE  /\ lines \in File /\ WellFormed(lines) /\ form \in Form
           /\ \A i \in 1..Len(lines) : lines[i].indent \in 0..form.indent
<1>1. lines \in Seq(Line) /\ WellFormed(lines) /\ form \in Form
  BY DEF PatchesTypeOK
<1>2. form.indent \in Nat /\ form.value \in Nat
  BY <1>1, FormIs
<1>3. 0..form.indent \subseteq Nat /\ 0..form.value \subseteq Nat
  BY <1>2
<1>4. Line \subseteq Text
  BY <1>3 DEF Line, Text, Key
<1>5. lines \in Seq(Text)
  BY <1>1, <1>4
<1>6. \A i \in 1..Len(lines) : lines[i] \in Line
  BY <1>1
<1>7. \A l \in Line : l.indent \in 0..form.indent
  BY DEF Line
<1> QED BY <1>1, <1>5, <1>6, <1>7 DEF File

LEMMA FileIsLines ==
    ASSUME form \in Form, NEW ls \in File,
           \A i \in 1..Len(ls) : ls[i].indent \in 0..form.indent /\ ls[i].value <= form.value
    PROVE  ls \in Seq(Line)
<1>1. Len(ls) \in Nat /\ DOMAIN ls = 1..Len(ls) /\ \A i \in 1..Len(ls) : ls[i] \in Text
  BY FileLines
<1>2. form.value \in Nat
  BY FormIs
<1>3. ASSUME NEW i \in 1..Len(ls) PROVE ls[i] \in Line
  <2>1. /\ ls[i].indent \in 0..form.indent /\ ls[i].value <= form.value
        /\ ls[i].value \in Nat /\ ls[i].key \in Key
    BY <1>1, FileLines
  <2>2. ls[i].value \in 0..form.value
    BY <1>2, <2>1
  <2>3. ls[i] \in Text
    BY <1>1
  <2> QED BY <2>1, <2>2, <2>3 DEF Line, Text, Key
<1>4. ls \in [1..Len(ls) -> Line]
  <2>1. ls = [i \in 1..Len(ls) |-> ls[i]]
    BY <1>1 DEF File
  <2> QED BY <1>3, <2>1
<1> QED BY <1>1, <1>4

\* What a patch makes of a file is a file, if it is one and no line is deeper than before.
LEMMA PatchKeepsFiles ==
    ASSUME PatchesTypeOK, NEW patched \in File, WellFormed(patched), Patch(patched),
           \A i \in 1..Len(patched) : \E k \in 1..Len(lines) : patched[i].indent = lines[k].indent
    PROVE  PatchesTypeOK'
<1>1. form \in Form /\ \A i \in 1..Len(lines) : lines[i].indent \in 0..form.indent
  BY LinesAreFile
<1>2. lines' = patched /\ form' = form /\ \A i \in DOMAIN patched : patched[i].value <= form.value
  BY DEF Patch
<1>3. \A i \in 1..Len(patched) : patched[i].indent \in 0..form.indent
  BY <1>1
<1>4. patched \in Seq(Line)
  <2>1. \A i \in 1..Len(patched) : patched[i].value <= form.value
    BY <1>2, FileLines
  <2> QED BY <1>1, <1>3, <2>1, FileIsLines
<1>5. Line' = Line
  BY <1>2 DEF Line
<1> QED BY <1>1, <1>2, <1>4, <1>5 DEF PatchesTypeOK

LEMMA RevaluingKeepsFiles ==
    ASSUME PatchesTypeOK, NEW patched \in File, SameShape(lines, patched), Patch(patched)
    PROVE  PatchesTypeOK'
<1>1. lines \in File /\ WellFormed(lines)
  BY LinesAreFile
<1>2. WellFormed(patched)
  BY <1>1, ShapeKept
<1>3. \A i \in 1..Len(patched) : i \in 1..Len(lines) /\ patched[i].indent = lines[i].indent
  BY DEF SameShape, Alike
<1>4. \A i \in 1..Len(patched) : \E k \in 1..Len(lines) : patched[i].indent = lines[k].indent
  BY <1>3
<1> QED BY <1>2, <1>4, PatchKeepsFiles

\* What people write is a line of the form.
LEMMA LineAdded ==
    ASSUME form \in Form, AddLine
    PROVE  \E l \in Line : lines' = Append(lines, l) /\ WellFormed(lines')
<1>1. PICK indent \in 0..form.indent, place \in form.inside :
        \E value \in ValuesOf(place[1]) :
          /\ lines' = Append(lines, [indent |-> indent, key |-> place[1], value |-> value])
          /\ WellFormed(lines')
  BY Zenon DEF AddLine
<1>2. PICK value \in ValuesOf(place[1]) :
          /\ lines' = Append(lines, [indent |-> indent, key |-> place[1], value |-> value])
          /\ WellFormed(lines')
  BY <1>1
<1>3. place[1] \in Key
  BY FormIs
<1>4. value \in 0..form.value
  BY FormIs DEF ValuesOf, NoValue
<1> DEFINE l == [indent |-> indent, key |-> place[1], value |-> value]
<1>5. l \in Line
  BY <1>3, <1>4 DEF Line, Key
<1>6. lines' = Append(lines, l)
  BY <1>2
<1> HIDE DEF l
<1> QED BY <1>2, <1>5, <1>6

LEMMA AddLineKeepsFiles ==
    ASSUME PatchesTypeOK, AddLine
    PROVE  PatchesTypeOK'
<1>1. form' = form /\ form \in Form /\ lines \in Seq(Line)
  BY DEF AddLine, PatchesTypeOK
<1>2. PICK l \in Line : lines' = Append(lines, l) /\ WellFormed(lines')
  BY <1>1, LineAdded
<1>3. lines' \in Seq(Line)
  BY <1>1, <1>2
<1>4. Line' = Line
  BY <1>1 DEF Line
<1> QED BY <1>1, <1>2, <1>3, <1>4 DEF PatchesTypeOK

LEMMA PatchesInitTyped == ASSUME PatchesInit PROVE PatchesTypeOK
<1>1. lines = <<>> /\ form \in Form
  BY DEF PatchesInit
<1>2. Keyed(<<>>) = {}
  BY DEF Keyed
<1>3. WellFormed(<<>>)
  BY <1>2 DEF WellFormed
<1> QED BY <1>1, <1>3 DEF PatchesTypeOK

LEMMA PatchesStepTyped ==
    ASSUME PatchesTypeOK, [PatchesNext]_patchesVars
    PROVE  PatchesTypeOK'
<1>1. lines \in File /\ WellFormed(lines) /\ form \in Form
  BY LinesAreFile
<1>2. CASE AddLine
  BY <1>2, AddLineKeepsFiles
<1>3. CASE RollBack
  <2>1. PICK tag \in form.values : Patch(ImageRollback(lines, tag))
    BY <1>3 DEF RollBack
  <2>2. tag \in Nat
    BY <1>1, FormIs
  <2> QED BY <1>1, <2>1, <2>2, ImageRollbackIs, RevaluingKeepsFiles
<1>4. CASE BumpMemory
  BY <1>1, <1>4, MemoryBumpIs, RevaluingKeepsFiles DEF BumpMemory
<1>5. CASE BumpCPU
  BY <1>1, <1>5, CPUBumpIs, RevaluingKeepsFiles DEF BumpCPU
<1>6. CASE AdjustProbe
  <2>1. PatchedAt(lines, ProbeFix(lines), ProbeBlocks(lines))
    BY <1>1, AllBlocksPatched
  <2>2. /\ ProbeFix(lines) \in File /\ WellFormed(ProbeFix(lines))
        /\ \A i \in 1..Len(ProbeFix(lines)) :
             \E k \in 1..Len(lines) : ProbeFix(lines)[i].indent = lines[k].indent
    BY <2>1 DEF PatchedAt
  <2>3. Patch(ProbeFix(lines))
    BY <1>6 DEF AdjustProbe
  <2> QED BY <2>2, <2>3, PatchKeepsFiles
<1>7. CASE UNCHANGED patchesVars
  <2>1. lines' = lines /\ form' = form
    BY <1>7 DEF patchesVars
  <2> QED BY <2>1 DEF PatchesTypeOK, Line
<1> QED BY <1>2, <1>3, <1>4, <1>5, <1>6, <1>7 DEF PatchesNext

-----------------------------------------------------------------------------
(* No key is lost *)

KeysKept == DOMAIN Mapping(lines) \subseteq DOMAIN Mapping(lines')

LEMMA ShapeKeepsKeys ==
    ASSUME NEW ls \in File, WellFormed(ls), NEW new \in File, SameShape(ls, new)
    PROVE  DOMAIN Mapping(ls) \subseteq DOMAIN Mapping(new)
BY ShapeKept

LEMMA AppendKeepsKeys ==
    ASSUME NEW ls \in File, WellFormed(ls), NEW l \in Text, WellFormed(Append(ls, l))
    PROVE  DOMAIN Mapping(ls) \subseteq DOMAIN Mapping(Append(ls, l))
<1> DEFINE new == Append(ls, l)
           n == Len(ls)
<1>1. new \in File /\ Len(new) = n + 1 /\ \A i \in 1..n : new[i] = ls[i]
  BY DEF File
<1>2. n \in Nat /\ Keyed(ls) \subseteq 1..n
  BY FileLines
<1>3. WellFormed(new)
  OBVIOUS
<1> HIDE DEF new
<1>4. Alike(ls, new, n)
  BY <1>1, <1>2 DEF Alike
<1>5. ASSUME NEW i \in Keyed(ls) PROVE i \in Keyed(new) /\ Paths(new)[i] = Paths(ls)[i]
  BY <1>1, <1>2, <1>4, AlikeParents, AlikePaths
<1>6. /\ DOMAIN Mapping(ls) = {Paths(ls)[i] : i \in Keyed(ls)}
      /\ DOMAIN Mapping(new) = {Paths(new)[i] : i \in Keyed(new)}
  BY <1>1, <1>3, MappingAt
<1> QED BY <1>5, <1>6 DEF new

LEMMA StepKeepsKeys ==
    ASSUME PatchesTypeOK, [PatchesNext]_patchesVars
    PROVE  KeysKept
<1>1. lines \in File /\ WellFormed(lines) /\ form \in Form
  BY LinesAreFile
<1>2. CASE AddLine
  <2>1. PICK l \in Line : lines' = Append(lines, l) /\ WellFormed(lines')
    BY <1>1, <1>2, LineAdded
  <2>2. l \in Text
    BY <1>1, FormIs DEF Line, Text, Key
  <2> QED BY <1>1, <2>1, <2>2, AppendKeepsKeys DEF KeysKept
<1>3. CASE RollBack
  <2>1. PICK tag \in form.values : lines' = ImageRollback(lines, tag)
    BY <1>3 DEF RollBack, Patch
  <2>2. tag \in Nat
    BY <1>1, FormIs
  <2> QED BY <1>1, <2>1, <2>2, ImageRollbackIs, ShapeKeepsKeys DEF KeysKept
<1>4. CASE BumpMemory
  BY <1>1, <1>4, MemoryBumpIs, ShapeKeepsKeys DEF BumpMemory, Patch, KeysKept
<1>5. CASE BumpCPU
  BY <1>1, <1>5, CPUBumpIs, ShapeKeepsKeys DEF BumpCPU, Patch, KeysKept
<1>6. CASE AdjustProbe
  <2>1. PatchedAt(lines, ProbeFix(lines), ProbeBlocks(lines))
    BY <1>1, AllBlocksPatched
  <2>2. DOMAIN Mapping(lines) \subseteq DOMAIN Mapping(ProbeFix(lines))
    BY <2>1 DEF PatchedAt
  <2> QED BY <1>6, <2>2 DEF AdjustProbe, Patch, KeysKept
<1>7. CASE UNCHANGED patchesVars
  BY <1>7 DEF patchesVars, KeysKept
<1> QED BY <1>2, <1>3, <1>4, <1>5, <1>6, <1>7 DEF PatchesNext

-----------------------------------------------------------------------------
(* Theorems *)

\* Whatever the patches of fixer/patcher.go do to a values file, in any order and
\* between the lines that are added to it, it still is a file: no key is repeated and no
\* line leaves its block or the depths of the file.
THEOREM PatchesLeaveFiles == PatchesSpec => []PatchesTypeOK
<1>1. PatchesInit => PatchesTypeOK
  BY PatchesInitTyped
<1>2. PatchesTypeOK /\ [PatchesNext]_patchesVars => PatchesTypeOK'
  BY PatchesStepTyped
<1> QED BY <1>1, <1>2, PTL DEF PatchesSpec

\* GenerateImageRollback changes image.tag and nothing else, and ExtractImageTag reads
\* back what it wrote, in every file that people and the agent make.
THEOREM RollbackChangesTheChartTag == PatchesSpec => []RollbackIsTheChartTag
<1>1. ASSUME PatchesTypeOK PROVE RollbackIsTheChartTag
  <2>1. lines \in File /\ WellFormed(lines) /\ form \in Form
    BY <1>1, LinesAreFile
  <2> QED BY <2>1, FormIs, TagRolledBack
<1> QED BY <1>1, PatchesLeaveFiles, PTL

\* GenerateMemoryBump and GenerateCPUBump raise every limit there is, and touch no value
\* but memory and CPU, in every file that people and the agent make.
THEOREM BumpsRaiseLimits == PatchesSpec => []LimitsAreBumped
<1>1. ASSUME PatchesTypeOK PROVE LimitsAreBumped
  BY <1>1, LinesAreFile, LimitsBumped
<1> QED BY <1>1, PatchesLeaveFiles, PTL

\* GenerateProbeFix raises the delay of every liveness probe and of nothing else, in
\* every file whose probes do not lie within one another.
THEOREM ProbeFixRaisesProbes == PatchesSpec => [](ProbesApart(lines) => ProbeFixIsTheProbes)
<1>1. ASSUME PatchesTypeOK PROVE ProbesApart(lines) => ProbeFixIsTheProbes
  BY <1>1, LinesAreFile, ProbesFixed
<1> QED BY <1>1, PatchesLeaveFiles, PTL

\* Whatever the agent patches, and whatever probes lie within one another, no step takes
\* a key out of a values file: the loops of patcher.go only set values and insert lines.
THEOREM NoKeyIsLost == PatchesSpec => [][KeysKept]_patchesVars
<1>1. PatchesTypeOK /\ [PatchesNext]_patchesVars => [KeysKept]_patchesVars
  BY StepKeepsKeys
<1> QED BY <1>1, PatchesLeaveFiles, PTL DEF PatchesSpec

=============================================================================
