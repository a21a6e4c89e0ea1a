----------------------------- MODULE ScoutSpike -----------------------------
(***************************************************************************)
(* internal/scoutspike/scoutspike.go: presses of "Create spike N" become   *)
(* GitHub issues, one per normalised Source.  Presses on one source are    *)
(* serialised by an entry of a table that other presses clean up; an entry *)
(* remembers the issue it led to until GitHub's search shows it.           *)
(*                                                                         *)
(* Drafts are members of Src: two drafts with the same NormaliseURL of     *)
(* their Source are the same member, and a draft ParseDraft refuses never  *)
(* gets here.  GitHub's search is eventually consistent and lists newest   *)
(* issues first.                                                           *)
(***************************************************************************)
EXTENDS Integers, FiniteSets

CONSTANTS
    Press,      \* goroutines serving a button press at a time
    Src,        \* normalised sources
    Entry,      \* entry objects; enough for every source and press
    MaxIssue,   \* bound on the issues ever created
    PageSize,   \* searchPerPage
    MaxPage,    \* searchMaxPage
    Faults      \* see FaultKind

(***************************************************************************)
(* github: a call fails, or reports incomplete results.  answer: an issue  *)
(* is created and the call still fails.  short: a page that is not the     *)
(* last one lacks issues.  tail: the last one does.  crash: the process    *)
(* restarts.  byhand: somebody follows the "Draft spike N" link instead.   *)
(***************************************************************************)
FaultKind == {"github", "answer", "short", "tail", "crash", "byhand"}

NoEntry == "no entry"
Nobody == "nobody"
NoSrc == "no source"
NoIssue == 0

ASSUME ScoutAssumption ==
    /\ IsFiniteSet(Press) /\ Nobody \notin Press
    /\ NoEntry \notin Entry
    /\ NoSrc \notin Src
    /\ MaxIssue \in Nat
    /\ PageSize \in Nat \ {0}
    /\ MaxPage \in Nat \ {0}
    /\ Faults \subseteq FaultKind

VARIABLES
    entries,   \* Service.entries
    refs,      \* entry.refs
    holder,    \* entry.mu
    memo,      \* entry.created
    live,      \* now is before entry.expires
    job,       \* Press -> where its call of Create stands
    issue,     \* issue number -> its source
    indexed,   \* the issues GitHub's search knows
    excused    \* history: the sources that may get a second issue, see OneIssuePerSource

memory == <<entries, refs, holder, memo, live>>
gitHub == <<issue, indexed, excused>>
scoutVars == <<memory, gitHub, job>>

Issue == 1..MaxIssue
Idle == [step |-> "idle", src |-> NoSrc, entry |-> NoEntry, page |-> 0, known |-> {}]
Critical == {"access", "search", "create", "unlock"}

\* `known` is history: what the search knew when the press began to search, less
\* what a last page kept back.
Job == [step: {"idle", "lock", "release"} \cup Critical,
        src: Src \cup {NoSrc}, entry: Entry \cup {NoEntry},
        page: 0..MaxPage, known: SUBSET Issue]

ScoutTypeOK ==
    /\ entries \in [Src -> Entry \cup {NoEntry}]
    /\ refs \in [Entry -> Nat]
    /\ holder \in [Entry -> Press \cup {Nobody}]
    /\ memo \in [Entry -> Issue \cup {NoIssue}]
    /\ live \in [Entry -> BOOLEAN]
    /\ job \in [Press -> Job]
    /\ issue \in [Issue -> Src \cup {NoSrc}]
    /\ indexed \in SUBSET Issue
    /\ excused \in SUBSET Src

EmptyTable ==
    /\ entries = [s \in Src |-> NoEntry]
    /\ refs = [e \in Entry |-> 0]
    /\ holder = [e \in Entry |-> Nobody]
    /\ memo = [e \in Entry |-> NoIssue]
    /\ live = [e \in Entry |-> FALSE]
    /\ job = [p \in Press |-> Idle]

ScoutInit ==
    /\ EmptyTable
    /\ issue = [i \in Issue |-> NoSrc]
    /\ indexed = {}
    /\ excused = {}

-----------------------------------------------------------------------------
(* The table of entries *)

InTable == {entries[s] : s \in Src} \ {NoEntry}

EvictsMemos(s) ==
    {u \in Src \ {s} : entries[u] # NoEntry /\ refs[entries[u]] = 0}

EvictsInUse(s) ==
    {u \in Src \ {s} : entries[u] # NoEntry /\ ~live[entries[u]]}

\* The sources entryFor(s) drops the entry of.
Evicts(s) ==
    {u \in Src \ {s} : entries[u] # NoEntry /\ refs[entries[u]] = 0 /\ ~live[entries[u]]}

\* entryFor, under Service.mu: a free object stands for a new entry.
EntryFor(p, s) ==
    /\ job[p] = Idle
    /\ \E e \in Entry :
         /\ IF entries[s] # NoEntry
            THEN e = entries[s] /\ UNCHANGED <<memo, live>>
            ELSE /\ e \notin InTable /\ refs[e] = 0
                 /\ memo' = [memo EXCEPT ![e] = NoIssue]
                 /\ live' = [live EXCEPT ![e] = FALSE]
         /\ entries' = [u \in Src |-> IF u = s THEN e
                                      ELSE IF u \in Evicts(s) THEN NoEntry ELSE entries[u]]
         /\ refs' = [refs EXCEPT ![e] = @ + 1]
         /\ job' = [job EXCEPT ![p] = [Idle EXCEPT !.step = "lock", !.src = s, !.entry = e]]
    /\ UNCHANGED <<holder, gitHub>>

-----------------------------------------------------------------------------
(* Create, from the lock on *)

Goes(p, step) == job' = [job EXCEPT ![p].step = step]

\* A remembered issue ends the call.
Lock(p) ==
    /\ job[p].step = "lock"
    /\ holder[job[p].entry] = Nobody
    /\ holder' = [holder EXCEPT ![job[p].entry] = p]
    /\ Goes(p, IF live[job[p].entry] THEN "unlock" ELSE "access")
    /\ UNCHANGED <<entries, refs, memo, live, gitHub>>

RepoAccessible(p) ==
    /\ job[p].step = "access"
    /\ \/ job' = [job EXCEPT ![p].step = "search", ![p].page = 1, ![p].known = indexed]
       \/ "github" \in Faults /\ Goes(p, "unlock")
    /\ UNCHANGED <<memory, gitHub>>

Rank(i) == Cardinality({j \in indexed : j > i})

\* The issues of one page of a complete answer, newest first; none leaves the index.
OnPage(k) == {i \in indexed : (k - 1) * PageSize <= Rank(i) /\ Rank(i) < k * PageSize}

LastPage(k) == k * PageSize >= Cardinality(indexed)

Memoise(e, i) ==
    /\ memo' = [memo EXCEPT ![e] = i]
    /\ live' = [live EXCEPT ![e] = TRUE]

ShortPageEnds(p, shown) ==
    IF LastPage(job[p].page) \/ Cardinality(shown) < PageSize THEN "create"
    ELSE IF job[p].page = MaxPage THEN "unlock" ELSE "search"

\* Where findExisting goes when no issue on the page has the source.
NotShown(p, shown) ==
    CASE LastPage(job[p].page) -> "create"
      [] ~LastPage(job[p].page) /\ Cardinality(shown) < PageSize -> "unlock"
      [] ~LastPage(job[p].page) /\ Cardinality(shown) >= PageSize ->
           IF job[p].page = MaxPage THEN "unlock" ELSE "search"

\* What a search answers for a page.
Answers(k) ==
    {OnPage(k)} \cup
    IF (IF LastPage(k) THEN "tail" ELSE "short") \in Faults THEN SUBSET OnPage(k) ELSE {}

Matches(p, shown) == {i \in shown : issue[i] = job[p].src}

KeptBack(k, shown) == IF LastPage(k) THEN OnPage(k) \ shown ELSE {}

Excuse(s) == excused' = excused \cup {s}

\* The source is on the page.
Found(p) ==
    /\ \E shown \in Answers(job[p].page) :
          \E i \in Matches(p, shown) : Memoise(job[p].entry, i)
    /\ Goes(p, "unlock")
    /\ UNCHANGED gitHub

NotFound(p) ==
    /\ \E shown \in Answers(job[p].page) :
         LET next == NotShown(p, shown)
             kept == KeptBack(job[p].page, shown)
         IN /\ Matches(p, shown) = {}
            /\ job' = [job EXCEPT ![p].step = next,
                                  ![p].page = IF next = "search" THEN @ + 1 ELSE @,
                                  ![p].known = @ \ kept]
            /\ IF Matches(p, kept) = {} THEN UNCHANGED excused ELSE Excuse(job[p].src)
    /\ UNCHANGED <<memo, live, issue, indexed>>

SearchFailed(p) ==
    /\ "github" \in Faults
    /\ Goes(p, "unlock")
    /\ UNCHANGED <<memo, live, gitHub>>

SearchPage(p) ==
    /\ job[p].step = "search"
    /\ Found(p) \/ NotFound(p) \/ SearchFailed(p)
    /\ UNCHANGED <<entries, refs, holder>>

NextIssue == {i \in Issue : issue[i] = NoSrc /\ \A j \in 1..(i - 1) : issue[j] # NoSrc}

Opened(i, s) == issue' = [issue EXCEPT ![i] = s] /\ UNCHANGED indexed

CreateIssue(p) ==
    /\ job[p].step = "create"
    /\ \/ \E i \in NextIssue : Opened(i, job[p].src) /\ Memoise(job[p].entry, i) /\ UNCHANGED excused
       \/ "github" \in Faults /\ UNCHANGED <<memo, live, gitHub>>
       \/ /\ "answer" \in Faults
          /\ \E i \in NextIssue : Opened(i, job[p].src) /\ Excuse(job[p].src)
          /\ UNCHANGED <<memo, live>>
    /\ Goes(p, "unlock")
    /\ UNCHANGED <<entries, refs, holder>>

\* The deferred calls: Unlock, then release.
Unlock(p) ==
    /\ job[p].step = "unlock"
    /\ holder' = [holder EXCEPT ![job[p].entry] = Nobody]
    /\ Goes(p, "release")
    /\ UNCHANGED <<entries, refs, memo, live, gitHub>>

Release(p) ==
    /\ job[p].step = "release"
    /\ refs' = [refs EXCEPT ![job[p].entry] = @ - 1]
    /\ job' = [job EXCEPT ![p] = Idle]
    /\ UNCHANGED <<entries, holder, memo, live, gitHub>>

CreateStep(p) ==
    \/ Lock(p) \/ RepoAccessible(p) \/ SearchPage(p) \/ CreateIssue(p)
    \/ Unlock(p) \/ Release(p)

-----------------------------------------------------------------------------
(* GitHub, time and the process *)

Index(i) ==
    /\ issue[i] # NoSrc
    /\ indexed' = indexed \cup {i}
    /\ UNCHANGED <<memory, issue, excused, job>>

\* memoTTL passes; GitHub's index is taken to lag by less than memoTTL.
Expire(e) ==
    /\ live[e]
    /\ memo[e] \in indexed
    /\ live' = [live EXCEPT ![e] = FALSE]
    /\ UNCHANGED <<entries, refs, holder, memo, gitHub, job>>

ByHand ==
    /\ "byhand" \in Faults
    /\ \E i \in NextIssue, s \in Src : Opened(i, s) /\ Excuse(s)
    /\ UNCHANGED <<memory, job>>

Crash ==
    /\ "crash" \in Faults
    /\ entries' = [s \in Src |-> NoEntry]
    /\ refs' = [e \in Entry |-> 0]
    /\ holder' = [e \in Entry |-> Nobody]
    /\ memo' = [e \in Entry |-> NoIssue]
    /\ live' = [e \in Entry |-> FALSE]
    /\ job' = [p \in Press |-> Idle]
    /\ excused' = excused \cup ({issue[i] : i \in Issue \ indexed} \ {NoSrc})
    /\ UNCHANGED <<issue, indexed>>

ScoutNext ==
    \/ \E p \in Press : (\E s \in Src : EntryFor(p, s)) \/ CreateStep(p)
    \/ \E i \in Issue : Index(i)
    \/ \E e \in Entry : Expire(e)
    \/ ByHand \/ Crash

ScoutSpec == ScoutInit /\ [][ScoutNext]_scoutVars

-----------------------------------------------------------------------------
(* Properties *)

\* "An in-flight press can never lose its entry to a press on another source":
\* two presses on one source hold the same entry, hence never work at a time.
OnePressPerSource ==
    \A p, q \in Press :
        job[p].step \in Critical /\ job[q].step \in Critical /\ job[p].src = job[q].src => p = q

\* The agent opens at most one issue per source: the memo covers the time until the
\* search shows the issue, the table never drops a live memo, and no lag of the index
\* or short page makes a press open another.  Excused is a source only once somebody
\* else opened an issue of it, the answer to its create was lost, the last page of
\* a search kept an issue of it back, or the process restarted before the index had it.
OneIssuePerSource ==
    \A i, j \in Issue :
        issue[i] = issue[j] /\ issue[i] \in Src \ excused => i = j

\* Whoever else opens issues, and whatever is lost: no press opens an issue next to
\* one of the same source that the search knew when the press began to search and
\* did not keep back on its last page, over however many pages it lies, while new
\* issues come in before the known ones and shift them to later pages.
KnownIssueFound ==
    \A p \in Press : job[p].step = "create" => \A i \in job[p].known : issue[i] # job[p].src

\* The issue a press is answered with is one of its source, also when another
\* press's entry was reused.
AnswersItsSource ==
    \A s \in Src : entries[s] # NoEntry /\ live[entries[s]] => issue[memo[entries[s]]] = s

-----------------------------------------------------------------------------
(* The inductive invariant behind the properties *)

Users(e) == {p \in Press : job[p].step # "idle" /\ job[p].entry = e}

\* The table holds the entry of every press, under one source, and counts them.
Table ==
    /\ \A s, u \in Src : entries[s] = entries[u] /\ entries[s] # NoEntry => s = u
    /\ \A p \in Press : job[p].step # "idle" =>
         /\ job[p].src \in Src
         /\ job[p].entry \in Entry
         /\ entries[job[p].src] = job[p].entry
    /\ \A e \in Entry : refs[e] = Cardinality(Users(e))
    /\ \A p \in Press : job[p].step \in Critical => holder[job[p].entry] = p

Memos ==
    \A s \in Src : entries[s] # NoEntry /\ live[entries[s]] =>
        memo[entries[s]] \in Issue /\ issue[memo[entries[s]]] = s

Behind(p, i) == i \in indexed /\ Rank(i) >= (job[p].page - 1) * PageSize

\* What the search knew lies on the pages still to come: new issues only push it
\* further back.
Pages ==
    /\ \A i \in indexed : issue[i] # NoSrc
    /\ \A p \in Press :
         /\ job[p].step \in {"search", "create"} => \A i \in job[p].known : issue[i] # NoSrc
         /\ job[p].step = "search" =>
              /\ job[p].page >= 1
              /\ \A i \in job[p].known : issue[i] = job[p].src => Behind(p, i)
    /\ KnownIssueFound

\* An issue of a source not excused that the search does not know is the one the
\* source's memo names, so that a press that finds no memo lets the search find every
\* issue.
Covered ==
    /\ \A i \in Issue \ indexed : issue[i] \in Src \ excused =>
         /\ entries[issue[i]] # NoEntry
         /\ live[entries[issue[i]]]
         /\ memo[entries[issue[i]]] = i
    /\ \A p \in Press, i \in Issue : issue[i] = job[p].src /\ job[p].src \notin excused =>
         /\ job[p].step = "access" => i \in indexed
         /\ job[p].step \in {"search", "create"} => i \in job[p].known

ScoutInv ==
    /\ ScoutTypeOK
    /\ Table
    /\ Memos
    /\ Pages
    /\ Covered
    /\ OneIssuePerSource

=============================================================================
