------------------------------ MODULE Probing -------------------------------
(***************************************************************************)
(* From an alert to the file a fix patches: the service that processAlert  *)
(* gives a ticket (internal/svcname), the paths a run derives from the     *)
(* service and probes in mctl-gitops (internal/pipeline, internal/fixer,   *)
(* internal/gitopspath), and GitOps from there on.                         *)
(*                                                                         *)
(* A name is the sequence of its segments between dashes, and stands for   *)
(* the path of the values file of that name in the tenant of the ticket.   *)
(* Apps are released by the chart as "{tenant}-{app}", the convention that *)
(* svcname takes for the rule.                                             *)
(***************************************************************************)
EXTENDS GitOps, SequencesExt

CONSTANTS
    Tenant,   \* the tenant, a name
    App,      \* the names of its apps; they have values files
    Ours      \* the app whose file GitOps is about

NoName == <<>>
Outside == <<"outside">>

ASSUME ProbingAssumption ==
    /\ Tenant \in Seq(STRING) /\ App \subseteq Seq(STRING)
    /\ Ours \in App /\ {NoName, Outside} \cap App = {}

\* Run -> the file its fix was for, if that is not the file of its ticket's app.
VARIABLE astray

probingVars == <<gitOpsVars, astray>>

Home == [app |-> NoName, file |-> NoName, gone |-> FALSE]

ProbingInit == GitOpsInit /\ astray = [r \in Run |-> Home]

-----------------------------------------------------------------------------
(* svcname *)

ChartFullnameSuffix == <<"base", "service">>

HasSignature(name) ==
    IsSuffix(ChartFullnameSuffix, name) /\ Len(name) > Len(ChartFullnameSuffix)

StripSuffix(name) == SubSeq(name, 1, Len(name) - Len(ChartFullnameSuffix))

StripNamespacePrefix(name) ==
    IF IsStrictPrefix(Tenant, name) THEN SubSeq(name, Len(Tenant) + 1, Len(name)) ELSE name

Ordinal == "0"

TrimPodSuffix(pod) ==
    IF Len(pod) > 1 /\ pod[Len(pod)] = Ordinal /\ HasSignature(Front(pod)) THEN Front(pod)
    ELSE IF Len(pod) <= 2 THEN pod ELSE Front(Front(pod))

NoLabel == [key |-> "none", value |-> NoName]

\* IdentityLabels: the value of instance labels is a release's name.
Identity(label) ==
    CASE label.key = "none" -> <<>>
      [] label.key = "id" -> <<label.value>>
      [] label.key = "instance" -> <<StripNamespacePrefix(label.value)>>

\* Duplicates are kept: probing a name again changes nothing here.
Candidates(derived, label) ==
    Identity(label)
    \o (IF HasSignature(derived)
        THEN <<StripNamespacePrefix(StripSuffix(derived)), StripSuffix(derived)>> ELSE <<>>)
    \o <<derived>>

Resolve(derived, label) == Head(Candidates(derived, label))

-----------------------------------------------------------------------------
(* processAlert: the service of a ticket *)

Labels(alert) == IF alert.workload = NoName THEN alert.label ELSE NoLabel

ServiceOf(alert) ==
    Resolve(IF alert.workload = NoName THEN TrimPodSuffix(alert.pod) ELSE alert.workload,
            Labels(alert))

Release(app) == Tenant \o app
Fullname(app) == Release(app) \o ChartFullnameSuffix

\* Pods of a Deployment or a StatefulSet, with an identity label or without.
PodAlerts(app) ==
    {[pod |-> Fullname(app) \o id, workload |-> NoName, label |-> label] :
        id \in {<<"rs", "id">>, <<Ordinal>>},
        label \in {NoLabel, [key |-> "id", value |-> app],
                   [key |-> "instance", value |-> Release(app)]}}

\* Alerts about a Deployment, with the pod and the label of kube-state-metrics.
WorkloadAlerts(app) ==
    {[pod |-> <<"monitoring", "ksm", "rs", "id">>, workload |-> Fullname(app), label |-> label] :
        label \in {NoLabel, [key |-> "id", value |-> <<"ksm">>]}}

\* Tickets from before the names were made canonical hold the chart's full name.
Services(app) ==
    {ServiceOf(alert) : alert \in PodAlerts(app) \cup WorkloadAlerts(app)} \cup {Fullname(app)}

-----------------------------------------------------------------------------
(* The run probes its candidate paths *)

\* skillPath: the path of the service, none, or one that ValidatePath skips.
candidatePaths(skillPath, service) == <<skillPath>> \o Candidates(service, NoLabel)

Probed(paths) == {paths[k] : k \in DOMAIN paths} \ {NoName, Outside}

WalkOn(paths, answer) ==
    LET hits == {k \in DOMAIN paths : paths[k] \in Probed(paths) /\ answer[paths[k]] = "found"}
    IN IF hits = {} THEN NoName ELSE paths[CHOOSE k \in hits : \A j \in hits : k <= j]

\* Only "404" leads on to the next path.
FileFor(paths, answer) ==
    LET stops == {k \in DOMAIN paths : paths[k] \in Probed(paths) /\ answer[paths[k]] # "404"}
        first == CHOOSE k \in stops : \A j \in stops : k <= j
    IN IF stops = {} THEN NoName
       ELSE IF answer[paths[first]] = "found" THEN paths[first] ELSE NoName

\* What GitHub may answer for a path while files come and go and calls fail.
Answers(name) == (IF name \in App THEN {"found"} ELSE {}) \cup {"404"} \cup
                 (IF "github" \in Faults THEN {"error"} ELSE {})

Probes(app) ==
    LET Lists == UNION {{candidatePaths(skillPath, service) : skillPath \in {service, NoName, Outside}} :
                       service \in Services(app)}
        Outcomes(paths) ==
            {[app |-> app, file |-> FileFor(paths, answer),
              gone |-> app \in Probed(paths) /\ answer[app] = "404"] :
                answer \in {f \in [Probed(paths) -> {"found", "404", "error"}] :
                              \A name \in Probed(paths) : f[name] \in Answers(name)}}
    IN UNION {Outcomes(paths) : paths \in Lists}

\* How the probes of all runs can end.
Ends == UNION {Probes(app) : app \in App}

Probe(r) ==
    /\ run[r].step = "idle"
    /\ \E end \in Ends :
         /\ IF end.file = Ours THEN ReadFile(r) ELSE UNCHANGED gitOpsVars
         /\ astray' = [astray EXCEPT ![r] = IF end.file \in {NoName, end.app} THEN Home ELSE end]

ProbingNext ==
    \/ \E r \in Run : Probe(r)
    \/ ((\E r \in Run : PatchStep(r)) \/ People) /\ UNCHANGED astray

ProbingSpec == ProbingInit /\ [][ProbingNext]_probingVars

-----------------------------------------------------------------------------
(* Properties *)

\* "we can't trust that a later candidate's hit is actually the right file": whatever
\* labels an alert carries, whatever GitHub answers, and also for the tickets from
\* before names were canonical, a fix is for the file of the app the alert is about,
\* unless GitHub said that this file does not exist.
AppsOwnFileIsPatched ==
    /\ GitOpsTypeOK
    /\ \A r \in Run : astray[r] # Home => astray[r].gone
=============================================================================
