------------------------------- MODULE MCRules -------------------------------
(* The questions the program answers from what a cluster holds, asked one at *)
(* a time, over small clusters of every shape the answers tell apart.        *)
EXTENDS Audit, AuditCorpus, Admission, Issues, HistoryStore, Helm, Gitops, FluxArgo, Topology, Mcp,
        Fleet, Waste, TLC

(* The constants of Admission.                                               *)

MCSelections == UNION {[1 .. n -> {"deployments", "nodes", "pods", "configmaps"}] : n \in 1 .. 3}

MCDenials == SUBSET {"update", "patch", "patch scale", "list history", "create jobs", "list pods", "get log"}

MCPodTemplates == UNION {[fields -> 1 .. 2] : fields \in {{"image"}, {"image", "restartedAt"}, {"image", "nodeSelector"}}}

\* At most two revisions, of the workload or of another.
MCHistories ==
  LET some == [number : 0 .. 2, owned : BOOLEAN, template : MCPodTemplates \cup {NoTemplate}]
  IN {held \in {{}} \cup {{r, o} : r, o \in some} :
        \A r, o \in held : r.owned /\ o.owned /\ r.number = o.number => r = o}

\* Up to two clusters of one namespace, in which an account lacks at most one
\* right and at most one question goes unanswered.
MCFleets ==
  LET questions == {"ns", Everywhere} \X ListChecks
      some == {{}} \cup {{q} : q \in questions}
      standings == {[may |-> questions \ lacks, heard |-> questions \ silent] : lacks, silent \in some}
  IN {<<>>} \cup {<<a>> : a \in standings} \cup {<<a, b>> : a, b \in standings}

MCPolicyRules ==
  {[verbs |-> {Star}, groups |-> {Star}, resources |-> {<<Star, "">>}, named |-> FALSE],
   [verbs |-> {"get"}, groups |-> {""}, resources |-> {<<"secrets", "">>}, named |-> FALSE],
   [verbs |-> {"get"}, groups |-> {""}, resources |-> {<<"secrets", "">>}, named |-> TRUE],
   [verbs |-> {"create"}, groups |-> {""}, resources |-> {<<"pods", "">>, <<Star, "exec">>}, named |-> FALSE]}

MCSubjects ==
  {[name |-> "ana", account |-> FALSE, place |-> 0], [name |-> "ci", account |-> TRUE, place |-> 0],
   [name |-> "ci", account |-> TRUE, place |-> 1]}

\* One role and one cluster role of the same name, and two bindings.
MCRbacClusters ==
  LET bindings == {b \in [role : {"r"}, clusterRole : BOOLEAN, place : 0 .. 2, subject : MCSubjects] :
                     b.place = 0 => b.clusterRole}
      roles == {{[name |-> "r", place |-> p, rules |-> {rules[p]}] : p \in kept} :
                  rules \in [{0, 1} -> MCPolicyRules], kept \in SUBSET {0, 1}}
  IN {[readable |-> readable, roles |-> some, bindings |-> {one, other}] :
        readable \in {RbacKinds} \cup {RbacKinds \ {k} : k \in RbacKinds}, some \in roles, one, other \in bindings}

MCRbacQuestions ==
  [verb : {"get", "create"}, group : {""}, resource : {<<"secrets", "">>, <<"pods", "exec">>}, place : 1 .. 2]

(* The constants of AuditWorkload: settings that bear on each other vary     *)
(* together.                                                                 *)

PlainPod == [nonRoot |-> "true", user |-> NoUser, seccomp |-> "default", hostProcess |-> Off,
             hostUsers |-> Off, volumes |-> <<>>]

Hardened == [privileged |-> Off, escalation |-> "false", nonRoot |-> Off, user |-> NoUser,
             readOnlyRoot |-> "true", add |-> {}, drop |-> {"ALL"}, seccomp |-> Off,
             procMount |-> Off, hostProcess |-> Off]

MCManifests ==
  {[pod |-> [PlainPod EXCEPT !.nonRoot = inherited, !.user = u],
    container |-> [Hardened EXCEPT !.nonRoot = own, !.user = v]] : own, inherited \in Flag, u, v \in {NoUser, 0, 1}} \cup
  {[pod |-> [PlainPod EXCEPT !.hostProcess = inherited],
    container |-> [Hardened EXCEPT !.privileged = privileged, !.escalation = escalation,
                                   !.readOnlyRoot = readOnly, !.hostProcess = own]] :
     privileged, escalation, readOnly, own, inherited \in Flag} \cup
  {[pod |-> PlainPod, container |-> [Hardened EXCEPT !.add = add, !.drop = drop]] :
     add \in SUBSET {"SYS_ADMIN", "NET_BIND_SERVICE"}, drop \in SUBSET {"ALL", "NET_RAW", "CHOWN"}} \cup
  {[pod |-> [PlainPod EXCEPT !.seccomp = inherited, !.hostUsers = users],
    container |-> [Hardened EXCEPT !.seccomp = own, !.procMount = proc]] :
     own, inherited \in {Off, "default", "unconfined"}, proc \in {Off, "Unmasked"}, users \in Flag} \cup
  {[pod |-> [PlainPod EXCEPT !.volumes = volumes], container |-> Hardened] :
     volumes \in UNION {[1 .. n -> Paths] : n \in 0 .. 3}}

MCFigures ==
  [asked : 0 .. 3, allowed : 0 .. 40, replicas : 0 .. 3, raw : (0 .. 4) \cup {PercentSign + 50, PercentSign + 100}]

MCJobHistories == [1 .. 2 -> {NoUser, 3, 10, 11}]

MCProbings ==
  [kind : {"Deployment", "Job", "Pod"}, restart : {Off, "Always", "Never"}, init : BOOLEAN,
   live : {Blank, "8080", "9090"}, ready : {Blank, "8080", "9090"}, ports : SUBSET {"8080"},
   startup : BOOLEAN, delay : {0, 5}]

MCImages ==
  [tag : {Blank, "latest", "v1"}, digest : BOOLEAN, pull : {Blank, "Always", "IfNotPresent"},
   asked : {1, 20}, used : [1 .. 2 -> 0 .. 2]]

MCSpreads == UNION {[1 .. n -> {Blank, "n1", "n2"}] : n \in 0 .. 3}

(* The constants of AuditCorpus.                                             *)

Object(kind, space, name, says, kept) ==
  [kind |-> kind, space |-> space, name |-> name, says |-> says, kept |-> kept]

\* Every kind answers, but for the few whose answer a question picks.
Answers(some) ==
  [k \in TargetsFor(TRUE) \cup Borrowed |-> IF k \in DOMAIN some THEN some[k] ELSE "read"]

\* One object names another: the one it names is there, in its namespace or
\* in another, or is not.
MCReferences ==
  LET Holders(name) ==
        {Object(k, "a", "holder", {name}, Blank) : k \in {"deployments", "ingresses", "persistentvolumeclaims"}}
      About(c, name) ==
        [check : {c}, ref : [space : {"a"}, name : {name}, optional : BOOLEAN],
         read : [cluster : {Holders(name) \cup {Object(Sought(c), s, name, {}, Blank) : s \in at} : at \in SUBSET {"a", "b", Blank}},
                 answers : {Answers(some) : some \in [CheckNeeds(c) -> Outcome]},
                 whole : BOOLEAN, everyKind : BOOLEAN, corpus : {FALSE}]]
  IN UNION {About(c, name) : c \in ReferenceChecks, name \in {Blank, "x", "default", "system-x"}}

\* An object that may be left over, and others that may name it.
MCLeftovers ==
  LET namers == {"deployments", "widgets", "webhookconfigurations", "configmaps"}
      About(c) ==
        [check : {c},
         read : [cluster : {{Object(k, "a", "x", {"x"}, kept) : k \in OrphanNeeds(c)}
                              \cup {Object(k, "b", "namer", {"x"}, Blank) : k \in by} :
                              kept \in {Blank, "owned", "known"}, by \in SUBSET namers},
                 answers : {Answers(some) : some \in [namers -> Outcome]},
                 whole : BOOLEAN, everyKind : BOOLEAN, corpus : BOOLEAN]]
  IN UNION {About(c) : c \in OrphanChecks}

\* A pod, what may own it and what may own that, held or not.
MCHoldings ==
  LET held == {<<"replicasets", "r">>, <<"deployments", "d">>, <<"jobs", "j">>}
      Up(some) == {<<>>} \cup {<<o>> : o \in some} \cup {<<o, p>> : o, p \in some}
  IN {{[kind |-> "pods", space |-> "a", name |-> "p", owners |-> ofPod]} \cup
      {[kind |-> h[1], space |-> "a", name |-> h[2],
        owners |-> IF h[1] = "replicasets" THEN ofSet ELSE <<>>] : h \in some} :
        ofPod \in Up(held \cup {<<"widgets", "w">>}),
        ofSet \in Up({<<"deployments", "d">>, <<"jobs", "j">>, <<"widgets", "w">>}), some \in SUBSET held}

MCPlacements ==
  [nodes : {s \in SUBSET [tier : {"t1", "t2"}, taints : SUBSET {"k"}, size : 1 .. 2] : Cardinality(s) =< 3},
   workload : [tier : {AnyTier, "t1"}, tolerates : SUBSET {"k"}, request : {1, 3}, replicas : 1 .. 4,
               apart : BOOLEAN, skew : 0 .. 2]]

MCQuotas == [1 .. 2 -> [used : {0, 8, 9, 10}, hard : {0, 10}]]

MCBudgets ==
  LET bounds == {Unset, 0, 1, 2, Percent + 50, Percent + 100}
  IN {q \in [replicas : 0 .. 4, budget : [minAvailable : bounds, maxUnavailable : bounds]] :
        Unset \in {q.budget.minAvailable, q.budget.maxUnavailable}}

MCRoleRules ==
  [verbs : SUBSET {"get", "create", "escalate", Anything},
   resources : SUBSET {"secrets", "pods", "pods/exec", "nodes/proxy", Anything}, named : BOOLEAN]

MCRoleBindings ==
  [ofCluster : BOOLEAN, role : {"cluster-admin", "view"}, subjects : SUBSET {"system:anonymous", "ops"}]

MCSelectings ==
  LET labels == UNION {[keys -> {"x", "y"}] : keys \in SUBSET {"app", "tier"}}
      some == {s \in SUBSET labels : Cardinality(s) =< 2}
  IN [labels : labels, services : some, here : some, elsewhere : {{}, {<<>>}}]

MCRanges ==
  LET amounts == [{"cpu", "memory"} -> {Unset, 1, 2}]
  IN [request : amounts, range : [min : amounts, max : amounts]]

MCScalings ==
  [scalers : {s \in SUBSET [kind : {"Deployment"}, name : {"w", "v"}, min : {Unset, 1, 2}, max : {1, 2, 3}] :
                Cardinality(s) =< 2},
   workload : [kind : {"Deployment"}, name : {"w"}, replicas : {Unset, 1, 2}]]

-----------------------------------------------------------------------------

RulesNext ==
  \/ AskAudit \/ AskCorpus \/ AskWorkload
  \/ AskAccess
  \/ AskIssues
  \/ AskStore \/ AskTrim
  \/ AskListing \/ AskRevisions \/ AskOutdated \/ AskSearch
  \/ AskGraph \/ AskReadiness \/ AskEnrich \/ AskDrift
  \/ AskSource \/ AskDashboards \/ AskArgo \/ AskTroubles
  \/ AskMap \/ AskLinks
  \/ AskFleetAudit \/ AskFleetPage \/ TurnFleetPage \/ AskFleetLists \/ AskFleetCounts
  \/ AskWaste
  \/ AskMcp \/ AskAnswers \/ AskRedact
  \/ Answered

RulesSpec == QuestionInit /\ [][RulesNext]_questionVars

-----------------------------------------------------------------------------
(* What the answers promise, their parts stated in their own modules.        *)

\* The report of an audit: its pages reach every finding once, a cut never hides
\* what is more severe than what it shows, a baseline silences what was there
\* and nothing else, a difference names what came and went, surveys are
\* shared only by those they would be the same for, and what is exported and
\* imported again stands on its own object; the audit of a whole fleet is that of
\* its clusters, page by page, and names those it misses (internal/checks, report
\* side, server/fleetchecks.go).
AuditSound ==
  /\ PagesReachAll
  /\ NothingSevereSkipped
  /\ QuietAfterBaseline
  /\ DifferenceIsTold
  /\ SharedSurveyIsTheirs
  /\ SarifRoundTrip
  /\ ImportedOnItsObject
  /\ FleetPagesReachAll
  /\ StandDownsAreTold

\* What is unhealthy is an issue, once and under its controller; nothing that
\* could not be read accuses anybody; and neither the cuts nor the pages hide
\* an issue (internal/issues).
IssuesSound ==
  /\ OneVerdictPerPod
  /\ StuckPodsAreTold
  /\ UnhealthyIsAnIssue
  /\ FluxIsJudgedOnce
  /\ UnreadAccusesNobody
  /\ NoSeverityHidden
  /\ OneRowPerController
  /\ PagesSkipNoIssue

\* The pages of two merged tables skip and repeat nothing, trimming keeps the
\* newest rows, and clearing one cluster clears that one (internal/history).
HistorySound ==
  /\ HistoryPagesSkipNothing
  /\ TrimKeepsNewest
  /\ ClearingIsOneCluster

\* A list of releases that was cut says so, list and detail agree on what is
\* deployed, an action takes the release that was shown, history pages are
\* whole, and outdated means that something newer exists (internal/helm,
\* internal/charts).
ReleasesSound ==
  /\ ShortListsSaySo
  /\ ListAndDetailAgree
  /\ ActsOnWhatIsShown
  /\ HistoryPagesAreWhole
  /\ OutdatedMeansNewer
  /\ ExactNameComesFirst

\* The pages of a Flux or Argo object agree with each other and with the
\* cluster, what could not be read is said, and an action reports what it did
\* (internal/gitops, internal/flux, internal/argocd).
GitopsSound ==
  /\ GraphShowsWhatIsListed
  /\ PagesAgreeOnReadiness
  /\ ReadsTheWorstFirst
  /\ SilenceIsExplained
  /\ DriftIsWhatApplyingWouldChange
  /\ SourcesAgree
  /\ FluxSaysWhatItDid
  /\ LatestBelongsToItsRow
  /\ ParentsAreOnThePage
  /\ InSyncIsEarned
  /\ DoneMeansDone
  /\ BrokenResourcesAreTold
  /\ OutOfSyncIsTold
  /\ FailedIsExplained

\* The wide views.  The folded map of a cluster counts every object, shows what is
\* ill through its folds and keeps the edges, and routes and configuration are
\* drawn where they are; the lists of a fleet say what they cut and whom they miss,
\* and what is unknown is not shown as nothing; what could be reclaimed adds up and
\* says what was not measured (internal/topology, server/fleet*.go, internal/waste).
WideViewsSound ==
  /\ FoldsCountEverything
  /\ IllnessShowsThrough
  /\ EdgesSurviveFolds
  /\ NeighborsBothWays
  /\ RoutesAreSelections
  /\ ConfigIsDrawn
  /\ FleetListsAreTold
  /\ UnknownIsNotZero
  /\ WasteAddsUp
  /\ UnmeasuredIsNamed

\* An MCP client can call what is listed, is answered under its own id, never
\* has a kind guessed for it, is told when an answer was cut, and gets no secret
\* (internal/mcp).
McpSound ==
  /\ ListedIsCallable
  /\ AnsweredUnderItsId
  /\ NoAmbiguousKind
  /\ EventsAreCounted
  /\ CutAnswersSaySo
  /\ NoSecretLeaves
===============================================================================
