------------------------------- MODULE Issues -------------------------------
(* The issue queue (internal/issues): the detectors that find what is wrong  *)
(* with the objects of a cluster, the folding of findings into one row per   *)
(* owner, the ranking of the rows and the pages they are shown in.  Times    *)
(* are small numbers, 0 where nothing is known; names and uids are numbers.  *)
EXTENDS Question, Integers, Sequences, FiniteSets, FiniteSetsExt, SequencesExt

Now == 3
Grace == 2

Warning == 1
Degraded == 2
Fatal == 3

NoSymptom == [severity |-> 0, title |-> ""]

Symptom(severity, title) == [severity |-> severity, title |-> title]

-----------------------------------------------------------------------------
(* Pods.                                                                     *)

\* What the state of one container says: waiting reasons, what it died of,
\* an exit with a code after at least one restart.
ContainerSymptom(state) ==
  CASE state = "crashloop" -> Symptom(Fatal, "CrashLoopBackOff")
    [] state = "image" -> Symptom(Fatal, "ErrImagePull")
    [] state = "config" -> Symptom(Fatal, "CreateContainerError")
    [] state = "oom" -> Symptom(Fatal, "OOMKilled")
    [] state = "crashed" -> Symptom(Fatal, "CrashLoopBackOff")
    [] OTHER -> NoSymptom      \* running, starting, completed, its first exit

\* The first of the worst, init containers before the others.
WorstContainer(states) ==
  LET found == SelectSeq([i \in DOMAIN states |-> ContainerSymptom(states[i])], LAMBDA s : s # NoSymptom)
      worst == {i \in DOMAIN found : \A j \in DOMAIN found : found[j].severity =< found[i].severity}
  IN IF found = <<>> THEN NoSymptom ELSE found[Min(worst)]

\* A pod none of whose containers says anything.
BareSymptom(pod) ==
  CASE pod.phase = "Failed" -> Symptom(Fatal, "PodFailed")
    [] pod.phase # "Failed" /\ pod.scheduled = "False" -> Symptom(Fatal, "Unschedulable")
    [] OTHER -> NoSymptom

PodSymptom(pod) ==
  IF pod.gone # 0 \/ pod.phase = "Succeeded" THEN NoSymptom
  ELSE IF WorstContainer(pod.states) # NoSymptom THEN WorstContainer(pod.states) ELSE BareSymptom(pod)

StalledPod(pod) ==
  /\ PodSymptom(pod) = NoSymptom
  /\ pod.gone = 0 /\ pod.scheduled = "True" /\ pod.phase \notin {"Succeeded", "Failed"}
  /\ ~ \E i \in DOMAIN pod.states : pod.states[i] = "running"
  /\ Now - pod.since >= Grace

Complained(events) == \E i \in DOMAIN events : events[i] = "Warning"

\* An event list that could not be read says nothing.
StallSymptom(pod, events, readable) ==
  CASE ~ StalledPod(pod) \/ ~ readable -> NoSymptom
    [] StalledPod(pod) /\ readable /\ events = <<>> -> Symptom(Warning, "SilentAfterBinding")
    [] StalledPod(pod) /\ readable /\ Complained(events) -> Symptom(Fatal, "FailedMount")
    [] OTHER -> NoSymptom

\* A pod gets its own grace on top of the common one.
TerminatingSymptom(gone, own) ==
  IF gone # 0 /\ Now - gone >= own + Grace THEN Symptom(Warning, "StuckTerminating") ELSE NoSymptom

PodVerdicts(pod, events, readable) ==
  {PodSymptom(pod), StallSymptom(pod, events, readable), TerminatingSymptom(pod.gone, 0)} \ {NoSymptom}

-----------------------------------------------------------------------------
(* Workloads.  A workload has the conditions it reports as a function from   *)
(* their types to their status; Missing is a condition it does not have.     *)

Missing == "-"

ReplicaCounts(work) ==
  IF work.kind = "DaemonSet" THEN <<work.numberReady, work.scheduled>> ELSE <<work.ready, work.want>>

WorkloadUnhealthy(work) ==
  CASE work.kind = "Job" -> work.cond["Failed"] = "True"
    [] work.kind = "DaemonSet" -> work.numberReady < work.scheduled
    [] OTHER -> work.ready < work.want

ShortOfReplicas(work) ==
  LET counts == ReplicaCounts(work)
  IN IF counts[1] < counts[2] /\ Now - work.since >= Grace
     THEN Symptom(IF counts[1] = 0 THEN Fatal ELSE Degraded, "NotEnoughReplicas")
     ELSE NoSymptom

ProgressStalled(work) ==
  IF work.cond["Progressing"] = "False"
  THEN Symptom(IF work.ready = 0 THEN Fatal ELSE Degraded, "RolloutStalled")
  ELSE NoSymptom

WorkloadSymptom(work) ==
  CASE work.gone # 0 -> NoSymptom
    [] work.gone = 0 /\ work.cond["ReplicaFailure"] = "True" -> Symptom(Fatal, "ReplicaFailure")
    [] work.gone = 0 /\ work.cond["ReplicaFailure"] # "True" /\ work.kind = "Job" ->
         IF work.cond["Failed"] = "True" THEN Symptom(Fatal, "JobFailed") ELSE NoSymptom
    [] OTHER -> IF ProgressStalled(work) # NoSymptom THEN ProgressStalled(work) ELSE ShortOfReplicas(work)

-----------------------------------------------------------------------------
(* Everything else that reports conditions.                                  *)

\* The kinds that have a detector of their own; nodes are not among them.
OwnedKinds == {"Pod", "Workload", "HorizontalPodAutoscaler", "Application", "Flux"}

\* The first of the healthy types an object reports decides alone; only an
\* object with none of them is asked whether it is broken.
BadCondition(cond) ==
  LET healthy == SelectSeq(<<"Ready", "Available", "Synced">>, LAMBDA c : cond[c] # Missing)
  IN IF healthy # <<>> THEN cond[healthy[1]] # "True"
     ELSE \E c \in {"Stalled", "Degraded"} : cond[c] = "True"

ConditionSymptom(thing) ==
  IF thing.kind \notin OwnedKinds /\ thing.gone = 0 /\ BadCondition(thing.cond)
  THEN Symptom(Degraded, "Condition") ELSE NoSymptom

FluxSymptom(thing) ==
  CASE thing.kind # "Flux" \/ thing.suspended -> NoSymptom
    [] thing.kind = "Flux" /\ ~ thing.suspended /\ thing.cond["Stalled"] = "True" -> Symptom(Fatal, "Stalled")
    [] thing.kind = "Flux" /\ ~ thing.suspended /\ thing.cond["Stalled"] # "True"
       /\ thing.cond["Ready"] \notin {Missing, "True"} ->
         Symptom(IF thing.cond["Ready"] = "False" THEN Fatal ELSE Degraded, "NotReady")
    [] OTHER -> NoSymptom

\* An application: how its last sync ended, then its health, then its drift.
ArgoSymptom(phase, health, sync) ==
  CASE phase \in {"Failed", "Error"} -> Symptom(Fatal, "SyncFailed")
    [] phase \notin {"Failed", "Error"} /\ health \in {"Degraded", "Missing"} -> Symptom(Fatal, health)
    [] phase \notin {"Failed", "Error"} /\ health \notin {"Degraded", "Missing"} /\ sync = "OutOfSync" ->
         Symptom(Warning, "OutOfSync")
    [] OTHER -> NoSymptom

\* An autoscaler: blind, unable, pinned, at its maximum, in that order.
AutoscalerSymptom(active, able, low, high, current, limited) ==
  CASE active = "False" -> Symptom(Degraded, "NoMetrics")
    [] active # "False" /\ able = "False" -> Symptom(Degraded, "CannotScale")
    [] active # "False" /\ able # "False" /\ low # 0 /\ low = high -> Symptom(Warning, "Pinned")
    [] active # "False" /\ able # "False" /\ (low = 0 \/ low # high) /\ high # 0 /\ current >= high /\ limited ->
         Symptom(Warning, "AtMaximum")
    [] OTHER -> NoSymptom

NodeSymptom(thing) ==
  CASE thing.kind # "Node" -> NoSymptom
    [] thing.kind = "Node" /\ thing.cond["Ready"] \notin {Missing, "True"} ->
         Symptom(IF thing.cond["Ready"] = "False" THEN Fatal ELSE Degraded, "NodeNotReady")
    [] thing.kind = "Node" /\ thing.cond["Ready"] \in {Missing, "True"} /\ thing.cond["Pressure"] = "True" ->
         Symptom(Degraded, "Pressure")
    [] thing.kind = "Node" /\ thing.suspended /\ thing.cond["Ready"] \in {Missing, "True"}
       /\ thing.cond["Pressure"] # "True" -> Symptom(Warning, "Cordoned")
    [] OTHER -> NoSymptom

ClaimSymptom(gone, phase) ==
  IF gone = 0 /\ phase \in {"Pending", "Lost"} THEN Symptom(Fatal, phase) ELSE NoSymptom

ExpirySymptom(notAfter) ==
  CASE notAfter = 0 \/ notAfter > Now + Grace -> NoSymptom
    [] notAfter # 0 /\ notAfter =< Now -> Symptom(Fatal, "Expired")
    [] OTHER -> Symptom(Degraded, "ExpiringSoon")

DefinitionSymptom(established) ==
  IF established \in {Missing, "True"} THEN NoSymptom ELSE Symptom(Fatal, "NotEstablished")

\* A Service that selects pods and has no endpoints with an address; those
\* that could not be listed are not told from those that are not there.
RoutingSymptom(selects, addresses) ==
  IF selects /\ (\A i \in DOMAIN addresses : addresses[i] = 0) THEN Symptom(Fatal, "NoEndpoints") ELSE NoSymptom

ThingVerdicts(thing) ==
  {ConditionSymptom(thing), FluxSymptom(thing), NodeSymptom(thing),
   TerminatingSymptom(IF thing.kind = "Namespace" THEN thing.gone ELSE 0, 0)} \ {NoSymptom}

-----------------------------------------------------------------------------
(* Folding.  `boss` gives the controller of every object that was read, and  *)
(* 0 where it has none or one that was not read.                             *)

MaxOwnerDepth == 4

OwnerUid(boss, uid) ==
  LET climb[n \in 0..MaxOwnerDepth] ==
        IF n = 0 THEN uid
        ELSE IF boss[climb[n - 1]] = 0 THEN climb[n - 1] ELSE boss[climb[n - 1]]
  IN climb[MaxOwnerDepth]

GroupOf(boss, found, owner) == SelectSeq(found, LAMBDA f : OwnerUid(boss, f.subject) = owner)

Worst(group) == Max({group[i].severity : i \in DOMAIN group})

\* The oldest of the times that are known.
Oldest(group) ==
  LET known == {group[i].since : i \in DOMAIN group} \ {0}
  IN IF known = {} THEN 0 ELSE Min(known)

PodSeverities(group) == {group[i].severity : i \in {j \in DOMAIN group : group[j].kind = "Pod"}}

\* What the pods of a workload report explains why it is short of replicas.
Prune(group) ==
  IF PodSeverities(group) = {} THEN group
  ELSE SelectSeq(group, LAMBDA f : f.title # "NotEnoughReplicas" \/ f.severity > Max(PodSeverities(group)))

Leads(f, g) ==
  CASE f.severity # g.severity -> f.severity > g.severity
    [] f.severity = g.severity /\ f.since # g.since -> f.since > g.since
    [] OTHER -> f.subject < g.subject

Lead(group) == group[Min({i \in DOMAIN group : \A j \in DOMAIN group : ~ Leads(group[j], group[i])})]

\* Newest first, then by name; only some are shown, all are counted.
Children(owner, group, room) ==
  LET below == SelectSeq(group, LAMBDA f : f.subject # owner)
      sorted == SortSeq(below, LAMBDA f, g : f.since > g.since \/ (f.since = g.since /\ f.subject < g.subject))
  IN SubSeq(sorted, 1, Min({room, Len(sorted)}))

Row(owner, group, room) ==
  [id |-> owner, severity |-> Worst(group), title |-> Lead(group).title, since |-> Oldest(group),
   folded |-> Len(SelectSeq(group, LAMBDA f : f.subject # owner)),
   children |-> Children(owner, group, room), cluster |-> 1]

-----------------------------------------------------------------------------
(* Ranking and pages.                                                        *)

\* The comparators as the tuples they compare, smallest first; TimeCeiling
\* and FoldCeiling are what a key counts down from.
TimeCeiling == 9
FoldCeiling == 4

Orders == {"worst", "newest", "oldest"}

RankTuple(row, order) ==
  CASE order = "newest" -> <<0 - row.since, row.cluster, row.id>>
    [] order = "oldest" -> <<row.since, row.cluster, row.id>>
    [] OTHER -> <<Fatal - row.severity, 0 - row.folded, 0 - row.since, row.cluster, row.id>>

RECURSIVE Before(_, _)

Before(s, t) ==
  s # <<>> /\ (Head(s) < Head(t) \/ (Head(s) = Head(t) /\ Before(Tail(s), Tail(t))))

Rank(rows, order) == SetToSortSeq(rows, LAMBDA r, q : Before(RankTuple(r, order), RankTuple(q, order)))

CountDown(value, ceiling) == ceiling - Min({value, ceiling})

CountUp(value, ceiling) == Min({value, ceiling})

\* A slip: the key leaves out how many a row stands for.
KeyWithoutFold(row, order) ==
  CASE order = "newest" -> <<CountDown(row.since, TimeCeiling), row.cluster, row.id>>
    [] order = "oldest" -> <<CountUp(row.since, TimeCeiling), row.cluster, row.id>>
    [] OTHER -> <<Fatal - row.severity, CountDown(row.since, TimeCeiling), row.cluster, row.id>>

IssueKey(row, order) ==
  CASE order = "newest" -> <<CountDown(row.since, TimeCeiling), row.cluster, row.id>>
    [] order = "oldest" -> <<CountUp(row.since, TimeCeiling), row.cluster, row.id>>
    [] OTHER -> <<Fatal - row.severity, CountDown(row.folded, FoldCeiling),
                  CountDown(row.since, TimeCeiling), row.cluster, row.id>>

\* A cursor is the key of the last row shown and the order it was made for.
Start == [order |-> "any", key |-> <<>>]

CursorFits(cursor, order) == cursor = Start \/ cursor.order = order

After(row, cursor, order) == cursor = Start \/ Before(cursor.key, IssueKey(row, order))

IssuePage(rows, cursor, limit, order) ==
  LET rest == SelectSeq(rows, LAMBDA r : After(r, cursor, order))
      shown == SubSeq(rest, 1, Min({limit, Len(rest)}))
  IN [rows |-> shown,
      next |-> IF Len(rest) > limit THEN [order |-> order, key |-> IssueKey(shown[limit], order)] ELSE Start]

\* Every page from a cursor on.
Pages(rows, cursor, limit, order) ==
  LET page[n \in 0..Len(rows)] == IssuePage(rows, IF n = 0 THEN cursor ELSE page[n - 1].next, limit, order)
      last == Min({n \in 0..Len(rows) : page[n].next = Start})
      glued[n \in 0..Len(rows)] == IF n = 0 THEN page[0].rows ELSE glued[n - 1] \o page[n].rows
  IN glued[last]

FoldIssues(boss, found, rowRoom, childRoom) ==
  LET owners == {OwnerUid(boss, found[i].subject) : i \in DOMAIN found}
      rows == Rank({Row(o, Prune(GroupOf(boss, found, o)), childRoom) : o \in owners}, "worst")
  IN [rows |-> SubSeq(rows, 1, Min({rowRoom, Len(rows)})),
      dropped |-> Len(rows) - Min({rowRoom, Len(rows)})]

-----------------------------------------------------------------------------
(* The questions.                                                            *)

PodStates ==
  {<<>>, <<"running">>, <<"starting">>, <<"crashloop">>, <<"oom">>, <<"image">>, <<"config">>,
   <<"crashed">>, <<"exited">>, <<"running", "starting">>, <<"running", "oom">>, <<"exited", "crashed">>}

AskPod ==
  Ready /\ \E phase \in {"Pending", "Running", "Succeeded", "Failed"}, states \in PodStates,
             scheduled \in {Missing, "True", "False"}, gone \in {0, 1, 3}, since \in {1, 2},
             events \in {<<>>, <<"Normal">>, <<"Warning">>, <<"Normal", "Warning">>}, readable \in BOOLEAN :
    /\ phase \in {"Running", "Succeeded"} => scheduled = "True"
    /\ states # <<>> => scheduled = "True"
    /\ Put([about |-> "pod", events |-> events, readable |-> readable,
            pod |-> [phase |-> phase, states |-> states, scheduled |-> scheduled, gone |-> gone, since |-> since]])

AskController ==
  Ready /\ \E kind \in {"Deployment", "DaemonSet", "Job"}, ready, want, numberReady, scheduled \in 0..2,
             failed, stuck, gone \in BOOLEAN, progressing \in {Missing, "True", "False"}, since \in {1, 2} :
    /\ kind = "DaemonSet" => ready = 0 /\ want = 0     \* it has no such fields
    /\ kind # "DaemonSet" => numberReady = 0 /\ scheduled = 0
    /\ Put([about |-> "workload",
            work |-> [kind |-> kind, ready |-> ready, want |-> want, numberReady |-> numberReady,
                      scheduled |-> scheduled, gone |-> IF gone THEN 1 ELSE 0, since |-> since,
                      cond |-> [Failed |-> IF failed THEN "True" ELSE Missing, Progressing |-> progressing,
                                ReplicaFailure |-> IF stuck THEN "True" ELSE Missing]]])

Statuses == {Missing, "True", "False", "Unknown"}

AskThing ==
  Ready /\ \E kind \in {"Flux", "Node", "Namespace", "Certificate"}, suspended \in BOOLEAN, gone \in {0, 1},
             ready, available \in Statuses, stalled, pressure \in {Missing, "True"} :
    Put([about |-> "thing",
         thing |-> [kind |-> kind, suspended |-> suspended, gone |-> gone,
                    cond |-> [Ready |-> ready, Available |-> available, Synced |-> Missing,
                              Stalled |-> stalled, Degraded |-> Missing, Pressure |-> pressure]]])

\* A small cluster of things that are judged by what else was read.
AskCluster ==
  Ready /\ \E read \in SUBSET {"events", "claims", "services", "endpoints", "scalers", "apps"},
             events \in {<<>>, <<"Warning">>}, claim \in {"Bound", "Pending", "Lost"}, notAfter \in {0, 2, 4, 9},
             addresses \in {<<>>, <<0>>, <<0, 2>>}, active \in {"True", "False"}, high \in 1..2,
             health \in {"Healthy", "Degraded"} :
    Put([about |-> "cluster", read |-> read, events |-> events, claim |-> claim, notAfter |-> notAfter,
         addresses |-> addresses, active |-> active, high |-> high, health |-> health])

\* What each detector says when only the types in `read` could be listed.
Verdicts(c, read) ==
  LET told(type, symptom) == IF type \in read THEN {<<type, symptom>>} ELSE {}
      waiting == [phase |-> "Pending", states |-> <<"starting">>, scheduled |-> "True", gone |-> 0, since |-> 1]
  IN UNION {told("claims", ClaimSymptom(0, c.claim)),
            told("claims", ExpirySymptom(c.notAfter)),
            told("apps", DefinitionSymptom(IF c.notAfter = 0 THEN "False" ELSE "True")),
            told("services", RoutingSymptom(TRUE, IF "endpoints" \in read THEN c.addresses ELSE <<>>)),
            told("scalers", AutoscalerSymptom(c.active, "True", 1, c.high, 2, TRUE)),
            told("apps", ArgoSymptom("Succeeded", c.health, "OutOfSync")),
            {<<"pods", StallSymptom(waiting, c.events, "events" \in read)>>}}

\* Two pods of a replica set of a deployment, and a node.
Kinds == <<"Deployment", "ReplicaSet", "Pod", "Pod", "Node">>

AskFold ==
  Ready /\ \E rsHeld, firstHeld, secondHeld \in BOOLEAN, severity \in [1..4 -> 0..3], node \in {0, 2},
             short \in BOOLEAN, room \in 1..2 :
    LET level == [uid \in 1..5 |-> IF uid = 5 THEN node ELSE severity[uid]]
        title == [uid \in 1..5 |->
                    IF Kinds[uid] = "Pod" THEN "CrashLoopBackOff"
                    ELSE IF short THEN "NotEnoughReplicas" ELSE "RolloutStalled"]
        one(uid) == [subject |-> uid, kind |-> Kinds[uid], severity |-> level[uid], title |-> title[uid],
                     since |-> (uid * 2) % 5]
    IN Put([about |-> "fold", rowRoom |-> room, childRoom |-> 1,
            boss |-> <<0, IF rsHeld THEN 1 ELSE 0, IF firstHeld THEN 2 ELSE 0, IF secondHeld THEN 2 ELSE 0, 0>>,
            found |-> SelectSeq(<<one(3), one(4), one(1), one(2), one(5)>>, LAMBDA f : f.severity # 0)])

SomeRows ==
  {[id |-> 1, cluster |-> 1, severity |-> 3, folded |-> 0, since |-> 2],
   [id |-> 2, cluster |-> 1, severity |-> 3, folded |-> 2, since |-> 1],
   [id |-> 1, cluster |-> 2, severity |-> 3, folded |-> 2, since |-> 0],
   [id |-> 3, cluster |-> 1, severity |-> 1, folded |-> 4, since |-> 3],
   [id |-> 3, cluster |-> 2, severity |-> 1, folded |-> 0, since |-> 3]}

AskPages ==
  Ready /\ \E rows, later \in SUBSET SomeRows, limit \in 1..2, order, next \in Orders :
    Put([about |-> "pages", rows |-> rows, later |-> later, limit |-> limit, order |-> order, next |-> next])

AskIssues == AskPod \/ AskController \/ AskThing \/ AskCluster \/ AskFold \/ AskPages

-----------------------------------------------------------------------------
(* The properties.                                                           *)

\* A pod is reported by one detector at most: what the stall detector finds
\* was not already found by the startup detector, and a pod that is going is
\* left to the one for pods that do not go (stall.go, pods.go, cluster.go).
OneVerdictPerPod ==
  Asks("pod") => Cardinality(PodVerdicts(ask.pod, ask.events, ask.readable)) =< 1

\* A pod that was bound long ago, runs nothing and is not finished is told,
\* if the kubelet was silent or ever warned about it (stall.go
\* whatHappened, newestWarning).
StuckPodsAreTold ==
  Asks("pod") =>
    (/\ ask.pod.gone = 0 /\ ask.pod.scheduled = "True" /\ ask.pod.phase = "Pending" /\ ask.pod.since = 1
     /\ "running" \notin ToSet(ask.pod.states) /\ ask.readable
     /\ (ask.events = <<>> \/ "Warning" \in ToSet(ask.events))
     => PodVerdicts(ask.pod, ask.events, ask.readable) # {})

\* What the tree and the overview colour as unhealthy (WorkloadUnhealthy) is
\* in the issue queue once its grace is over (workloads.go).
UnhealthyIsAnIssue ==
  Asks("workload") =>
    (WorkloadUnhealthy(ask.work) /\ ask.work.gone = 0 /\ Now - ask.work.since >= Grace
     => WorkloadSymptom(ask.work) # NoSymptom)

\* What Flux manages is judged by one detector, and by none while somebody
\* has suspended it (gitops.go fluxFinding, conditions.go conditionFinding).
FluxIsJudgedOnce ==
  Asks("thing") /\ ask.thing.kind = "Flux" =>
    Cardinality(ThingVerdicts(ask.thing)) =< (IF ask.thing.suspended THEN 0 ELSE 1)

\* A type that could not be listed makes no other object look broken: what
\* is reported then is reported when everything is read (source.go read,
\* stall.go whatHappened).  The one exception is a Service whose endpoints
\* could not be listed (cluster.go routingFindings).
UnreadAccusesNobody ==
  Asks("cluster") =>
    \A v \in Verdicts(ask, ask.read) :
      v[2].title = "NoEndpoints" \/ v[2] = NoSymptom
      \/ v \in Verdicts(ask, {"events", "claims", "services", "endpoints", "scalers", "apps"})

\* Leaving out what the pods explain hides nothing: every row keeps the
\* severity of the worst finding folded into it, and no row loses all of its
\* findings (fold.go prune, rowOf).
NoSeverityHidden ==
  Asks("fold") =>
    LET queue == FoldIssues(ask.boss, ask.found, ask.rowRoom, ask.childRoom)
    IN \A i \in DOMAIN queue.rows :
         queue.rows[i].severity = Worst(GroupOf(ask.boss, ask.found, queue.rows[i].id))

\* An object and the object that controls it are never in two rows, and the
\* rows shown and the rows left out add up (source.go owner, fold.go fold).
OneRowPerController ==
  Asks("fold") =>
    LET queue == FoldIssues(ask.boss, ask.found, ask.rowRoom, ask.childRoom)
        subjects == {ask.found[i].subject : i \in DOMAIN ask.found}
        top == {s \in subjects : ~ \E t \in subjects : t # s /\ OwnerUid(ask.boss, s) = OwnerUid(ask.boss, t) /\ t < s}
    IN /\ Len(queue.rows) + queue.dropped = Cardinality(top)
       /\ \A s, t \in subjects : ask.boss[s] = t => OwnerUid(ask.boss, s) = OwnerUid(ask.boss, t)

\* Reading on from a cursor shows every row that is still there exactly once
\* and nothing twice, whatever came or went meanwhile, and a cursor made for
\* another order is refused (page.go Page, issueKey, DecodeCursor).
PagesSkipNoIssue ==
  Asks("pages") =>
    LET first == IssuePage(Rank(ask.rows, ask.order), Start, ask.limit, ask.order)
        rest == IF first.next = Start \/ ~ CursorFits(first.next, ask.next) THEN <<>>
                ELSE Pages(Rank(ask.later, ask.next), first.next, ask.limit, ask.next)
        shown == first.rows \o rest
    IN /\ \A i, j \in DOMAIN shown : i # j => shown[i] # shown[j]
       /\ ask.next = ask.order /\ first.next # Start => ask.rows \cap ask.later \subseteq ToSet(shown)
       /\ ask.next = ask.order /\ ask.rows = ask.later => shown = Rank(ask.rows, ask.order)
=============================================================================
