------------------------------ MODULE FluxArgo ------------------------------
(* The two GitOps controllers the server knows (internal/flux,               *)
(* internal/argocd): where an object's source is, the actions on it, the     *)
(* dashboards, the overview, and what is told of an application's troubles.  *)
EXTENDS Question, Integers, Sequences, FiniteSets, FiniteSetsExt, SequencesExt

-----------------------------------------------------------------------------
(* The source of a Flux object.  A reference has a kind, a name and a        *)
(* namespace, 0 where it is not set.                                         *)

NoSource == [kind |-> 0, name |-> 0, place |-> 0]

Complete(ref) == ref.kind # 0 /\ ref.name # 0

\* gitops.sourceRefOf and the guard of sourceEdge.
GraphSource(obj) ==
  CASE Complete(obj.chartRef) -> obj.chartRef
    [] ~ Complete(obj.chartRef) /\ Complete(obj.sourceRef) -> obj.sourceRef
    [] ~ Complete(obj.chartRef) /\ ~ Complete(obj.sourceRef) /\ Complete(obj.chart) -> obj.chart
    [] OTHER -> NoSource

\* SourceRef, for the actions.
ActionSource(obj) ==
  LET found == SelectSeq(<<obj.chartRef, obj.sourceRef, obj.chart>>, Complete)
  IN IF found = <<>> THEN NoSource ELSE found[1]

\* sourceOf, for the rows and the page: kind and name only.
RowSource(obj) ==
  LET first == IF Complete(obj.chartRef) THEN obj.chartRef ELSE obj.sourceRef
      ref == IF Complete(first) THEN first ELSE obj.chart
  IN IF Complete(ref) THEN [kind |-> ref.kind, name |-> ref.name] ELSE [kind |-> 0, name |-> 0]

InPlace(ref, place) == IF ref.place = 0 THEN place ELSE ref.place

\* resolveSource: the page asks for it where spec.sourceRef says, whichever
\* reference named it.
PageSource(obj) == [kind |-> RowSource(obj).kind, name |-> RowSource(obj).name, place |-> InPlace(obj.sourceRef, obj.place)]

-----------------------------------------------------------------------------
(* Flux actions.  `api` says which of the calls fail.                         *)

Untouched == [ok |-> FALSE, source |-> FALSE, object |-> FALSE]

\* flux.Do and reconcileSource: the source first, and the object only when
\* that was done; a source that was patched stays so when the object fails.
FluxDo(action, obj, api) ==
  LET withSource == action = "reconcile-with-source"
      source == withSource /\ api.get /\ ActionSource(obj) # NoSource /\ api.served /\ api.source
  IN CASE action \notin {"reconcile", "reconcile-with-source", "suspend", "resume"} -> Untouched
       [] withSource /\ ~ source -> Untouched
       [] OTHER -> [ok |-> api.object, source |-> source, object |-> api.object]

-----------------------------------------------------------------------------
(* The Flux dashboard.  A release is [az, chart]: its place in the alphabet   *)
(* and the chart it installs.                                                 *)

ByAlphabet(a, b) == a.az < b.az

LatestFor(chart) == 10 * chart      \* the index, external

\* A slip: the rows are sorted before the newest versions are looked up.
DashboardSortedFirst(objects) ==
  LET rows == SortSeq([i \in DOMAIN objects |-> [az |-> objects[i].az, latest |-> 0]], ByAlphabet)
  IN [i \in DOMAIN rows |-> [rows[i] EXCEPT !.latest = LatestFor(objects[i].chart)]]

\* Build, applyLatest and assemble: rows and objects side by side until the
\* rows are sorted.
DashboardRows(objects) ==
  SortSeq([i \in DOMAIN objects |-> [az |-> objects[i].az, latest |-> LatestFor(objects[i].chart)]], ByAlphabet)

\* The Argo CD dashboard: ownerOf and withParents.  An application's owner is
\* kept when it is on the page.
AppOwner(app) ==
  CASE app.set # 0 -> app.set
    [] app.set = 0 /\ app.label \notin {0, app.name} -> app.label
    [] OTHER -> IF app.tracking = app.name THEN 0 ELSE app.tracking

WithParents(apps, sets) ==
  LET known == {apps[i].name : i \in DOMAIN apps} \cup sets
  IN [i \in DOMAIN apps |-> [name |-> apps[i].name, owner |-> IF AppOwner(apps[i]) \in known THEN AppOwner(apps[i]) ELSE 0]]

-----------------------------------------------------------------------------
(* The overview of a Flux installation.                                       *)

\* pick, and what an empty answer or a listing that failed leaves.
PickSync(items, place) == {i \in DOMAIN items : items[i].named /\ items[i].place = place}

\* controllersOf, syncOf and verdict.
FluxVerdict(controllers, items, place) ==
  LET found == PickSync(items, place)
      ready == found # {} /\ items[Min(found)].ready
  IN CASE controllers = <<>> -> "nothing"
       [] controllers # <<>> /\ (\E i \in DOMAIN controllers : controllers[i] = 0) -> "controllers are short"
       [] OTHER -> IF found = {} THEN "no sync" ELSE IF ready THEN "in sync" ELSE "sync is not ready"

-----------------------------------------------------------------------------
(* Argo CD actions.  An application is what the actions look at: whether it   *)
(* syncs itself, its operation, the deployments in its history.  `then` is    *)
(* the application the patch meets, `keeps` whether its CRD keeps the fields. *)

Automated == {"absent", "unset", "on", "off"}

AutoSyncing(app) == app.automated \in {"unset", "on"}

\* automatedPatch, terminatePatch and rollbackPatch look at the application
\* first.
ArgoRefuses(action, seen, wanted) ==
  CASE action = "suspend" -> ~ AutoSyncing(seen)
    [] action = "resume" -> AutoSyncing(seen)
    [] action = "terminate" -> seen.phase # "Running"
    [] action = "rollback" -> AutoSyncing(seen) \/ wanted \notin seen.history
    [] OTHER -> action \notin {"sync", "refresh", "hard-refresh"}

\* patchFor.
ArgoPatch(action, seen, wanted) ==
  CASE ArgoRefuses(action, seen, wanted) -> "none"
    [] ~ ArgoRefuses(action, seen, wanted) /\ action = "suspend" -> "off"
    [] ~ ArgoRefuses(action, seen, wanted) /\ action = "resume" -> "on"
    [] ~ ArgoRefuses(action, seen, wanted) /\ action = "terminate" -> "terminating"
    [] OTHER -> "operation"

\* The merge patch at the API server, external: fields the CRD does not know
\* are dropped.
PatchedApp(app, patch, keeps) ==
  CASE patch \in {"on", "off"} ->
         [app EXCEPT !.automated = IF keeps THEN patch ELSE IF @ = "absent" THEN "unset" ELSE @]
    [] patch = "terminating" -> [app EXCEPT !.phase = IF keeps THEN "Terminating" ELSE @]
    [] OTHER -> app

\* landed: the answer to the patch is looked at.
Landed(action, after) ==
  CASE action \in {"suspend", "resume"} -> AutoSyncing(after) = (action = "resume")
    [] action = "terminate" -> after.phase # "Running"
    [] OTHER -> TRUE

ArgoDo(action, seen, then, wanted, keeps) ==
  LET patch == ArgoPatch(action, seen, wanted)
      after == PatchedApp(then, patch, keeps)
  IN IF patch = "none" THEN [ok |-> FALSE, after |-> then] ELSE [ok |-> Landed(action, after), after |-> after]

-----------------------------------------------------------------------------
(* What is told of an application (diagnose.go) and of a Flux object.         *)

Broken == {"Degraded", "Missing"}
Phases == {"", "Succeeded", "Running", "Failed", "Error"}

OperationIssues(app) == IF app.phase \in {"", "Succeeded", "Running"} THEN {} ELSE {"operation"}

DriftIssues(app) ==
  CASE app.sync # "OutOfSync" -> {}
    [] app.sync = "OutOfSync" /\ ~ AutoSyncing(app) -> {"drift"}
    [] OTHER -> IF app.phase = "Succeeded" THEN {"drift"} ELSE {}

\* healthIssues: once for each kind and name, unless the message of the last
\* operation names it.
HealthIssues(app) ==
  {<<app.resources[i].kind, app.resources[i].name>> : i \in {i \in DOMAIN app.resources :
     app.resources[i].health \in Broken /\ app.resources[i].name # app.blamed}}

\* issuesOfApp, but for the resources.
AppIssues(app) == OperationIssues(app) \cup DriftIssues(app)

\* failing, of a condition of a Flux object.
FailingCondition(kind, status) ==
  CASE kind \in {"Ready", "Healthy"} -> status = "False" [] kind = "Stalled" -> status = "True" [] OTHER -> FALSE

\* issuesOfApplier.
ApplierIssues(obj) ==
  (IF obj.suspended THEN {"drift"} ELSE {}) \cup {k \in DOMAIN obj.conditions : FailingCondition(k, obj.conditions[k])}

\* operationOfApplier: what is still reconciling is neither done nor failed.
ApplierPhase(obj) ==
  CASE obj.conditions["Reconciling"] = "True" -> "Running"
    [] obj.conditions["Reconciling"] # "True" /\ obj.conditions["Ready"] = "" -> "none"
    [] OTHER -> IF obj.conditions["Ready"] = "False" THEN "Failed" ELSE "Succeeded"

-----------------------------------------------------------------------------
Refd == {NoSource} \cup [kind : {0, 1, 2}, name : {1}, place : {0, 2}]

AskSource ==
  /\ Ready
  /\ \E chartRef \in Refd, sourceRef \in Refd, chart \in Refd,
        action \in {"reconcile", "reconcile-with-source", "suspend", "other"},
        api \in [get : BOOLEAN, served : BOOLEAN, source : BOOLEAN, object : BOOLEAN] :
       Put([about |-> "source", action |-> action, api |-> api,
            obj |-> [chartRef |-> chartRef, sourceRef |-> sourceRef, chart |-> chart, place |-> 1]])

Release == [az : 1..3, chart : 1..2]
ArgoApps == [name : 1..2, set : {0, 1, 3}, label : {0, 1, 4}, tracking : {0, 2, 4}]

AskDashboards ==
  /\ Ready
  /\ \/ \E objects \in BoundedSeq(Release, 3) :
          /\ \A i, j \in DOMAIN objects : objects[i].az = objects[j].az => i = j
          /\ Put([about |-> "flux rows", objects |-> objects])
     \/ \E apps \in BoundedSeq(ArgoApps, 2), sets \in SUBSET {3} :
          Put([about |-> "argo rows", apps |-> apps, sets |-> sets])
     \/ \E controllers \in BoundedSeq(0..1, 2), items \in BoundedSeq([named : BOOLEAN, place : 1..2, ready : BOOLEAN], 2) :
          Put([about |-> "overview", controllers |-> controllers, items |-> items])

ArgoSeen == [automated : Automated, phase : Phases, history : SUBSET {1}]

AskArgo ==
  /\ Ready
  /\ \E action \in {"suspend", "resume", "terminate", "rollback", "sync", "other"},
        seen \in ArgoSeen, then \in ArgoSeen, keeps \in BOOLEAN :
       Put([about |-> "argo action", action |-> action, seen |-> seen, then |-> then, keeps |-> keeps])

AskTroubles ==
  /\ Ready
  /\ \/ \E resources \in BoundedSeq([kind : 1..2, name : 1..2, health : {"Healthy", "Degraded"}], 2),
           blamed \in 0..2, phase \in Phases, automated \in Automated, sync \in {"Synced", "OutOfSync"} :
          Put([about |-> "argo issues",
               app |-> [resources |-> resources, blamed |-> blamed, phase |-> phase, automated |-> automated, sync |-> sync]])
     \/ \E conditions \in [{"Ready", "Healthy", "Stalled", "Reconciling"} -> {"", "True", "False", "Unknown"}], suspended \in BOOLEAN :
          Put([about |-> "flux issues", obj |-> [conditions |-> conditions, suspended |-> suspended]])

-----------------------------------------------------------------------------
\* The graph, the action that reconciles the source first and the row name one
\* source, and the page of an object with nothing but a sourceRef reads it
\* there too.
SourcesAgree ==
  Asks("source") =>
    LET drawn == GraphSource(ask.obj) IN
    /\ drawn = ActionSource(ask.obj)
    /\ RowSource(ask.obj) = [kind |-> drawn.kind, name |-> drawn.name]
    /\ Complete(ask.obj.sourceRef) /\ ~ Complete(ask.obj.chartRef) =>
         PageSource(ask.obj) = [drawn EXCEPT !.place = InPlace(drawn, ask.obj.place)]

\* An action on a Flux object that is reported as done was done to the object,
\* and before it to the source where that was asked for; an object is never
\* reconciled without the source that was asked for.
FluxSaysWhatItDid ==
  Asks("source") =>
    LET got == FluxDo(ask.action, ask.obj, ask.api) IN
    /\ got.ok => got.object
    /\ ask.action = "reconcile-with-source" /\ got.object => got.source
    /\ ask.action = "other" => ~ got.object /\ ~ got.source

\* The newest version on a row is that of the row's own chart, although rows
\* and objects are matched by their place.
LatestBelongsToItsRow ==
  Asks("flux rows") =>
    \A i \in DOMAIN DashboardRows(ask.objects) :
      \E j \in DOMAIN ask.objects :
        /\ ask.objects[j].az = DashboardRows(ask.objects)[i].az
        /\ DashboardRows(ask.objects)[i].latest = LatestFor(ask.objects[j].chart)

\* An application hangs below nothing that the page does not show.
ParentsAreOnThePage ==
  Asks("argo rows") =>
    LET rows == WithParents(ask.apps, ask.sets) IN
    \A i \in DOMAIN rows : rows[i].owner \in {0} \cup ask.sets \cup {rows[j].name : j \in DOMAIN rows}

\* The overview says the cluster is in sync only when every controller has a
\* ready replica and the sync of Flux's own namespace is ready, whatever else
\* bears its name.
InSyncIsEarned ==
  Asks("overview") =>
    (FluxVerdict(ask.controllers, ask.items, 1) = "in sync" =>
       /\ \A i \in DOMAIN ask.controllers : ask.controllers[i] > 0
       /\ \E i \in DOMAIN ask.items : ask.items[i] = [named |-> TRUE, place |-> 1, ready |-> TRUE])

\* An action that Argo CD is reported to have taken shows in the application,
\* although others change it between the look and the patch and a CRD may drop
\* the field.
DoneMeansDone ==
  Asks("argo action") =>
    LET got == ArgoDo(ask.action, ask.seen, ask.then, 1, ask.keeps) IN
    got.ok => /\ ask.action = "suspend" => ~ AutoSyncing(got.after)
              /\ ask.action = "resume" => AutoSyncing(got.after)
              /\ ask.action = "terminate" => got.after.phase # "Running"
              /\ ask.action = "rollback" => 1 \in ask.seen.history

\* A resource that is degraded or missing is told, unless the message of the
\* last operation names it.
BrokenResourcesAreTold ==
  Asks("argo issues") =>
    \A i \in DOMAIN ask.app.resources :
      LET r == ask.app.resources[i] IN
      r.health \in Broken => <<r.kind, r.name>> \in HealthIssues(ask.app) \/ r.name = ask.app.blamed

\* An application that stays out of sync is told of, unless its operation is
\* still to come or at work.
OutOfSyncIsTold ==
  Asks("argo issues") =>
    (ask.app.sync = "OutOfSync" => AppIssues(ask.app) # {} \/ (AutoSyncing(ask.app) /\ ask.app.phase \in {"", "Running"}))

\* What the page calls failed or degraded has an issue that says why.
FailedIsExplained ==
  Asks("flux issues") =>
    (ApplierPhase(ask.obj) = "Failed" \/ ask.obj.conditions["Ready"] = "False" => "Ready" \in ApplierIssues(ask.obj))
=============================================================================
