------------------------------ MODULE Admission ------------------------------
(* Who may reach what: the guard before every handler, for a spinoza that    *)
(* runs at home and for one that serves a cluster (internal/server/guard.go, *)
(* auth.go), the policy of the routes (routes.go, policy.go), the roles      *)
(* (internal/auth) and what Kubernetes is asked before something is shown or *)
(* done (internal/access).  A request is described by what is true of it;    *)
(* the headers a browser adds follow from that.  Then what may be done:      *)
(* actions on workloads, nodes and cron jobs (internal/actions), the history *)
(* an undo goes back into (internal/rollout) and the permissions asked for   *)
(* them beforehand; the drain of a node has a module of its own.  Last, who  *)
(* is shown to have which permission (internal/rbac).                        *)
(*                                                                           *)
(* What is asked about (the rows of a selection, the clusters of a fleet,    *)
(* the revisions and roles there are) comes from constants of any size.      *)
EXTENDS Question, Integers, Sequences, FiniteSets, FiniteSetsExt, SequencesExt

CONSTANTS
  Selections,       \* the rows that are selected together, by their kinds
  Denials,          \* the checks an account may not pass
  PodTemplates,     \* functions from the fields a template sets to their values
  Histories,        \* the revisions that lie beside a workload
  RevisionNumbers,  \* the revisions an undo may ask for
  Groups,           \* the groups of accounts
  Namespaces,       \* the namespaces of a cluster
  Fleets,           \* the open clusters, each with what an account may and is told
  Remembered,       \* questions whose answers are kept for a while
  RememberTtl, RememberRoom, Clocks,
  RbacClusters,     \* roles and bindings, and which of them can be read
  RbacQuestions,    \* who may do this there?
  Places            \* the namespaces of roles and bindings; 0 is the cluster

-----------------------------------------------------------------------------
(* Actions and capabilities.                                               *)

Scalable == {"deployments", "statefulsets", "replicasets", "replicationcontrollers"}
Restartable == {"deployments", "statefulsets", "daemonsets"}
OwnsPods == Scalable \cup Restartable \cup {"jobs"}
ActionKinds == OwnsPods \cup {"nodes", "cronjobs", "pods", "services", "kustomizations", "configmaps"}

\* What is asked of the cluster, with the subresource or the other kind it is of.
CheckVerbs == {"update", "delete", "patch", "patch scale", "list history", "create jobs", "list pods", "get log",
               "create exec", "create portforward"}

ASSUME SelectionAssumption == Selections \subseteq Seq(ActionKinds) /\ Denials \subseteq SUBSET CheckVerbs

\* Every.
ActionVerbs == {"scale", "restart", "cordon", "uncordon", "drain", "suspend", "resume", "trigger", "undo"}

\* Supported.
ActionSupported(kind, action) ==
  CASE action = "scale" -> kind \in Scalable
    [] action \in {"restart", "undo"} -> kind \in Restartable
    [] action \in {"cordon", "uncordon", "drain"} -> kind = "nodes"
    [] action \in {"suspend", "resume", "trigger"} -> kind = "cronjobs"
    [] OTHER -> FALSE

\* needs: a capability and the checks it takes, by their verbs.
Needs(name, checks) == <<[name |-> name, checks |-> checks]>>
Held(here, capability) == IF here THEN capability ELSE <<>>

\* capabilitiesFor: what an account is asked about beforehand.
CapabilitiesFor(kind) ==
  Needs("edit", <<"update">>) \o Needs("delete", <<"delete">>)
    \o Held(kind \in Scalable, Needs("scale", <<"patch scale">>))
    \o Held(kind \in Restartable, Needs("restart", <<"patch">>) \o Needs("undo", <<"patch", "list history">>))
    \o Held(kind = "kustomizations", Needs("reconcile", <<"patch">>))
    \o Held(kind = "cronjobs", Needs("suspend", <<"patch">>) \o Needs("trigger", <<"create jobs">>))
    \o Held(kind = "nodes", Needs("cordon", <<"patch">>) \o Needs("drain", <<"list pods", "patch">>))
    \o Held(kind = "pods", Needs("logs", <<"get log">>) \o Needs("exec", <<"create exec">>) \o Needs("portForward", <<"create portforward">>))
    \o Held(kind \in OwnsPods, Needs("logs", <<"get log">>))
    \o Held(kind = "services", Needs("portForward", <<"create portforward">>))

CapabilityNames(held) == {held[i].name : i \in DOMAIN held}

\* capabilityNamed: the checks of a button, none for a kind that lacks it.
ChecksOf(name, kind) ==
  LET held == CapabilitiesFor(kind)
      found == {i \in DOMAIN held : held[i].name = name}
  IN IF found = {} THEN <<>> ELSE held[CHOOSE i \in found : \A j \in found : i =< j].checks

-----------------------------------------------------------------------------
(* The questions of many rows are put in one list, row after row, and the    *)
(* decisions are cut up again.  wanted[i] are the checks of row i, and       *)
(* said[<<i, j>>] is what the cluster says to the j-th of them.              *)

Asked(wanted) == UNION {{i} \X DOMAIN wanted[i] : i \in DOMAIN wanted}

\* How many questions stand in the list before those of row i.
StartsAt(wanted, i) == Cardinality({q \in Asked(wanted) : q[1] < i})

\* review: the decisions, in the order of the list.
Decisions(wanted, said) ==
  LET at == [i \in DOMAIN wanted |-> StartsAt(wanted, i)]
  IN [p \in 1 .. Cardinality(Asked(wanted)) |-> said[CHOOSE q \in Asked(wanted) : at[q[1]] + q[2] = p]]

\* A slip: the place in the decisions does not move on from row to row.
NotAdvanced(wanted) == [i \in DOMAIN wanted |-> 0]

\* Where the decisions of each row begin.
Bounds(wanted) == [i \in DOMAIN wanted |-> StartsAt(wanted, i)]

\* firstRefusal, of every row: the rows with a decision that is not a yes.
Stopped(wanted, said) ==
  LET decisions == Decisions(wanted, said)
      at == Bounds(wanted)
  IN {i \in DOMAIN wanted : \E j \in DOMAIN wanted[i] : decisions[at[i] + j] # "yes"}

\* answer, of one object: a row for each of its capabilities.
AccessAnswer(held, denied) ==
  LET wanted == [i \in DOMAIN held |-> held[i].checks]
      said == [q \in Asked(wanted) |-> IF wanted[q[1]][q[2]] \in denied THEN "no" ELSE "yes"]
  IN {held[i].name : i \in Stopped(wanted, said)}

\* ReviewEach, of one button: a row for each object of a selection.
WantedOf(name, kinds) == [i \in DOMAIN kinds |-> ChecksOf(name, kinds[i])]

ReviewEach(name, kinds, said) == Stopped(WantedOf(name, kinds), said)

-----------------------------------------------------------------------------
\* manageNode and manageCronJob: a verb and its opposite are one capability.
CapabilityOf(action) == CASE action = "uncordon" -> "cordon" [] action = "resume" -> "suspend" [] OTHER -> action

\* act, of an MCP client: permitted, then Do.
Performed(kind, action, denied) ==
  CapabilityOf(action) \notin AccessAnswer(CapabilitiesFor(kind), denied) /\ ActionSupported(kind, action)

-----------------------------------------------------------------------------
(* Revisions.  A template is a function from the fields it sets to their     *)
(* values; a revision holds one, or none, and belongs to the workload or to  *)
(* another.                                                                  *)

NoTemplate == [at |-> 0]
Revision == [number : Int, owned : BOOLEAN, template : PodTemplates \cup {NoTemplate}]

\* A workload has one revision of a number.
ASSUME UndoAssumption ==
  /\ NoTemplate \notin PodTemplates
  /\ \A t \in PodTemplates : t = [field \in DOMAIN t |-> t[field]]
  /\ \A held \in Histories :
       /\ held \subseteq Revision
       /\ \A r, o \in held : r.owned /\ o.owned /\ r.number = o.number => r = o

\* replicaSetHistory and controllerRevisionHistory.
RevisionHistory(held) == {r \in held : r.owned /\ r.number # 0}

\* pick.
PickRevision(held, number) ==
  LET found == {r \in RevisionHistory(held) : r.number = number}
  IN IF found = {} THEN NoTemplate ELSE (CHOOSE r \in found : TRUE).template

\* A JSON merge patch at the API server, external: what the patch does not
\* mention stays.
MergePatched(live, patch) ==
  [field \in DOMAIN live \cup DOMAIN patch |-> IF field \in DOMAIN patch THEN patch[field] ELSE live[field]]

\* undo: the revision's template is sent as a merge patch.
Undone(live, held, number, dryRun) ==
  LET template == PickRevision(held, number) IN
  IF number = 0 \/ template = NoTemplate THEN [ok |-> FALSE, live |-> live]
  ELSE [ok |-> TRUE, live |-> IF dryRun THEN live ELSE MergePatched(live, template)]

-----------------------------------------------------------------------------
AskActions ==
  /\ Ready
  /\ \E kind \in ActionKinds, action \in ActionVerbs \cup {"other"}, denied \in Denials :
       Put([about |-> "actions", kind |-> kind, action |-> action, denied |-> denied])

AskUndo ==
  /\ Ready
  /\ \E live \in PodTemplates, held \in Histories, number \in RevisionNumbers, dryRun \in BOOLEAN :
       Put([about |-> "undo", live |-> live, held |-> held, number |-> number, dryRun |-> dryRun])

-----------------------------------------------------------------------------
\* A capability is refused when one of its own checks is denied, and for no
\* other reason.
RefusalsAreTheirOwn ==
  Asks("actions") =>
    LET held == CapabilitiesFor(ask.kind) IN
    AccessAnswer(held, ask.denied) = {held[i].name : i \in {i \in DOMAIN held : ToSet(held[i].checks) \cap ask.denied # {}}}

\* Every action on every kind it is supported for has a permission that is
\* asked about beforehand: an account that may not patch an object changes it
\* by no verb, and one that may not create jobs triggers none.
RefusedIsNotPerformed ==
  Asks("actions") =>
    /\ ActionSupported(ask.kind, ask.action) => CapabilityOf(ask.action) \in CapabilityNames(CapabilitiesFor(ask.kind))
    /\ Performed(ask.kind, ask.action, ask.denied) =>
         CASE ask.action = "scale" -> "patch scale" \notin ask.denied
           [] ask.action = "trigger" -> "create jobs" \notin ask.denied
           [] OTHER -> "patch" \notin ask.denied

\* An undo goes to the revision of that number of this very workload: every
\* field that revision sets is set to its value again, or nothing is changed.
UndoSetsWhatWasSet ==
  Asks("undo") =>
    LET got == Undone(ask.live, ask.held, ask.number, ask.dryRun) IN
    IF got.ok /\ ~ ask.dryRun
    THEN \E r \in ask.held :
           /\ r.owned /\ r.number = ask.number
           /\ r.template # NoTemplate
           /\ \A field \in DOMAIN r.template : got.live[field] = r.template[field]
    ELSE got.live = ask.live

-----------------------------------------------------------------------------
(* Requests.  `from` is the page a browser sends it for: spinoza's own, one  *)
(* of another site, the desktop window, a page without an origin of its own, *)
(* or no page at all.                                                        *)

Sites == {"own", "foreign", "desktop", "opaque", "none"}

Navigates(r) == r.dest = "document"

\* What browsers send (external): no Origin with a navigation or a plain read
\* of the same site; Sec-Fetch-Site only from those that know it.
Origin(r) ==
  CASE r.from = "none" -> ""
    [] r.from = "opaque" -> IF r.method = "GET" /\ Navigates(r) THEN "" ELSE "null"
    [] r.from = "own" -> IF r.method = "GET" /\ ~ r.upgrade THEN "" ELSE "own"
    [] OTHER -> IF r.method = "GET" /\ Navigates(r) THEN "" ELSE r.from

FetchSite(r) ==
  IF ~ r.modern \/ r.from = "none" THEN ""
  ELSE IF r.from = "own" THEN "same-origin" ELSE "cross-site"

TopLevelNavigation(r) ==
  r.method = "GET" /\ r.modern /\ r.from # "none" /\ Navigates(r)

AllowedOrigin(origin) == origin \in {"", "own", "desktop"}

NullIsOurs(r) == FetchSite(r) = "same-origin"

FromOurPage(r) ==
  CASE Origin(r) = "null" -> NullIsOurs(r)
    [] Origin(r) = "" -> TopLevelNavigation(r) \/ FetchSite(r) # "cross-site"
    [] OTHER -> AllowedOrigin(Origin(r))

IsLocal(r) == r.loopback /\ FromOurPage(r)

\* With a public address configured only pages of that address are ours.
OwnAddress(r, publicURL) ==
  IF publicURL /\ Origin(r) \notin {"", "null"} THEN Origin(r) = "own" ELSE FromOurPage(r)

Upgrading(r) == r.method = "GET" /\ r.upgrade /\ r.path \in {"feed", "exec", "shell"}

PublicAsset(r) == r.method = "GET" /\ r.path = "asset"

PublicWhenServing(r) ==
  \/ PublicAsset(r)
  \/ r.method = "POST" /\ r.path \in {"logout", "backchannel"}
  \/ r.method = "GET" /\ r.path \in {"index", "session", "login", "callback", "logout"}

\* The header is looked at first, then the query, then the cookie.
PresentedToken(r) ==
  CASE r.header # "" -> r.header
    [] r.header = "" /\ r.query # "" -> r.query
    [] OTHER -> r.cookie

AdmitLocal(r) ==
  CASE ~ IsLocal(r) -> 403
    [] IsLocal(r) /\ ~ PublicAsset(r) /\ PresentedToken(r) # "good" -> IF Upgrading(r) THEN 4401 ELSE 401
    [] OTHER -> 200

AdmitServed(r, publicURL) ==
  CASE ~ OwnAddress(r, publicURL) -> 403
    [] OwnAddress(r, publicURL) /\ ~ PublicWhenServing(r) /\ r.role = "nobody" -> 401
    [] OTHER -> 200

-----------------------------------------------------------------------------
(* Roles.                                                                    *)

Strength(role) ==
  CASE role = "viewer" -> 1 [] role = "editor" -> 2 [] role = "admin" -> 3 [] OTHER -> 0

Allows(held, needed) == needed = "" \/ Strength(held) >= Strength(needed)

NamesGroups(groups) == groups.admin \cup groups.editor \cup groups.viewer # {}

ForGroups(groups, fallback, held) ==
  CASE ~ NamesGroups(groups) -> fallback
    [] NamesGroups(groups) /\ held \cap groups.admin # {} -> "admin"
    [] NamesGroups(groups) /\ held \cap groups.admin = {} /\ held \cap groups.editor # {} -> "editor"
    [] NamesGroups(groups) /\ held \cap (groups.admin \cup groups.editor) = {} /\ held \cap groups.viewer # {} -> "viewer"
    [] OTHER -> fallback

-----------------------------------------------------------------------------
(* The policy of the routes, one route for each row that differs.            *)

NeededRole(path) ==
  CASE path \in {"protection", "exec", "historyExport"} -> "admin"
    [] path \in {"action", "baseline", "object"} -> "editor"
    [] OTHER -> ""

OnlyWhenLocal(path) == path \in {"shell", "portforward", "clusters"}

NeedsWholeFleet(path) == path \in {"overviewFleet"}

NeedsWholeCluster(path) == path \in {"overview", "baseline", "historyExport"} \/ NeedsWholeFleet(path)

Offline(path) == path \in {"protection", "clusters", "historyExport", "index", "asset", "session", "login"}

\* What an account may read, as the access service found out.
Refusal(scope) ==
  CASE scope.everywhere -> 0
    [] ~ scope.everywhere /\ scope.namespaces = {} /\ scope.undecided # {} -> 503
    [] OTHER -> 403

\* The scopes are those of the open clusters, the asked one first.
FleetRefusal(scopes) ==
  LET refused == {i \in DOMAIN scopes : Refusal(scopes[i]) # 0}
  IN IF refused = {} THEN 0 ELSE Refusal(scopes[CHOOSE i \in refused : \A j \in refused : i =< j])

WholeRefusal(path, scopes) ==
  CASE NeedsWholeFleet(path) -> FleetRefusal(scopes)
    [] ~ NeedsWholeFleet(path) /\ NeedsWholeCluster(path) /\ scopes # <<>> -> Refusal(scopes[1])
    [] OTHER -> 0

Permitted(path, serving, role, scopes) ==
  CASE serving /\ OnlyWhenLocal(path) -> 403
    [] serving /\ ~ OnlyWhenLocal(path) /\ ~ Allows(role, NeededRole(path)) -> 403
    [] serving /\ ~ OnlyWhenLocal(path) /\ Allows(role, NeededRole(path)) /\ WholeRefusal(path, scopes) # 0
         -> WholeRefusal(path, scopes)
    [] OTHER -> IF scopes = <<>> /\ ~ Offline(path) THEN 503 ELSE 200

-----------------------------------------------------------------------------
(* What Kubernetes is asked.  A decision is "yes", "no", or "unsaid" when    *)
(* the question could not be put: the API server failed, or too many         *)
(* questions were under way.                                                 *)

Decide(answers) ==
  CASE "no" \in answers -> "no"
    [] "no" \notin answers /\ ("unsaid" \in answers \/ answers = {}) -> "unsaid"
    [] OTHER -> "yes"

\* clusterWide and within: what is asked for everywhere, or for a namespace.
ListChecks == {"pods", "deployments"}
Everywhere == "everywhere"

\* What an account may do in a cluster, and the questions that get an answer.
Standing ==
  LET questions == (Namespaces \cup {Everywhere}) \X ListChecks
  IN [may : SUBSET questions, heard : SUBSET questions]

ASSUME FleetAssumption == Fleets \subseteq Seq(Standing)

ReviewAnswers(standing, place) ==
  {IF <<place, c>> \notin standing.heard THEN "unsaid" ELSE IF <<place, c>> \in standing.may THEN "yes" ELSE "no" :
     c \in ListChecks}

\* Where the account may list; every namespace has its answers.
Where(names, answers) ==
  [everywhere |-> FALSE,
   namespaces |-> {n \in names : Decide(answers[n]) = "yes"},
   undecided |-> {n \in names : Decide(answers[n]) = "unsaid"}]

Scope(acting, wide, names, answers) ==
  IF ~ acting \/ Decide(wide) = "yes"
  THEN [everywhere |-> TRUE, namespaces |-> {}, undecided |-> {}]
  ELSE Where(names, answers)

\* A service asked for itself narrows only on a plain no.
OwnScope(wide, names, answers) ==
  IF Decide(wide) # "no" THEN [everywhere |-> TRUE, namespaces |-> {}, undecided |-> {}]
  ELSE Where(names, answers)

\* Require, for who acts for somebody: the first answer that is not a yes.
Require(acting, answers) ==
  LET stops == {i \in DOMAIN answers : answers[i] # "yes"}
  IN CASE ~ acting \/ stops = {} -> "ok"
       [] OTHER -> IF answers[CHOOSE i \in stops : \A j \in stops : i =< j] = "no" THEN "denied" ELSE "unanswered"

\* Answers are remembered for a while: `seen` gives the time each question
\* was asked, 0 for never.  The oldest goes when there is no room.
ASSUME RememberAssumption ==
  /\ IsFiniteSet(Remembered)
  /\ RememberTtl \in Nat
  /\ RememberRoom \in Nat \ {0}
  /\ Clocks \subseteq Nat \ {0}

Recall(seen, q, clock) == seen[q] # 0 /\ clock - seen[q] =< RememberTtl

Eldest(seen) == {q \in DOMAIN seen : seen[q] # 0 /\ \A p \in DOMAIN seen : seen[p] # 0 => seen[q] =< seen[p]}

\* Every outcome: which of several as old ones goes is the map's order.
Remember(seen, q, clock) ==
  LET kept == [p \in DOMAIN seen |-> IF seen[p] # 0 /\ clock - seen[p] > RememberTtl THEN 0 ELSE seen[p]]
      full == Cardinality({p \in DOMAIN kept : kept[p] # 0}) >= RememberRoom
  IN IF kept[q] # 0 \/ ~ full THEN {[kept EXCEPT ![q] = clock]}
     ELSE {[kept EXCEPT ![old] = 0, ![q] = clock] : old \in Eldest(kept)}

-----------------------------------------------------------------------------
(* Questions.                                                                *)

RoutePaths == {"protection", "exec", "historyExport", "action", "baseline", "object", "shell", "portforward",
               "clusters", "overview", "overviewFleet", "feed", "index"}

\* A token that is not presented, the right one, and one of another time.
Tokens == {"", "good", "stale"}

AskRequest ==
  Ready /\ \E from \in Sites, method \in {"GET", "POST"}, dest \in {"document", "empty"}, modern, upgrade, loopback,
              publicURL \in BOOLEAN, path \in {"asset", "feed", "exec", "object", "login", "logout", "index"},
              header, query, cookie \in Tokens :
    /\ upgrade => method = "GET" /\ dest = "empty"
    /\ Put([about |-> "admission.request", publicURL |-> publicURL,
            r |-> [from |-> from, method |-> method, dest |-> dest, modern |-> modern, upgrade |-> upgrade,
                   loopback |-> loopback, path |-> path, header |-> header, query |-> query, cookie |-> cookie,
                   role |-> IF cookie = "good" THEN "viewer" ELSE "nobody"]])

AskGroups ==
  Ready /\ \E admin, editor, viewer, held \in SUBSET Groups, fallback \in {"viewer", "editor", "admin"} :
    Put([about |-> "admission.role", groups |-> [admin |-> admin, editor |-> editor, viewer |-> viewer],
         held |-> held, fallback |-> fallback])

AskRoute ==
  Ready /\ \E path \in RoutePaths, serving \in BOOLEAN, role \in {"viewer", "editor", "admin"}, fleet \in Fleets :
    Put([about |-> "admission.route", path |-> path, serving |-> serving, role |-> role, fleet |-> fleet])

Buttons == UNION {CapabilityNames(CapabilitiesFor(kind)) : kind \in ActionKinds}

AskRows ==
  Ready /\ \E name \in Buttons, kinds \in Selections :
    \E said \in [Asked(WantedOf(name, kinds)) -> {"yes", "no", "unsaid"}] :
      Put([about |-> "admission.rows", name |-> name, kinds |-> kinds, said |-> said])

AskMemory ==
  Ready /\ \E clock \in Clocks, q \in Remembered : \E seen \in [Remembered -> 0 .. clock] :
    /\ Cardinality({p \in Remembered : seen[p] # 0}) =< RememberRoom
    /\ Put([about |-> "admission.memory", seen |-> seen, q |-> q, clock |-> clock])

AskAdmission == AskRequest \/ AskGroups \/ AskRoute \/ AskRows \/ AskMemory

-----------------------------------------------------------------------------
(* Properties.                                                               *)

\* The page of another site changes nothing and opens no socket, whichever
\* headers its visitor's browser knows, and whatever cookies go along: it can
\* at most lead to one of spinoza's own pages (isLocal, ownAddress).
ForeignPagesChangeNothing ==
  Asks("admission.request") =>
    LET r == ask.r
    IN r.from \in {"foreign", "opaque"} /\ (r.method = "POST" \/ Upgrading(r)) =>
         AdmitLocal(r) # 200 /\ AdmitServed(r, ask.publicURL) # 200

\* Somebody in several groups holds the strongest role any of them gives, and
\* the default only when none of them is named (forGroups).
StrongestGroupWins ==
  Asks("admission.role") =>
    LET given == {role \in {"viewer", "editor", "admin"} : ask.held \cap ask.groups[role] # {}}
        role == ForGroups(ask.groups, ask.fallback, ask.held)
    IN IF given = {} THEN role = ask.fallback
       ELSE role \in given /\ \A other \in given : Strength(other) =< Strength(role)

MayList(standing) == \A c \in ListChecks : <<Everywhere, c>> \in standing.may

WholeForWhole(fleet, path, role) ==
  LET In(i, place) == ReviewAnswers(fleet[i], place)
      Spaces(i) == [n \in Namespaces |-> In(i, n)]
      scopes == [i \in DOMAIN fleet |-> Scope(TRUE, In(i, Everywhere), Namespaces, Spaces(i))]
  IN /\ \A i \in DOMAIN fleet :
          \/ OwnScope(In(i, Everywhere), Namespaces, Spaces(i)).everywhere
          \/ \E c \in ListChecks : <<Everywhere, c>> \in fleet[i].heard \ fleet[i].may
     /\ Permitted(path, TRUE, role, scopes) = 200 =>
          /\ NeedsWholeCluster(path) => MayList(fleet[1])
          /\ NeedsWholeFleet(path) => \A i \in DOMAIN fleet : MayList(fleet[i])

\* A page that shows a whole cluster is served only to who may list all of it,
\* and one that shows the fleet only to who may in every open cluster, also
\* when some of the questions go unanswered (decide, wholeFleetRefusal).  What
\* the program lists for itself is narrowed only by a plain no (OwnScope).
WholePagesForWholeReaders ==
  Asks("admission.route") /\ ask.serving /\ ask.fleet # <<>> => WholeForWhole(ask.fleet, ask.path, ask.role)

\* In a selection of rows of several kinds a row is refused exactly when the
\* answers to its own questions would stop the action on it, rows without the
\* button included and however many questions the rows before it took
\* (ReviewEach, require).
RowsGetTheirOwnAnswers ==
  Asks("admission.rows") =>
    \A i \in DOMAIN ask.kinds :
      LET own == [j \in DOMAIN ChecksOf(ask.name, ask.kinds[i]) |-> ask.said[<<i, j>>]]
      IN i \in ReviewEach(ask.name, ask.kinds, ask.said) <=> Require(TRUE, own) # "ok"

\* What was just learnt is recalled, room is bounded, and nothing that is
\* still good is dropped for it unless it is the oldest (remember).
RememberedIsRecalled ==
  Asks("admission.memory") =>
    LET outcomes == Remember(ask.seen, ask.q, ask.clock)
    IN /\ outcomes # {}
       /\ \A after \in outcomes :
            /\ Recall(after, ask.q, ask.clock)
            /\ Cardinality({p \in DOMAIN after : after[p] # 0}) =< RememberRoom
            /\ \A p, o \in DOMAIN after \ {ask.q} :
                 Recall(ask.seen, p, ask.clock) /\ after[p] = 0 =>
                   ask.seen[o] = 0 \/ after[o] = 0 \/ ask.seen[o] >= ask.seen[p]

-----------------------------------------------------------------------------
(* Permissions.  A binding is cluster-wide (place 0) or of a namespace, and  *)
(* names a role of its namespace or a cluster role.                          *)

Star == "*"
CoreGroup == ""
NoSub == ""

RbacKinds == {"roles", "clusterroles", "rolebindings", "clusterrolebindings"}

Subject == [name : STRING, account : BOOLEAN, place : Places \cup {0}]
Rule == [verbs : SUBSET STRING, groups : SUBSET STRING, resources : SUBSET (STRING \X STRING), named : BOOLEAN]
Role == [name : STRING, place : Places \cup {0}, rules : SUBSET Rule]
Binding == [role : STRING, clusterRole : BOOLEAN, place : Places \cup {0}, subject : Subject]

\* Only accounts are of a namespace, and a binding of the cluster names a
\* cluster role.  No rule names all subresources of one resource: Kubernetes
\* takes pods/* for a name like any other, and coversResource does not; no
\* question is about a subresource of all of them, for the same reason.
ASSUME RbacAssumption ==
  /\ Places # {} /\ 0 \notin Places
  /\ RbacQuestions \subseteq [verb : STRING, group : STRING, resource : STRING \X STRING, place : Places]
  /\ \A wanted \in RbacQuestions : wanted.resource[2] # NoSub => wanted.resource[1] # Star
  /\ RbacClusters \subseteq [readable : SUBSET RbacKinds, roles : SUBSET Role, bindings : SUBSET Binding]
  /\ \A cluster \in RbacClusters :
       /\ \A b \in cluster.bindings : (b.place = 0 => b.clusterRole) /\ (b.subject.place # 0 => b.subject.account)
       /\ \A role \in cluster.roles : \A rule \in role.rules : \A r \in rule.resources : r[2] = Star => r[1] = Star

\* coversResource, of a resource <<base, sub>>.
CoversResource(held, wanted) ==
  \/ <<Star, NoSub>> \in held
  \/ wanted \in held
  \/ wanted[2] # NoSub /\ {<<wanted[1], Star>>, <<Star, wanted[2]>>} \cap held # {}

\* Rule.Allows: a rule that is for named objects only allows no kind.
RuleAllows(rule, wanted) ==
  /\ ~ rule.named
  /\ {Star, wanted.verb} \cap rule.verbs # {}
  /\ {Star, wanted.group} \cap rule.groups # {}
  /\ CoversResource(rule.resources, wanted.resource)

\* Grant.Reaches: place 0 is everywhere for a grant, and anywhere for a question.
GrantReaches(grant, wanted) ==
  /\ grant.place = 0 \/ wanted.place = 0 \/ grant.place = wanted.place
  /\ \E rule \in grant.rules : RuleAllows(rule, wanted)

\* lookup, in what was read.
LookupRole(held, binding) ==
  {role \in held : role.name = binding.role /\ role.place = IF binding.clusterRole THEN 0 ELSE binding.place}

\* subjectsOf: a service account without a namespace is of the binding's.
SubjectOf(binding) ==
  [binding.subject EXCEPT !.place = IF @ = 0 /\ binding.subject.account THEN binding.place ELSE @]

\* fold.
GrantOf(held, binding) ==
  LET found == LookupRole(held, binding)
  IN [place |-> binding.place, missing |-> found = {}, rules |-> UNION {role.rules : role \in found}]

\* Read and place: what was refused, broke or was not discovered is left out.
HeldRoles(cluster) ==
  {role \in cluster.roles : (IF role.place = 0 THEN "clusterroles" ELSE "roles") \in cluster.readable}

HeldBindings(cluster) ==
  {b \in cluster.bindings : (IF b.place = 0 THEN "clusterrolebindings" ELSE "rolebindings") \in cluster.readable}

\* Build and Read: the holders with their grants, the bindings that name no
\* role, and what was not read.
RbacIndex(cluster) ==
  LET roles == HeldRoles(cluster)
      bindings == HeldBindings(cluster)
      Of(subject) == {b \in bindings : SubjectOf(b) = subject}
  IN [holders |-> [s \in {SubjectOf(b) : b \in bindings} |-> {GrantOf(roles, b) : b \in Of(s)}],
      absent |-> {b \in bindings : GrantOf(roles, b).missing},
      error |-> RbacKinds \ cluster.readable]

\* Index.Who.
Who(index, wanted) == {s \in DOMAIN index.holders : \E g \in index.holders[s] : GrantReaches(g, wanted)}

\* powersOf, for three of its labels: a cluster-admin has no other.
PowersOf(index, s) ==
  LET Reaches(verb, group, resource) ==
        \E g \in index.holders[s] : GrantReaches(g, [verb |-> verb, group |-> group, resource |-> resource, place |-> 0])
  IN IF Reaches(Star, Star, <<Star, NoSub>>) THEN {"cluster-admin"}
     ELSE (IF Reaches("get", CoreGroup, <<"secrets", NoSub>>) THEN {"reads secrets"} ELSE {})
          \cup (IF Reaches("create", CoreGroup, <<"pods", "exec">>) THEN {"execs into pods"} ELSE {})

AskRbac ==
  Ready /\ \E cluster \in RbacClusters :
    Put([about |-> "rbac", readable |-> cluster.readable, bindings |-> cluster.bindings, roles |-> cluster.roles])

\* The API server's authorizer, external: what a role gives to whom.
Authorizes(roles, b, subject, wanted) ==
  /\ b.place \in {0, wanted.place}
  /\ b.subject.name = subject.name /\ b.subject.account = subject.account
  /\ subject.account => subject.place = IF b.subject.place = 0 THEN b.place ELSE b.subject.place
  /\ \E role \in roles : \E rule \in role.rules :
       /\ role.name = b.role
       /\ role.place = IF b.clusterRole THEN 0 ELSE b.place
       /\ ~ rule.named
       /\ Star \in rule.verbs \/ wanted.verb \in rule.verbs
       /\ Star \in rule.groups \/ wanted.group \in rule.groups
       /\ \E r \in rule.resources : r \in {<<Star, NoSub>>, wanted.resource, <<Star, wanted.resource[2]>>}

\* Who may do something in a namespace is who the API server's authorizer lets
\* do it, as far as roles and bindings could be read; what was not read is said,
\* and who is said to read secrets may do so somewhere (rbac/ask.go,
\* rbac/build.go).
WhoIsWhoMay ==
  Asks("rbac") =>
    LET index == RbacIndex(ask)
        May(subject, wanted) == \E b \in ask.bindings : Authorizes(ask.roles, b, subject, wanted)
    IN /\ \A wanted \in RbacQuestions : \A s \in DOMAIN index.holders :
            /\ s \in Who(index, wanted) => May(s, wanted)
            /\ ask.readable = RbacKinds /\ May(s, wanted) => s \in Who(index, wanted)
       /\ ask.readable # RbacKinds => index.error # {}
       /\ \A s \in DOMAIN index.holders :
            "reads secrets" \in PowersOf(index, s) =>
              \E p \in Places : May(s, [verb |-> "get", group |-> CoreGroup, resource |-> <<"secrets", NoSub>>, place |-> p])

\* A binding is called dangling when nothing has the name it wants, or the index
\* says that the roles could not be read (rbac/build.go:66).
DanglingIsReal ==
  Asks("rbac") =>
    LET index == RbacIndex(ask)
        Exists(b) == \E role \in ask.roles : role.name = b.role /\ role.place = IF b.clusterRole THEN 0 ELSE b.place
    IN \A b \in ask.bindings :
         /\ b \in index.absent => ~ Exists(b) \/ {"roles", "clusterroles"} \cap index.error # {}
         /\ index.error = {} /\ ~ Exists(b) => b \in index.absent

-----------------------------------------------------------------------------
\* Nobody reaches what is not theirs: pages of other sites change nothing,
\* the strongest group decides, readers of a part never get the whole, every
\* row of a selection and every button gets its own answer however many
\* questions the ones before it took, a refused action is not performed, and who
\* is said to have a permission has it (server/guard.go, policy.go, internal/auth,
\* internal/access, internal/actions, internal/rbac).
AccessSound ==
  /\ ForeignPagesChangeNothing
  /\ StrongestGroupWins
  /\ WholePagesForWholeReaders
  /\ RowsGetTheirOwnAnswers
  /\ RememberedIsRecalled
  /\ RefusalsAreTheirOwn
  /\ RefusedIsNotPerformed
  /\ UndoSetsWhatWasSet
  /\ WhoIsWhoMay
  /\ DanglingIsReal

AskAccess == AskAdmission \/ AskActions \/ AskUndo \/ AskRbac

AccessSpec == QuestionInit /\ [][AskAccess \/ Answered]_questionVars
=============================================================================
