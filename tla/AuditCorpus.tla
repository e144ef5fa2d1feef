----------------------------- MODULE AuditCorpus ----------------------------
(* What the audit knows of the cluster, and the rules that judge an object  *)
(* by the others: references to what is missing, objects nothing names,     *)
(* pods that no node can take, rights a role hands out, budgets, routes and *)
(* autoscalers that say nothing (internal/checks: subject.go, corpus.go,    *)
(* refs.go, consumers.go, facts.go, rbac.go, objects.go).                   *)
(*                                                                          *)
(* An object is of a kind, in a namespace (blank for the cluster's own),    *)
(* has a name and `says` a set of strings.  A listing may be refused, and a *)
(* kind may not have been discovered: the audit then knows less than there  *)
(* is.  With AuditWorkload these are the rules of the audit.                *)
EXTENDS AuditWorkload, FiniteSetsExt

CONSTANTS
  References,    \* checks on what an object names, with the cluster as it can be read
  Leftovers,     \* checks on objects nothing may name, with the cluster as it can be read
  Holdings,      \* the workloads of a cluster and who owns whom
  Placements,    \* workloads, and the nodes they are for
  Quotas, Budgets, RoleRules, RoleBindings,
  Selectings,    \* the labels of pods, and the selectors around them
  Ranges,        \* requests, and the limit range of their namespace
  Scalings       \* workloads, and the autoscalers around them

Workloads == {"pods", "deployments", "statefulsets", "daemonsets", "replicasets",
              "replicationcontrollers", "jobs", "cronjobs"}
Facts == {"nodes", "namespaces", "resourcequotas", "limitranges"}
Context == {"services", "serviceaccounts", "configmaps", "persistentvolumeclaims", "ingresses",
            "ingressclasses", "networkpolicies", "poddisruptionbudgets",
            "horizontalpodautoscalers", "storageclasses", "priorityclasses", "runtimeclasses",
            "roles", "rolebindings", "clusterroles", "clusterrolebindings"}
\* Listed without their contents.
NameOnly == {"secrets"}
\* Read for the strings in them, and not kept: a few kinds and every custom one.
Custom == {"widgets"}
Borrowed == {"persistentvolumes", "webhookconfigurations"} \cup Custom

TargetsFor(whole) == Workloads \cup Facts \cup (IF whole THEN Context \cup NameOnly ELSE {})

-----------------------------------------------------------------------------
(* Reading the cluster.  r.answers[k] is "read", "refused" or "hidden".     *)

Discovered(r) == {k \in DOMAIN r.answers : r.answers[k] # "hidden"}

\* Every kind that is served, or the ones the audit is about, with those read
\* only for their strings when a check that needs every mention is run.
Wanted(r) ==
  Discovered(r) \cap
    IF r.everyKind THEN DOMAIN r.answers
    ELSE TargetsFor(r.whole) \cup (IF r.whole /\ r.corpus THEN Borrowed ELSE {})

ReadsCustom(r) == r.everyKind \/ (r.whole /\ r.corpus)

Unread(r) == {k \in Wanted(r) : r.answers[k] = "refused"}

ReadOf(r, kinds) == {o \in r.cluster : o.kind \in kinds /\ o.kind \in Wanted(r) \ Unread(r)}

Gather(r) == [items |-> ReadOf(r, TargetsFor(TRUE) \ NameOnly),
              names |-> ReadOf(r, NameOnly),
              scanned |-> ReadOf(r, Borrowed)]

\* The kinds the audit is about and that discovery did not list; an audit of
\* every kind does not look.
Undiscovered(r) == IF r.everyKind THEN {} ELSE TargetsFor(r.whole) \ Discovered(r)

\* What no rule may take for empty.
Absent(r) == (TargetsFor(TRUE) \ TargetsFor(r.whole)) \cup Undiscovered(r) \cup Unread(r)

Has(r, kind) == kind \notin Absent(r)

Named(r, kind, space, name) ==
  \E o \in Gather(r).items \cup Gather(r).names :
    o.kind = kind /\ o.space = space /\ o.name = name

\* Some object of another name says it, whatever its kind and namespace.
MentionedElsewhere(r, name) ==
  \E o \in Gather(r).items \cup Gather(r).scanned : name \in o.says /\ o.name # name

-----------------------------------------------------------------------------
(* The checks on references: what each needs read, and what it looks for.   *)

WorkloadRefNeeds(c) ==
  CASE c = "service-account-missing" -> {"serviceaccounts"}
    [] c \in {"config-map-missing", "config-map-key-missing"} -> {"configmaps"}
    [] c \in {"secret-missing", "pull-secret-missing"} -> {"secrets"}
    [] c = "claim-missing" -> {"persistentvolumeclaims"}
    [] c = "priority-class-missing" -> {"priorityclasses"}
    [] c = "runtime-class-missing" -> {"runtimeclasses"}
    [] c = "no-service-selects-it" -> {"services"}
    [] c = "no-network-policy" -> {"networkpolicies"}
    [] c \in {"no-disruption-budget", "budget-blocks-every-eviction"} -> {"poddisruptionbudgets"}
    [] c = "scaler-fights-fixed-replicas" -> {"horizontalpodautoscalers"}

NetworkNeeds(c) ==
  CASE c = "ingress-backend-missing" -> {"ingresses", "services"}
    [] c = "ingress-class-missing" -> {"ingresses", "ingressclasses"}
    [] c = "storage-class-missing" -> {"persistentvolumeclaims", "storageclasses"}

NetworkChecks == {"ingress-backend-missing", "ingress-class-missing", "storage-class-missing"}

OrphanNeeds(c) ==
  CASE c = "orphaned-config-map" -> {"configmaps"}
    [] c = "orphaned-secret" -> {"secrets"}

OrphanChecks == {"orphaned-config-map", "orphaned-secret"}

CheckNeeds(c) ==
  CASE c \in NetworkChecks -> NetworkNeeds(c)
    [] c \in OrphanChecks -> OrphanNeeds(c)
    [] OTHER -> WorkloadRefNeeds(c)

Refused(r) == Unread(r)

NeedsEvery(c) == c \in OrphanChecks

\* A check says why it was not run instead of judging from part of the cluster.
StandsDown(c, r) ==
  \/ NeedsEvery(c) /\ (~ ReadsCustom(r) \/ Refused(r) # {})
  \/ \E k \in CheckNeeds(c) : ~ Has(r, k)

\* The kind a reference is to, for the checks on names that must exist.
Sought(c) ==
  CASE c = "ingress-backend-missing" -> "services"
    [] c = "ingress-class-missing" -> "ingressclasses"
    [] c = "storage-class-missing" -> "storageclasses"
    [] c = "service-account-missing" -> "serviceaccounts"
    [] c = "config-map-missing" -> "configmaps"
    [] c \in {"secret-missing", "pull-secret-missing"} -> "secrets"
    [] c = "claim-missing" -> "persistentvolumeclaims"
    [] c = "priority-class-missing" -> "priorityclasses"
    [] c = "runtime-class-missing" -> "runtimeclasses"

ReferenceChecks ==
  NetworkChecks \cup {"service-account-missing", "config-map-missing", "secret-missing", "pull-secret-missing",
                      "claim-missing", "priority-class-missing", "runtime-class-missing"}

OfCluster == {"priorityclasses", "runtimeclasses", "ingressclasses", "storageclasses"}

\* References that are never reported: none, optional ones, the default
\* account, and the priority classes the system keeps.
Excused(c, ref) ==
  \/ ref.name = Blank
  \/ ref.optional /\ c \in {"config-map-missing", "secret-missing"}
  \/ ref.name = "default" /\ c = "service-account-missing"
  \/ ref.name = "system-x" /\ c = "priority-class-missing"

\* What makes the reference: a route, a claim or a workload.
Holder(c) ==
  CASE c \in {"ingress-backend-missing", "ingress-class-missing"} -> "ingresses"
    [] c = "storage-class-missing" -> "persistentvolumeclaims"
    [] OTHER -> "deployments"

MissingReference(c, ref, r) ==
  LET space == IF Sought(c) \in OfCluster THEN Blank ELSE ref.space
  IN /\ ~ StandsDown(c, r)
     /\ \E o \in Gather(r).items : o.kind = Holder(c) /\ o.space = ref.space /\ ref.name \in o.says
     /\ ~ Excused(c, ref)
     /\ ~ Named(r, Sought(c), space, ref.name)

\* An orphan that something is known to keep is shown as muted: it has an
\* owner, a known reader, or a manager that would put it back.
ConsumedBy(o) == o.kept \in {"owned", "known", "managed"}

\* The configmaps or secrets that nothing else names.
OrphansOf(c, r) ==
  IF StandsDown(c, r) THEN {}
  ELSE {[object |-> o, convention |-> ConsumedBy(o)] :
          o \in {p \in Gather(r).items \cup Gather(r).names :
                   p.kind \in CheckNeeds(c) /\ ~ MentionedElsewhere(r, p.name)}}

-----------------------------------------------------------------------------
(* Selectors.                                                               *)

\* An empty selector picks nothing.
SelectorPicks(selector, labels) ==
  /\ selector # <<>>
  /\ \A k \in DOMAIN selector : k \in DOMAIN labels /\ labels[k] = selector[k]

\* An empty pod selector of a network policy covers its whole namespace.
PolicyCovers(selector, labels) == selector = <<>> \/ SelectorPicks(selector, labels)

NoServiceSelectsIt(labels, services) == labels # <<>> /\ \A s \in services : ~ SelectorPicks(s, labels)

NoNetworkPolicy(labels, here, elsewhere) ==
  /\ here \cup elsewhere # {}
  /\ labels # <<>>
  /\ \A p \in here : ~ PolicyCovers(p, labels)

Percent == 100
Unset == -1

\* A budget's floor counts when it is a number; a percentage reads as unset.
NumberAt(v) == IF v >= Percent THEN Unset ELSE v

BudgetBlocksEviction(replicas, floor) == NumberAt(floor) # Unset /\ NumberAt(floor) >= replicas

BudgetSaysNothing(b) == NumberAt(b.minAvailable) = Unset /\ NumberAt(b.maxUnavailable) = Unset

BudgetForbidsEviction(b) == NumberAt(b.maxUnavailable) = 0

ScalerFightsReplicas(w, scalers) ==
  w.replicas # Unset /\ \E s \in scalers : s.kind = w.kind /\ s.name = w.name

ScalerFloorOfOne(s) == s.min = 1 /\ s.max # 1

-----------------------------------------------------------------------------
(* Owners.  An owner is looked up in the namespace of what it owns.         *)

OwnersHeld(o, items) ==
  {p \in items : p.space = o.space /\ \E i \in DOMAIN o.owners : o.owners[i] = <<p.kind, p.name>>}

\* The first owner that is held, in the order the object names them.
OwnerOf(o, items) ==
  LET held == {i \in DOMAIN o.owners : \E p \in OwnersHeld(o, items) : o.owners[i] = <<p.kind, p.name>>}
  IN IF held = {} THEN o
     ELSE CHOOSE p \in OwnersHeld(o, items) : o.owners[Min(held)] = <<p.kind, p.name>>

\* Owners are followed this many times.
OwnerDepth == 4

TopOwner(o, items) == OwnerOf(OwnerOf(OwnerOf(OwnerOf(o, items), items), items), items)

\* Anything owned by an object of a kind the audit holds is that object's to
\* answer for, whether or not the object itself is held.
Owned(o, items) == \E i \in DOMAIN o.owners : \E p \in items : p.kind = o.owners[i][1]

SubjectsOf(items) == {o \in items : o.kind \in Workloads /\ ~ Owned(o, items)}

PlacedUnder(items, subject) == {o \in items : o.kind = "pods" /\ TopOwner(o, items) = subject}

-----------------------------------------------------------------------------
(* Nodes.  n.tier is a label, n.taints the taints that keep pods away.      *)

AnyTier == "any"

NodesMatching(w, nodes) == {n \in nodes : w.tier \in {AnyTier, n.tier}}

Repelled(w, n) == ~ (n.taints \subseteq w.tolerates)

NodeSelectorMatchesNothing(w, nodes) == w.tier # AnyTier /\ nodes # {} /\ NodesMatching(w, nodes) = {}

TolerationsMissTaints(w, nodes) ==
  NodesMatching(w, nodes) # {} /\ \A n \in NodesMatching(w, nodes) : Repelled(w, n)

RequestExceedsLargestNode(w, nodes) ==
  nodes # {} /\ w.request > Max({n.size : n \in nodes})

AntiAffinityExceedsNodes(w, nodes) ==
  LET fit == Cardinality(NodesMatching(w, nodes))
  IN w.apart /\ w.replicas >= 2 /\ fit > 0 /\ w.replicas > fit

DomainsOf(nodes) == {n.tier : n \in nodes}

\* A required spread is reported when there are more replicas than domains
\* times the skew it allows.
SpreadNeedsMoreDomains(w, nodes) ==
  LET domains == Cardinality(DomainsOf(nodes))
  IN w.skew > 0 /\ w.replicas >= 2 /\ domains > 0 /\ w.replicas > domains * w.skew

Nearly == 90

Spent(entry) == (entry.used * 100) \div entry.hard

\* The fullest entry of a quota; one with a ceiling of zero is left out.
FullestEntry(quota) == Max({0} \cup {Spent(quota[i]) : i \in {j \in DOMAIN quota : quota[j].hard # 0}})

QuotaNearlyExhausted(quota) == FullestEntry(quota) >= Nearly

\* A bound of a limit range that one of the requests breaks.
BreaksRange(request, range) ==
  \E name \in {"cpu", "memory"} :
    /\ request[name] # Unset
    /\ \/ range.min[name] # Unset /\ request[name] < range.min[name]
       \/ range.max[name] # Unset /\ request[name] > range.max[name]

-----------------------------------------------------------------------------
(* Rights.  A rule of a role is a set of verbs and a set of resources.      *)

Anything == "*"
WriteVerbs == {"create", "update", "patch", "delete", "deletecollection", Anything}
ReadVerbs == {"get", "list", "watch", Anything}

Covers(held, wanted) == wanted \in held \/ Anything \in held

NamesResource(rule, wanted, verbs) == rule.verbs \cap verbs # {} /\ rule.resources \cap wanted # {}

WildcardResources(rule) == Anything \in rule.resources

\* The checks on roles that a rule sets off.
RbacFindings(rule) ==
  {c \in {"wildcard-verbs"} : Anything \in rule.verbs} \cup
  {c \in {"wildcard-resources"} : WildcardResources(rule)} \cup
  {c \in {"escalate-or-bind", "impersonate"} :
     rule.verbs \cap (IF c = "impersonate" THEN {"impersonate"} ELSE {"escalate", "bind"}) # {}} \cup
  {c \in {"read-secrets"} : ~ rule.named /\ Covers(rule.resources, "secrets") /\ rule.verbs \cap ReadVerbs # {}} \cup
  {c \in {"create-pods"} : Covers(rule.resources, "pods") /\ rule.verbs \cap {"create", Anything} # {}} \cup
  {c \in {"pod-exec"} : NamesResource(rule, {"pods/exec", "pods/attach"}, WriteVerbs)} \cup
  {c \in {"pod-logs"} : NamesResource(rule, {"pods/log"}, ReadVerbs)} \cup
  {c \in {"write-bindings"} : NamesResource(rule, {"rolebindings", "roles"}, WriteVerbs)} \cup
  {c \in {"node-proxy"} : NamesResource(rule, {"nodes/proxy"}, ReadVerbs)}

\* What a binding hands to everyone: the role it names and who it is for.
OpenSubjects == {"system:anonymous", "system:unauthenticated", "system:authenticated", "system:masters"}

BindingFindings(b) ==
  {c \in {"cluster-admin-bound"} : b.ofCluster /\ b.role = "cluster-admin" /\ b.subjects # {}} \cup
  {c \in {"bound-to-everyone"} : b.subjects \cap OpenSubjects # {}}

-----------------------------------------------------------------------------
(* Questions.                                                               *)

Outcome == {"read", "refused", "hidden"}

\* The cluster as an audit reads it: r.cluster is what is there, r.answers how
\* the listing of each kind ends.
IsReading(r) ==
  r.answers \in [TargetsFor(TRUE) \cup Borrowed -> Outcome] /\ {r.whole, r.everyKind, r.corpus} \subseteq BOOLEAN

ASSUME ReferenceAssumption == \A q \in References : q.check \in ReferenceChecks /\ IsReading(q.read)

\* What is listed by name only is not searched: its contents name nobody.
ASSUME LeftoverAssumption ==
  \A q \in Leftovers :
    /\ q.check \in OrphanChecks /\ IsReading(q.read)
    /\ \A o \in q.read.cluster : o.kind \in NameOnly => o.says \subseteq {o.name}

\* Workloads own each other without a circle, and no chain of owners is longer
\* than the audit follows: the controllers of Kubernetes make chains of two.
ASSUME HoldingAssumption ==
  \A items \in Holdings :
    /\ \A o \in items : o.kind \in Workloads /\ o.owners \in Seq(STRING \X STRING)
    /\ \E rank \in [items -> 0 .. OwnerDepth] : \A o \in items : \A p \in OwnersHeld(o, items) : rank[p] < rank[o]

ASSUME PlacementAssumption ==
  \A q \in Placements :
    /\ IsFiniteSet(q.nodes) /\ \A n \in q.nodes : n.size \in Nat
    /\ {q.workload.request, q.workload.replicas, q.workload.skew} \subseteq Nat

Amount == Nat \cup {Unset}

ASSUME QuotaAssumption == Quotas \subseteq Seq([used : Nat, hard : Nat])

\* A budget sets its floor or its ceiling and not both.
ASSUME BudgetAssumption ==
  \A q \in Budgets :
    /\ q.replicas \in Nat /\ q.budget \in [minAvailable : Amount, maxUnavailable : Amount]
    /\ Unset \in {q.budget.minAvailable, q.budget.maxUnavailable}

ASSUME RangeAssumption ==
  \A q \in Ranges : \A name \in {"cpu", "memory"} :
    {q.request[name], q.range.min[name], q.range.max[name]} \subseteq Amount

ASSUME ScalingAssumption == \A q \in Scalings : \A s \in q.scalers : s.min \in Amount /\ s.max \in Nat \ {0}

AskReference ==
  Ready /\ \E q \in References : Put([about |-> "corpus.reference", check |-> q.check, ref |-> q.ref, read |-> q.read])

AskOrphan == Ready /\ \E q \in Leftovers : Put([about |-> "corpus.orphan", check |-> q.check, read |-> q.read])

AskOwners == Ready /\ \E items \in Holdings : Put([about |-> "corpus.owners", items |-> items])

AskPlacement ==
  Ready /\ \E q \in Placements : Put([about |-> "corpus.placement", nodes |-> q.nodes, workload |-> q.workload])

AskQuota == Ready /\ \E quota \in Quotas : Put([about |-> "corpus.quota", quota |-> quota])

AskBudget ==
  Ready /\ \E q \in Budgets : Put([about |-> "corpus.budget", replicas |-> q.replicas, budget |-> q.budget])

AskRole == Ready /\ \E rule \in RoleRules : Put([about |-> "corpus.role", rule |-> rule])

AskBinding == Ready /\ \E binding \in RoleBindings : Put([about |-> "corpus.binding", binding |-> binding])

AskSelected ==
  Ready /\ \E q \in Selectings :
    Put([about |-> "corpus.selected", labels |-> q.labels, services |-> q.services, here |-> q.here,
         elsewhere |-> q.elsewhere])

AskRange == Ready /\ \E q \in Ranges : Put([about |-> "corpus.range", request |-> q.request, range |-> q.range])

AskScaler ==
  Ready /\ \E q \in Scalings : Put([about |-> "corpus.scaler", scalers |-> q.scalers, workload |-> q.workload])

AskCorpus ==
  \/ AskReference
  \/ AskOrphan
  \/ AskOwners
  \/ AskPlacement
  \/ AskQuota
  \/ AskBudget
  \/ AskRole
  \/ AskBinding
  \/ AskSelected
  \/ AskRange
  \/ AskScaler

-----------------------------------------------------------------------------
(* Properties.                                                              *)

ReallyThere(c, ref, r) ==
  \E o \in r.cluster :
    /\ o.kind = Sought(c)
    /\ o.name = ref.name
    /\ o.space = IF Sought(c) \in OfCluster THEN Blank ELSE ref.space

\* What the audit reports as missing does not exist, however much of the
\* cluster it was allowed to read, for the checks that read one by one the
\* kinds they are about (missingReference, missingResources).
MissingIsMissing ==
  Asks("corpus.reference") /\ ~ ask.read.everyKind =>
    (MissingReference(ask.check, ask.ref, ask.read) => ~ ReallyThere(ask.check, ask.ref, ask.read))

\* An object reported as a leftover is named by nothing of the kinds that are
\* served, those included that were refused or only scanned for strings
\* (orphansOf, mentionedElsewhere, refused).
OrphanIsUnnamed ==
  Asks("corpus.orphan") =>
    \A f \in OrphansOf(ask.check, ask.read) :
      \A o \in ask.read.cluster :
        o.kind \in Discovered(ask.read) /\ o.name # f.object.name => f.object.name \notin o.says

\* A pod whose owners are all held is counted under one workload that the
\* audit reports on, whatever chain of owners is between them (topOwner, owned).
PodsAreCounted ==
  Asks("corpus.owners") =>
    LET items == ask.items
        AllHeld == \A o \in items : \A i \in DOMAIN o.owners :
                     \E p \in OwnersHeld(o, items) : o.owners[i] = <<p.kind, p.name>>
    IN AllHeld => \A pod \in items : pod.kind = "pods" =>
         Cardinality({w \in SubjectsOf(items) : pod \in PlacedUnder(items, w)}) = 1

\* Where the scheduler may put the replicas of a workload.
Fitting(w, nodes) ==
  {n \in NodesMatching(w, nodes) : ~ Repelled(w, n) /\ w.request =< n.size}

\* Some domain holds more of the replicas than the skew, as they are dealt out.
Overcrowds(w, domains, dealt) ==
  \E domain \in domains : Cardinality({i \in 1 .. w.replicas : dealt[i] = domain}) > w.skew

\* A workload reported as impossible to place has no place: no node, fewer
\* nodes than replicas that must be apart, or some domain that holds more than
\* the skew however the replicas are dealt out (facts.go).
UnplaceableIsReal ==
  Asks("corpus.placement") =>
    LET w == ask.workload
        fit == Fitting(w, ask.nodes)
    IN /\ (\/ NodeSelectorMatchesNothing(w, ask.nodes)
           \/ TolerationsMissTaints(w, ask.nodes)
           \/ RequestExceedsLargestNode(w, ask.nodes)) => fit = {}
       /\ AntiAffinityExceedsNodes(w, ask.nodes) => Cardinality(fit) < w.replicas
       /\ SpreadNeedsMoreDomains(w, ask.nodes) =>
            \A dealt \in [1 .. w.replicas -> DomainsOf(ask.nodes)] : Overcrowds(w, DomainsOf(ask.nodes), dealt)

\* A quota with nine tenths of any of its ceilings spent is reported.
FullQuotaIsTold ==
  Asks("corpus.quota") =>
    LET full == {i \in DOMAIN ask.quota : ask.quota[i].hard > 0 /\ ask.quota[i].used * 10 >= ask.quota[i].hard * 9}
    IN (full # {}) = QuotaNearlyExhausted(ask.quota)

\* How many pods the eviction API would let go, of replicas that are all
\* healthy; percentages round up.
Allowed(b, replicas) ==
  LET Count(v) == IF v >= Percent THEN ((v - Percent) * replicas + 99) \div 100 ELSE v
  IN IF b.minAvailable # Unset THEN replicas - Count(b.minAvailable)
     ELSE IF b.maxUnavailable # Unset THEN Count(b.maxUnavailable) ELSE 0

\* A budget that is reported to block a drain for ever lets no pod go, and one
\* that sets a number is not reported to set nothing.
BlockedIsReal ==
  Asks("corpus.budget") =>
    /\ (BudgetBlocksEviction(ask.replicas, ask.budget.minAvailable) \/ BudgetForbidsEviction(ask.budget)
          => Allowed(ask.budget, ask.replicas) =< 0)
    /\ BudgetSaysNothing(ask.budget) =>
         \A v \in {ask.budget.minAvailable, ask.budget.maxUnavailable} : v = Unset \/ v >= Percent

Grants(rule, verb, res) == Covers(rule.verbs, verb) /\ Covers(rule.resources, res)

\* A rule that reads every secret, starts pods, opens a shell in one or reaches
\* a kubelet is told by some check, wildcards or not (rbac.go).
DangerIsTold ==
  Asks("corpus.role") =>
    \A danger \in {<<"get", "secrets">>, <<"create", "pods">>, <<"create", "pods/exec">>, <<"get", "nodes/proxy">>} :
      Grants(ask.rule, danger[1], danger[2]) /\ (ask.rule.named => danger[2] # "secrets") =>
        RbacFindings(ask.rule) # {}

Pairs(labels) == {<<k, labels[k]>> : k \in DOMAIN labels}

\* Between the objects of a namespace the audit says only what holds: pods that
\* no service selects have none whose labels they all carry, pods without a
\* policy are isolated by none, a request outside a limit range is one the
\* API would refuse, a scaler that fights a workload scales that workload, and
\* one that may go down to a single pod can also hold more (refs.go, facts.go,
\* objects.go).
UnmatchedIsReal ==
  /\ Asks("corpus.selected") =>
       LET selecting == {s \in ask.services : s # <<>> /\ Pairs(s) \subseteq Pairs(ask.labels)}
           isolating == {p \in ask.here : Pairs(p) \subseteq Pairs(ask.labels)}
       IN /\ ask.labels # <<>> => (NoServiceSelectsIt(ask.labels, ask.services) <=> selecting = {})
          /\ NoNetworkPolicy(ask.labels, ask.here, ask.elsewhere) => isolating = {}
  /\ Asks("corpus.range") =>
       LET Within(name) == ask.request[name] = Unset \/
                           /\ ask.range.min[name] =< ask.request[name]
                           /\ ask.range.max[name] = Unset \/ ask.request[name] =< ask.range.max[name]
       IN BreaksRange(ask.request, ask.range) <=> ~ (Within("cpu") /\ Within("memory"))
  /\ Asks("corpus.scaler") =>
       /\ ScalerFightsReplicas(ask.workload, ask.scalers) => {s \in ask.scalers : s.name = ask.workload.name} # {}
       /\ \A s \in ask.scalers : ScalerFloorOfOne(s) => {1, 2} \subseteq s.min .. s.max
  /\ Asks("corpus.binding") =>
       \A who \in ask.binding.subjects :
         who = "system:anonymous" \/ (ask.binding.ofCluster /\ ask.binding.role = "cluster-admin")
           => BindingFindings(ask.binding) # {}

-----------------------------------------------------------------------------
\* The rules of the audit: what is called missing, orphaned, unplaceable,
\* blocked, full, dangerous or unset is so, what could not be read accuses
\* nobody, and a suggested patch clears its finding (internal/checks, rules
\* side).
AuditRulesSound ==
  /\ MissingIsMissing
  /\ OrphanIsUnnamed
  /\ PodsAreCounted
  /\ UnplaceableIsReal
  /\ FullQuotaIsTold
  /\ BlockedIsReal
  /\ DangerIsTold
  /\ UnmatchedIsReal
  /\ PatchClears
  /\ RejectedIsTold
  /\ NodePathsAreTold
  /\ NumbersAreReal
  /\ AdviceAgrees

AuditRulesSpec == QuestionInit /\ [][AskCorpus \/ AskWorkload \/ Answered]_questionVars
=============================================================================
