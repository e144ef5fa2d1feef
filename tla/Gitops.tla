------------------------------- MODULE Gitops -------------------------------
(* What the GitOps pages compute from the cluster (internal/gitops): the     *)
(* graph of sources, appliers and applications, the words for readiness, the *)
(* live reads of an application's resources, and the drift between what an   *)
(* object was declared to be and what it is.                                 *)
EXTENDS Question, Integers, Sequences, FiniteSets, FiniteSetsExt, SequencesExt, TLC

-----------------------------------------------------------------------------
(* The graph.  An object is its number; what is listed has a category, a     *)
(* source (0 for none), dependencies and the objects it manages.             *)

EmptyGraph == [nodes |-> << >>, edges |-> {}]

\* ensureRef: an object that is only referred to, unless it has a node.
EnsureRef(g, id, cat) ==
  IF id \in DOMAIN g.nodes THEN g
  ELSE [g EXCEPT !.nodes = (id :> [cat |-> cat, listed |-> FALSE]) @@ @]

Link(g, id, cat, edge) == [EnsureRef(g, id, cat) EXCEPT !.edges = @ \cup {edge}]

\* sourceEdge, dependsOnEdges and inventoryEdges or appEdges, in this order.
EdgesOf(g, o) ==
  LET sourced == IF o.source = 0 THEN g ELSE Link(g, o.source, "source", <<o.source, o.id, "source">>)
      depended == FoldSet(LAMBDA d, h : Link(h, d, "applier", <<d, o.id, "dependsOn">>), sourced, o.deps)
  IN FoldSet(LAMBDA m, h : Link(h, m, "managed", <<o.id, m, "manages">>), depended, o.manages)

\* addObject: what is listed takes the place of what was only referred to.
AddObject(g, o) == EdgesOf([g EXCEPT !.nodes = (o.id :> [cat |-> o.cat, listed |-> TRUE]) @@ @], o)

\* Build and graph(): what is only managed is left out, with its edges.
BuildGraph(listed) ==
  LET g == FoldLeft(AddObject, EmptyGraph, listed)
      kept == {id \in DOMAIN g.nodes : g.nodes[id].cat # "managed"}
  IN [nodes |-> [id \in kept |-> g.nodes[id]], edges |-> {e \in g.edges : e[1] \in kept /\ e[2] \in kept}]

-----------------------------------------------------------------------------
(* Words for readiness.                                                      *)

Healths == {"Healthy", "Degraded", "Missing", "Progressing", ""}
Syncs == {"Synced", "OutOfSync", "Unknown", ""}
Readies == {"True", "False", "Unknown", ""}

\* argoReady, of the whole graph.
ArgoReady(health) ==
  CASE health = "Healthy" -> "True" [] health \in {"Degraded", "Missing"} -> "False" [] OTHER -> "Unknown"

\* conditionReady; the condition may be missing.
ConditionReady(ready) == IF ready \in {"True", "False"} THEN ready ELSE "Unknown"

\* syncWordOf and healthWordOf, of a Flux object's page.
SyncWordOf(ready) == CASE ready = "True" -> "Synced" [] ready = "False" -> "OutOfSync" [] OTHER -> "Unknown"

HealthWordOf(ready) == CASE ready = "True" -> "Healthy" [] ready = "False" -> "Degraded" [] OTHER -> "Progressing"

\* rootReady, of one application's graph.
RootReady(sync, health) ==
  CASE health \in {"Degraded", "Missing"} -> "False"
    [] health = "Healthy" /\ sync = "Synced" -> "True"
    [] OTHER -> "Unknown"

\* managedReady, of a resource in that graph.
ManagedReady(sync, health, terminating) ==
  CASE terminating \/ health \in {"Degraded", "Missing"} -> "False"
    [] ~ terminating /\ (health = "Healthy" \/ (sync = "Synced" /\ health \notin {"Degraded", "Missing"})) -> "True"
    [] OTHER -> "Unknown"

-----------------------------------------------------------------------------
(* Reading an application's resources from the cluster, MaxLiveReads at the   *)
(* most.                                                                      *)

MaxLiveReads == 2
MaxDriftFields == 1
Many == MaxDriftFields + 1

\* interest.
Interest(r) ==
  (IF r.health \notin {"", "Healthy"} THEN 2 ELSE 0) + (IF r.sync \notin {"", "Synced"} THEN 1 ELSE 0)

\* readingOrder: the most interesting first, in their order among equals.
ReadingOrder(resources) ==
  SortSeq([i \in DOMAIN resources |-> i],
          LAMBDA a, b : \/ Interest(resources[a]) > Interest(resources[b])
                        \/ Interest(resources[a]) = Interest(resources[b]) /\ a < b)

\* Drift: the declared fields that differ, so many of them at the most.
DriftOf(live) ==
  IF live.declared < 0 THEN [fields |-> 0, note |-> "no declaration"]
  ELSE [fields |-> Min({live.declared, MaxDriftFields}), note |-> IF live.declared > MaxDriftFields THEN "more" ELSE ""]

\* Ownership: the fields another writer holds, where the controller is known.
OwnershipOf(live) ==
  CASE live.taken < 0 -> [fields |-> 0, note |-> "no declaration"]
    [] live.taken = 0 -> [fields |-> 0, note |-> "held"]
    [] OTHER -> [fields |-> Min({live.taken, MaxDriftFields}), note |-> IF live.taken > MaxDriftFields THEN "more" ELSE "taken"]

\* apply.
AppliedLive(r) ==
  LET drift == DriftOf(r.live) IN
  CASE drift.note = "no declaration" -> OwnershipOf(r.live)
    [] drift = [fields |-> 0, note |-> ""] /\ r.sync = "OutOfSync" -> [fields |-> 0, note |-> "git may not declare it"]
    [] OTHER -> drift

\* enrich: which are read, and whether the page says that some were not.
Enriched(resources) ==
  LET order == ReadingOrder(resources)
      read == Min({MaxLiveReads, Len(order)})
  IN [read |-> {order[i] : i \in 1..read}, told |-> Len(order) > read]

-----------------------------------------------------------------------------
(* Drift, field by field.  A value is a leaf, a map or a list; an entry of a  *)
(* list is named when it is a map with a name.                                *)

Leaf(v) == [t |-> "leaf", v |-> v]
Tree(f) == [t |-> "map", f |-> f]
List(s) == [t |-> "list", s |-> s]
NamedItem(n, v) == Tree([name |-> Leaf(n), v |-> Leaf(v)])

NameOf(v) == IF v.t = "map" /\ "name" \in DOMAIN v.f /\ v.f["name"].t = "leaf" THEN v.f["name"].v ELSE 0

\* named.
AllNamed(s) == s # <<>> /\ \A i \in DOMAIN s : NameOf(s[i]) # 0

\* What lists of named entries are matched by: the entry of the same name.
EntryOf(s, name) == {i \in DOMAIN s : NameOf(s[i]) = name}

\* compareByName finds the entry by name, the other lists by place.
MatchOf(declared, live, i) ==
  IF AllNamed(declared) THEN EntryOf(live, NameOf(declared[i])) ELSE {i} \cap DOMAIN live

RECURSIVE Differences(_, _, _)
\* compare, compareLists and compareEntry: the paths at which they differ.
Differences(declared, live, path) ==
  CASE declared.t = "map" /\ live.t = "map" ->
         UNION {CASE Append(path, k) = <<"status">> -> {}
                  [] k \notin DOMAIN live.f -> {Append(path, k)}
                  [] OTHER -> Differences(declared.f[k], live.f[k], Append(path, k))
                : k \in DOMAIN declared.f}
    [] declared.t = "list" /\ live.t = "list" ->
         IF ~ AllNamed(declared.s) /\ Len(declared.s) # Len(live.s) THEN {path}
         ELSE UNION {LET here == Append(path, ToString(i)) IN
                     IF MatchOf(declared.s, live.s, i) = {} THEN {here}
                     ELSE Differences(declared.s[i], live.s[Max(MatchOf(declared.s, live.s, i))], here)
                     : i \in DOMAIN declared.s}
    [] OTHER -> IF declared = live THEN {} ELSE {path}

RECURSIVE DeclaredOver(_, _, _)
\* For reference: what the live object becomes when the declaration is applied
\* to it once more, maps key by key and named entries by name.
DeclaredOver(declared, live, top) ==
  CASE declared.t = "map" /\ live.t = "map" ->
         Tree([k \in DOMAIN live.f \cup (DOMAIN declared.f \ (IF top THEN {"status"} ELSE {})) |->
                 CASE k \notin DOMAIN declared.f \/ (top /\ k = "status") -> live.f[k]
                   [] k \notin DOMAIN live.f -> declared.f[k]
                   [] OTHER -> DeclaredOver(declared.f[k], live.f[k], FALSE)])
    [] declared.t = "list" /\ live.t = "list" /\ AllNamed(declared.s) ->
         List([i \in DOMAIN live.s |->
                 LET mine == EntryOf(declared.s, NameOf(live.s[i])) IN
                 IF NameOf(live.s[i]) = 0 \/ mine = {} THEN live.s[i] ELSE DeclaredOver(declared.s[Max(mine)], live.s[i], FALSE)]
              \o SelectSeq(declared.s, LAMBDA d : EntryOf(live.s, NameOf(d)) = {}))
    [] declared.t = "list" /\ live.t = "list" /\ Len(declared.s) = Len(live.s) ->
         List([i \in DOMAIN live.s |-> DeclaredOver(declared.s[i], live.s[i], FALSE)])
    [] OTHER -> declared

-----------------------------------------------------------------------------
(* The questions: objects 1 a source, 2 and 3 appliers, 4 an application.    *)

Appliers == [id : {2, 3}, cat : {"applier"}, source : {0, 1}, deps : SUBSET {2, 3}, manages : {{}, {1}, {2}, {2, 3, 5}}]
Sources == {[id |-> 1, cat |-> "source", source |-> 0, deps |-> {}, manages |-> {}]}
Apps == {[id |-> 4, cat |-> "app", source |-> 0, deps |-> {}, manages |-> m] : m \in {{}, {1, 3}}}

AskGraph ==
  /\ Ready
  /\ \E listed \in BoundedSeq(Appliers, 1) \cup (Appliers \X (Appliers \cup Sources \cup Apps)) \cup (Sources \X Appliers)
                     \cup (Apps \X Appliers) :
       /\ \A i, j \in DOMAIN listed : listed[i].id = listed[j].id => i = j
       /\ Put([about |-> "gitops graph", listed |-> listed])

AskReadiness ==
  /\ Ready
  /\ \E sync \in Syncs, health \in Healths, ready \in Readies, terminating \in BOOLEAN :
       Put([about |-> "readiness", sync |-> sync, health |-> health, ready |-> ready, terminating |-> terminating])

Resource == [health : {"", "Healthy", "Degraded"}, sync : {"", "Synced", "OutOfSync"}]
LiveObject == [declared : -1..Many, taken : -1..Many]

AskEnrich ==
  /\ Ready
  /\ \E resources \in BoundedSeq(Resource, MaxLiveReads + 1), live \in LiveObject :
       Put([about |-> "enrich", resources |-> resources, live |-> live])

Entries == {Leaf(1), Leaf(2), NamedItem(1, 1), NamedItem(1, 2), NamedItem(2, 1), Tree([v |-> Leaf(1)])}
Lists == {List(s) : s \in BoundedSeq(Entries, 2)}
UniqueLists == {l \in Lists : \A i, j \in DOMAIN l.s : NameOf(l.s[i]) # 0 /\ NameOf(l.s[i]) = NameOf(l.s[j]) => i = j}
Values == {Leaf(1), Leaf(2), Tree([status |-> Leaf(1)]), Tree([status |-> Leaf(2), v |-> Leaf(1)])} \cup UniqueLists

AskDrift ==
  /\ Ready
  /\ \E declared \in Values, live \in Values, extra \in BOOLEAN :
       Put([about |-> "drift", declared |-> Tree([spec |-> declared, status |-> Leaf(1)]),
            live |-> Tree(IF extra THEN [spec |-> live, status |-> Leaf(2), other |-> Leaf(1)] ELSE [other |-> live])])

-----------------------------------------------------------------------------
\* Whatever the order in which the kinds are listed, every listed object has
\* the node of its own category, and its dependencies are drawn, the ones that
\* are missing included unless something claims to manage them.
GraphShowsWhatIsListed ==
  Asks("gitops graph") =>
    LET g == BuildGraph(ask.listed) IN
    \A i \in DOMAIN ask.listed :
      LET o == ask.listed[i] IN
      /\ o.id \in DOMAIN g.nodes /\ g.nodes[o.id] = [cat |-> o.cat, listed |-> TRUE]
      /\ \A d \in o.deps \cup ({o.source} \ {0}) :
           \/ \E e \in g.edges : e[1] = d /\ e[2] = o.id
           \/ (\E j \in DOMAIN ask.listed : d \in ask.listed[j].manages)

\* The graph of everything, the graph of one application and an object's page
\* never disagree on what is broken, and none of them calls ready what another
\* calls broken.
PagesAgreeOnReadiness ==
  Asks("readiness") =>
    /\ (RootReady(ask.sync, ask.health) = "False") <=> (ArgoReady(ask.health) = "False")
    /\ RootReady(ask.sync, ask.health) = "True" => ArgoReady(ask.health) = "True"
    /\ RootReady(SyncWordOf(ask.ready), HealthWordOf(ask.ready)) = ConditionReady(ask.ready)
    /\ ArgoReady(ask.health) = "False" => ManagedReady(ask.sync, ask.health, ask.terminating) = "False"

\* What is left unread is never more interesting than what is read, and the
\* page says that something was left.
ReadsTheWorstFirst ==
  Asks("enrich") =>
    LET got == Enriched(ask.resources) IN
    /\ \A i \in got.read, j \in DOMAIN ask.resources \ got.read :
         Interest(ask.resources[i]) >= Interest(ask.resources[j])
    /\ got.told <=> (got.read # DOMAIN ask.resources)

\* A resource that is out of sync shows a field that differs or says why it
\* shows none, and fields that are held back are told.
SilenceIsExplained ==
  Asks("enrich") =>
    \A i \in DOMAIN ask.resources :
      LET r == ask.resources[i]
          got == AppliedLive([live |-> ask.live, sync |-> r.sync])
      IN /\ r.sync = "OutOfSync" => got.fields > 0 \/ got.note # ""
         /\ Max({ask.live.declared, IF ask.live.declared < 0 THEN ask.live.taken ELSE 0}) > got.fields => got.note = "more"

\* A field is reported exactly when applying the declaration once more would
\* change the object: defaults, additions and the order of named entries are
\* no drift.
DriftIsWhatApplyingWouldChange ==
  Asks("drift") =>
    (Differences(ask.declared, ask.live, <<>>) = {}) <=> (DeclaredOver(ask.declared, ask.live, TRUE) = ask.live)
=============================================================================
