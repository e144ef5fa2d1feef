------------------------------ MODULE Topology ------------------------------
(* The map of a cluster (internal/topology): how objects are linked, how     *)
(* those that a controller owns are folded into it, how a crowded map is     *)
(* folded into its namespaces, and the neighbourhood of one object.  Objects *)
(* are numbers; the fold of a namespace n is the number District(n).         *)
EXTENDS Question, Integers, Sequences, FiniteSets, FiniteSetsExt, TLC

NodeBudget == 2
RootDepth == 2
MaxFoldDepth == 4

-----------------------------------------------------------------------------
(* Folding.  A map has `objects`, the namespace, kind and readiness of each,  *)
(* `controller` (0 for none), the unfolded objects and the edges.             *)

Foldable == {"Pod", "ReplicaSet", "Job"}

District(n) == 10 + n

\* foldParents: what its controller stands for.
FoldParents(map) ==
  LET folded == {o \in map.objects : map.kind[o] \in Foldable /\ map.controller[o] # 0} IN [o \in folded |-> map.controller[o]]

RECURSIVE ShownUpTo(_, _, _, _)
\* shown: everything above it is unfolded.
ShownUpTo(o, parents, expanded, depth) ==
  CASE depth = 0 -> FALSE
    [] depth > 0 /\ o \notin DOMAIN parents -> TRUE
    [] OTHER -> parents[o] \in expanded /\ ShownUpTo(parents[o], parents, expanded, depth - 1)

VisibleSet(ids, parents, expanded) == {o \in ids : ShownUpTo(o, parents, expanded, MaxFoldDepth)}

RECURSIVE AnchorAbove(_, _, _, _)
AnchorAbove(o, parents, visible, depth) ==
  CASE depth = 0 \/ o \notin DOMAIN parents -> 0
    [] depth > 0 /\ o \in DOMAIN parents /\ parents[o] \in visible -> parents[o]
    [] OTHER -> AnchorAbove(parents[o], parents, visible, depth - 1)

\* anchorOf: the nearest visible object above a hidden one.
AnchorOf(o, parents, visible, depth) == AnchorAbove(o, parents, visible, depth)

\* crowded.
Crowded(map, visible) == Cardinality(visible) > NodeBudget /\ Cardinality({map.place[o] : o \in visible}) > 1

\* districts: what nothing stands for yet is folded into its namespace, but
\* for what is not ready.
Districts(map, parents) ==
  LET roots == map.objects \ DOMAIN parents
      wider == [o \in map.objects |-> IF o \in roots THEN District(map.place[o]) ELSE parents[o]]
      ids == map.objects \cup {wider[o] : o \in roots}
      exposed == {o \in roots : ~ map.ready[o] /\ wider[o] \notin map.expanded}
  IN [ids |-> ids, parents |-> wider, visible |-> VisibleSet(ids, wider, map.expanded) \cup exposed]

\* graph(): the folded map, crowded or not.
FoldMap(map) ==
  LET parents == FoldParents(map)
      visible == VisibleSet(map.objects, parents, map.expanded)
  IN IF Crowded(map, visible) THEN Districts(map, parents)
     ELSE [ids |-> map.objects, parents |-> parents, visible |-> visible]

NotReady(map, o) == o \in map.objects /\ ~ map.ready[o]

\* nodesFor: what hides behind each node, and how much of it is not well.
NodesFor(map, fold) ==
  LET Behind(v) == {o \in fold.ids \ fold.visible : AnchorOf(o, fold.parents, fold.visible, MaxFoldDepth) = v}
      Unwell(v) == {o \in Behind(v) : NotReady(map, o)}
  IN [v \in fold.visible |-> [contains |-> Behind(v), unhealthy |-> Cardinality(Unwell(v)),
                              broken |-> NotReady(map, v) \/ Unwell(v) # {}]]

Resolve(fold, o) == IF o \in fold.visible THEN o ELSE AnchorOf(o, fold.parents, fold.visible, MaxFoldDepth)

\* A slip: an edge of a folded object is folded away with it.
EdgesOfShown(map, fold) == {e \in map.edges : e[1] \in fold.visible /\ e[2] \in fold.visible}

\* edgesFor.
EdgesFor(map, fold) ==
  {e \in {<<Resolve(fold, e[1]), Resolve(fold, e[2])>> : e \in map.edges} : e[1] # 0 /\ e[2] # 0 /\ e[1] # e[2]}

Across(edges, near) == {o \in {e[1] : e \in edges} \cup {e[2] : e \in edges} :
                          \E e \in edges : {e[1], e[2]} \cap near # {} /\ o \in {e[1], e[2]}}

RECURSIVE NearFrom(_, _, _)
NearFrom(edges, near, depth) == IF depth = 0 THEN near ELSE NearFrom(edges, near \cup Across(edges, near), depth - 1)

\* neighborhood, without its root when that is not on the map.
Neighborhood(edges, near, depth) == NearFrom(edges, near, depth)

-----------------------------------------------------------------------------
(* Linking.                                                                   *)

\* candidates: the pods of a namespace that hold the rarest of the labels.
PodCandidates(pods, place, selector) ==
  LET Holding(pair) == {p \in pods : p.place = place /\ pair \in p.labels}
      rarest == CHOOSE pair \in selector : \A other \in selector : Cardinality(Holding(pair)) =< Cardinality(Holding(other))
  IN IF selector = {} THEN {} ELSE Holding(rarest)

\* serviceEdges.
ServiceRoutes(pods, place, selector) == {p \in PodCandidates(pods, place, selector) : selector \subseteq p.labels}

\* templatedByItsController: a controller that was listed and has a template.
\* In a chain of owners each one controls the next.
Templated(chain, i) == i > 1 /\ chain[i - 1].listed /\ chain[i - 1].template

\* configEdges: those of the chain that a reference is drawn to.
ConfigDrawn(chain) == {i \in DOMAIN chain : chain[i].listed /\ chain[i].template /\ ~ Templated(chain, i)}

-----------------------------------------------------------------------------
(* Object 1 is a deployment, 2 a replica set, 3 and 4 pods, 5 a service.      *)

KindOf == [o \in 1..5 |-> CASE o = 1 -> "Deployment" [] o = 2 -> "ReplicaSet" [] o = 5 -> "Service" [] OTHER -> "Pod"]

AskMap ==
  /\ Ready
  /\ \E owned \in {0, 1}, first \in 0..2, second \in {0, 2}, place \in 1..2, served \in 1..2, ill \in SUBSET {1, 3, 4, 5},
        expanded \in {{}, {1}, {1, 2}, {District(1)}, {District(1), 1, 2}}, edges \in SUBSET {<<5, 3>>, <<1, 2>>, <<2, 3>>} :
       Put([about |-> "map",
            map |-> [objects |-> 1..5, kind |-> KindOf, controller |-> <<0, owned, first, second, 0>>,
                     place |-> <<1, 1, 1, IF second = 0 THEN place ELSE 1, served>>,
                     ready |-> [o \in 1..5 |-> o \notin ill], expanded |-> expanded, edges |-> edges]])

Pods == [place : 1..2, labels : {{}, {1}, {2}, {1, 2}}]

AskLinks ==
  /\ Ready
  /\ \/ \E pods \in {set \in SUBSET Pods : Cardinality(set) =< 4}, selector \in SUBSET {1, 2} :
          Put([about |-> "routes", pods |-> pods, selector |-> selector])
     \/ \E n \in 1..3 : \E chain \in [1..n -> [listed : BOOLEAN, template : BOOLEAN]] :
          Put([about |-> "configs", chain |-> chain])

-----------------------------------------------------------------------------
\* Nothing is lost in a fold: every object is on the map or counted by one
\* node of it, and by one only.
FoldsCountEverything ==
  Asks("map") =>
    LET fold == FoldMap(ask.map)
        nodes == NodesFor(ask.map, fold)
    IN \A o \in ask.map.objects :
         o \in fold.visible \/ Cardinality({v \in fold.visible : o \in nodes[v].contains}) = 1

\* An object that is not ready is drawn, or what stands for it is drawn as
\* broken, however deep the fold and however crowded the map.
IllnessShowsThrough ==
  Asks("map") =>
    LET fold == FoldMap(ask.map)
        nodes == NodesFor(ask.map, fold)
    IN \A o \in ask.map.objects :
         ~ ask.map.ready[o] =>
           \E v \in fold.visible : nodes[v].broken /\ (v = o \/ o \in nodes[v].contains)

\* An edge between two objects is drawn between what stands for them, unless
\* one node stands for both, and no edge leads off the map.
EdgesSurviveFolds ==
  Asks("map") =>
    LET fold == FoldMap(ask.map)
        drawn == EdgesFor(ask.map, fold)
    IN /\ \A e \in drawn : {e[1], e[2]} \subseteq fold.visible
       /\ \A e \in ask.map.edges :
            <<Resolve(fold, e[1]), Resolve(fold, e[2])>> \in drawn \/ Resolve(fold, e[1]) = Resolve(fold, e[2])

\* The neighbourhood holds what is RootDepth edges away, against their
\* direction too.
NeighborsBothWays ==
  Asks("map") =>
    LET fold == FoldMap(ask.map)
        edges == EdgesFor(ask.map, fold)
    IN \A root \in fold.visible :
         LET near == Neighborhood(edges, {root}, RootDepth) IN
         /\ \A o \in near \ {root} : \E e, x \in edges :
              root \in {e[1], e[2]} /\ o \in {x[1], x[2]} /\ {e[1], e[2]} \cap {x[1], x[2]} # {}
         /\ \A e \in edges : root \in {e[1], e[2]} =>
              \A x \in edges : {e[1], e[2]} \cap {x[1], x[2]} # {} => {x[1], x[2]} \subseteq near

\* A service leads to exactly the pods of its namespace that carry every label
\* it selects by.
RoutesAreSelections ==
  Asks("routes") =>
    ServiceRoutes(ask.pods, 1, ask.selector) =
      {p \in ask.pods : ask.selector # {} /\ p.place = 1 /\ ask.selector \subseteq p.labels}

\* What a listed object is configured by is drawn to it or to one of those
\* that control it.
ConfigIsDrawn ==
  Asks("configs") =>
    \A i \in DOMAIN ask.chain :
      ask.chain[i].listed /\ ask.chain[i].template => \E j \in 1..i : j \in ConfigDrawn(ask.chain)
=============================================================================
