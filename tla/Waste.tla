------------------------------- MODULE Waste ---------------------------------
(* The reader that adds up what the pods of a cluster reserve and do not use *)
(* (internal/waste).                                                         *)
EXTENDS Question, Integers, Sequences, FiniteSets, SequencesExt, FiniteSetsExt

ClimbDepth == 4
WindowPodBudget == 2
BasisPoints == 10000

-----------------------------------------------------------------------------
(* Waste.  A pod has a namespace, a chain of controllers from its own up, its *)
(* reservations, and whether it has finished.  Only the replica sets and jobs *)
(* that were read are known to have a controller themselves.                  *)

\* topOwner: up the chain as far as the controllers were read; a pod that no
\* controller has stands for itself.
OwnerOnTop(pod, read) ==
  LET tops == {i \in DOMAIN pod.chain : i = Len(pod.chain) \/ i = ClimbDepth \/ pod.chain[i] \notin read}
  IN IF pod.chain = <<>> THEN pod.name ELSE pod.chain[Min(tops)]

\* reservations: what has finished reserves nothing.
Reservations(pods, read) ==
  LET running == SelectSeq(pods, LAMBDA p : ~ p.finished)
  IN [i \in DOMAIN running |-> [pod |-> running[i], owner |-> OwnerOnTop(running[i], read)]]

\* live.Usage: one reading of all pods.
LiveUsage(meter, items) ==
  LET named == {items[i].pod.name : i \in DOMAIN items} \cap DOMAIN meter.knows
  IN IF meter.fails \/ named = {} THEN [ok |-> FALSE, pods |-> <<>>]
     ELSE [ok |-> TRUE, pods |-> [p \in named |-> meter.knows[p]]]

\* window.Usage: one reading for each pod, of not too many.
WindowUsage(meter, items) ==
  IF Len(items) > WindowPodBudget THEN [ok |-> FALSE, pods |-> <<>>] ELSE LiveUsage(meter, items)

Usage(meter, items) == IF meter.window THEN WindowUsage(meter, items) ELSE LiveUsage(meter, items)

\* measure: the first meter that can read anything.
Measure(meters, items) ==
  LET able == {i \in DOMAIN meters : Usage(meters[i], items).ok}
  IN IF able = {} THEN [ok |-> FALSE, pods |-> <<>>] ELSE Usage(meters[Min(able)], items)

FloorAtZero(n) == IF n < 0 THEN 0 ELSE n

\* attach and rollup, by the namespace or by the workload of each pod.
Rollup(items, reading, keyOf) ==
  LET Of(key) == {i \in DOMAIN items : keyOf[i] = key}
      measured == {i \in DOMAIN items : items[i].pod.name \in DOMAIN reading.pods}
      Used(i) == reading.pods[items[i].pod.name]
  IN {[key |-> key,
       pods |-> Cardinality(Of(key)),
       requested |-> MapThenSumSet(LAMBDA i : items[i].pod.asks, Of(key)),
       used |-> MapThenSumSet(LAMBDA i : Used(i), Of(key) \cap measured),
       reclaimable |-> MapThenSumSet(LAMBDA i : FloorAtZero(items[i].pod.asks - Used(i)), Of(key) \cap measured),
       measured |-> Of(key) \subseteq measured] : key \in Range(keyOf)}

NamespaceRows(items) == [i \in DOMAIN items |-> <<items[i].pod.place>>]

WorkloadRows(items) == [i \in DOMAIN items |-> <<items[i].pod.place, items[i].owner>>]

\* share and score, in basis points of all that can be had back.
Score(row, rows) ==
  LET whole == MapThenSumSet(LAMBDA r : r.reclaimable, rows)
  IN IF whole =< 0 THEN 0 ELSE (row.reclaimable * BasisPoints) \div whole

\* ranked.
RankedRows(rows) == SetToSortSeq(rows, LAMBDA l, r : Score(l, rows) > Score(r, rows))

\* partialOn: a namespace nothing was measured in, or a workload beside others
\* that were measured.
PartialOn(items, reading, namespaces, workloads) ==
  LET seen == {items[i].pod.place : i \in {j \in DOMAIN items : items[j].pod.name \in DOMAIN reading.pods}}
  IN {row.key : row \in {n \in namespaces : ~ n.measured /\ n.key[1] \notin seen}}
     \cup {row.key : row \in {w \in workloads : ~ w.measured /\ w.key[1] \in seen}}

\* bareNames: what reserves nothing cannot be ranked, and is named.
BareNames(items) == {items[i].pod.name : i \in {j \in DOMAIN items : items[j].pod.asks = 0}}

\* Build and reasonOf.
WasteReport(pods, read, meters) ==
  LET items == Reservations(pods, read)
      reading == Measure(meters, items)
      namespaces == Rollup(items, reading, NamespaceRows(items))
      workloads == Rollup(items, reading, WorkloadRows(items))
  IN [namespaces |-> RankedRows(namespaces), workloads |-> RankedRows(workloads), measured |-> reading.ok,
      partialOn |-> IF reading.ok THEN PartialOn(items, reading, namespaces, workloads) ELSE {},
      bare |-> BareNames(items)]

-----------------------------------------------------------------------------
(* The questions.                                                             *)

WastePod(name, shape) ==
  [name |-> name, place |-> shape.place, asks |-> shape.asks, finished |-> shape.finished, chain |-> shape.chain]

AskWaste ==
  /\ Ready
  /\ \E one, other \in [place : 1..2, asks : {0, 4}, finished : BOOLEAN, chain : {<<>>, <<"rs", "deploy">>}],
        third \in [place : {1}, asks : {2}, finished : {FALSE}, chain : {<<>>, <<"rs", "deploy">>}],
        read \in {{}, {"rs"}}, knows \in SUBSET {"p1", "p2", "p3"}, first \in {"window", "failing", "none"} :
       LET live == [window |-> FALSE, fails |-> FALSE, knows |-> [p \in knows |-> 3]]
       IN Put([about |-> "waste", read |-> read,
               pods |-> <<WastePod("p1", one), WastePod("p2", other), WastePod("p3", third)>>,
               meters |-> CASE first = "window" -> <<[live EXCEPT !.window = TRUE], live>>
                            [] first = "failing" -> <<[live EXCEPT !.fails = TRUE], live>>
                            [] OTHER -> <<>>])

-----------------------------------------------------------------------------
(* Properties.                                                                *)

\* Namespaces and workloads are two views of the same pods and add up to the
\* same; what can be had back is never more than was asked for, and a pod that
\* uses more than it asked for takes nothing from what another leaves
\* (waste.go:60, 158).
WasteAddsUp ==
  Asks("waste") =>
    LET report == WasteReport(ask.pods, ask.read, ask.meters)
        running == {i \in DOMAIN ask.pods : ~ ask.pods[i].finished}
        Total(rows, Field(_)) == FoldLeft(LAMBDA n, row : n + Field(row), 0, rows)
    IN /\ \A rows \in {report.namespaces, report.workloads} :
            /\ Total(rows, LAMBDA row : row.pods) = Cardinality(running)
            /\ Total(rows, LAMBDA row : row.requested) = MapThenSumSet(LAMBDA i : ask.pods[i].asks, running)
            /\ \A i \in DOMAIN rows : /\ rows[i].reclaimable =< rows[i].requested
                                      /\ rows[i].measured => rows[i].reclaimable >= rows[i].requested - rows[i].used
            /\ \A i, j \in DOMAIN rows : i < j => rows[i].reclaimable >= rows[j].reclaimable
       /\ Total(report.namespaces, LAMBDA row : row.reclaimable)
            = Total(report.workloads, LAMBDA row : row.reclaimable)

\* A row that is not wholly measured is named, itself or by its namespace, and
\* none that is, a reading that read nothing is not taken for one, and a workload
\* ranked at nothing though measured is one that uses all it asks for or whose pods
\* are named as asking for nothing (waste.go:243, reasonOf).
UnmeasuredIsNamed ==
  Asks("waste") =>
    LET report == WasteReport(ask.pods, ask.read, ask.meters)
    IN report.measured =>
         /\ \A i \in DOMAIN report.workloads :
              LET row == report.workloads[i]
              IN ~ row.measured <=> row.key \in report.partialOn \/ <<row.key[1]>> \in report.partialOn
         /\ \E i \in DOMAIN report.workloads : report.workloads[i].used > 0
         /\ \A i \in DOMAIN report.workloads :
              LET row == report.workloads[i]
              IN row.measured /\ row.requested = 0 =>
                   Cardinality({j \in DOMAIN ask.pods : ask.pods[j].name \in report.bare}) >= row.pods
=============================================================================
