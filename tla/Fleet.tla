-------------------------------- MODULE Fleet --------------------------------
(* The pages over all open clusters (internal/server/fleet*.go): every       *)
(* cluster is asked on its own, and the answers are merged, cut and paged.   *)
(* A cluster is a number; a page's error is the set of clusters it names.    *)
EXTENDS Question, Naturals, Sequences, FiniteSets, SequencesExt, FiniteSetsExt

SearchCap == 2
ImageCap == 2
QueueCap == 2
LocalLimit == 2

-----------------------------------------------------------------------------
(* Asking.                                                                    *)

Outcomes == {"answers", "panics", "silent", "unavailable"}

\* eachOpenClusterWithin: a cluster that has no connection, whose reader panics
\* or that is silent past its own deadline leaves a failure, and no answer.
AskEach(open, nothing) ==
  [i \in DOMAIN open |->
     [cluster |-> open[i].cluster,
      failed |-> open[i].outcome # "answers",
      answer |-> IF open[i].outcome = "answers" THEN open[i].answer ELSE nothing]]

\* What every merge says of those that answered with an error or not at all.
Troubled(found) == {found[i].cluster : i \in {j \in DOMAIN found : found[j].answer.error \/ found[j].failed}}

-----------------------------------------------------------------------------
(* What one cluster answers: `count` findings of a check, finding k about     *)
(* object (k + 2) \div 2, on pages of LocalLimit.                             *)

FindingsAbout(k) == (k + 2) \div 2

\* One page after a cursor, as a backend's CheckPage and Checks cut it.
LocalPage(count, after) ==
  LET last == Min({after + LocalLimit, count})
      keys == [i \in 1 .. last - after |-> after + i]
      objects == SetToSortSeq({FindingsAbout(keys[i]) : i \in DOMAIN keys}, <)
  IN [objects |-> objects, error |-> FALSE,
      findings |-> [i \in DOMAIN keys |->
                      [key |-> keys[i], ref |-> CHOOSE at \in DOMAIN objects : objects[at] = FindingsAbout(keys[i])]],
      next |-> IF last < count THEN last ELSE 0]

-----------------------------------------------------------------------------
(* The audit of the fleet.  A finding refers to an object of its report by    *)
(* its place there, so that merging shifts it.                                *)

NoReport == [groups |-> <<>>, objects |-> <<>>, baseline |-> 0, error |-> FALSE]

StampedObjects(one) == [i \in DOMAIN one.answer.objects |-> [name |-> one.answer.objects[i], cluster |-> one.cluster]]

ShiftedRefs(findings, offset) == [i \in DOMAIN findings |-> [findings[i] EXCEPT !.ref = @ + offset]]

\* shifted.
ShiftedGroup(group, offset) ==
  [group EXCEPT !.findings = ShiftedRefs(group.findings, offset), !.next = 0]

\* foldGroups, one group: the first of its check, one that stood down, the first
\* that did not, or more of the same.
FoldGroup(groups, group, on) ==
  LET held == {i \in DOMAIN groups : groups[i].id = group.id}
      at == CHOOSE i \in held : TRUE
      into == groups[at]
      merged ==
        CASE group.skipped -> [into EXCEPT !.partialOn = @ \cup {on}]
          [] ~ group.skipped /\ into.skipped -> [group EXCEPT !.partialOn = into.partialOn]
          [] OTHER -> [into EXCEPT !.total = @ + group.total,
                                   !.baselined = @ /\ group.baselined,
                                   !.findings = @ \o group.findings]
  IN IF held = {} THEN Append(groups, [group EXCEPT !.partialOn = IF group.skipped THEN {on} ELSE {}])
     ELSE [groups EXCEPT ![at] = merged]

\* lacksBaseline.
LacksBaseline(one) == one.answer.baseline = 0 /\ ~ one.failed /\ ~ one.answer.error

\* notes: who has no baseline, where others have one.
UnbaselinedNotes(found) ==
  IF \A i \in DOMAIN found : found[i].answer.baseline = 0 THEN {}
  ELSE {found[i].cluster : i \in {j \in DOMAIN found : LacksBaseline(found[j])}}

\* settleStandDowns.
SettledStandDowns(groups) ==
  [i \in DOMAIN groups |-> IF groups[i].skipped THEN [groups[i] EXCEPT !.partialOn = {}] ELSE groups[i]]

\* setFleetCheckCursors: of one check, where each cluster goes on.
FleetCursor(id, found) ==
  LET Left(one) == {g \in ToSet(one.answer.groups) : g.id = id /\ g.next # 0}
      going == {i \in DOMAIN found : ~ found[i].failed /\ Left(found[i]) # {}}
  IN [c \in {found[i].cluster : i \in going} |->
        LET i == CHOOSE j \in going : found[j].cluster = c IN (CHOOSE g \in Left(found[i]) : TRUE).next]

\* earliest: the oldest of the baselines, 0 for none.
EarliestBaseline(found) ==
  LET taken == {found[i].answer.baseline : i \in DOMAIN found} \ {0} IN IF taken = {} THEN 0 ELSE Min(taken)

\* mergeReports.
MergeReports(found) ==
  LET Add(merged, one) ==
        LET offset == Len(merged.objects)
            Fold(groups, group) == FoldGroup(groups, ShiftedGroup(group, offset), one.cluster)
        IN [objects |-> merged.objects \o StampedObjects(one),
            groups |-> FoldLeft(Fold, merged.groups, one.answer.groups)]
      all == FoldLeft(Add, [objects |-> <<>>, groups |-> <<>>], found)
  IN [objects |-> all.objects,
      groups |-> SettledStandDowns(all.groups),
      cursors |-> [i \in DOMAIN all.groups |-> FleetCursor(all.groups[i].id, found)],
      baseline |-> EarliestBaseline(found),
      error |-> Troubled(found) \cup UnbaselinedNotes(found)]

PageRefused(why) == [status |-> why, objects |-> <<>>, findings |-> <<>>, next |-> <<>>]

\* mergeFleetCheckPages: one page of every cluster that the cursor names, or
\* nothing at all.
MergePages(after, found) ==
  LET wanted == SelectSeq(found, LAMBDA one : one.cluster \in DOMAIN after)
      Add(merged, one) ==
        [objects |-> merged.objects \o StampedObjects(one),
         findings |-> merged.findings \o ShiftedRefs(one.answer.findings, Len(merged.objects))]
      all == FoldLeft(Add, [objects |-> <<>>, findings |-> <<>>], wanted)
      more == {i \in DOMAIN wanted : wanted[i].answer.next # 0}
  IN CASE \E i \in DOMAIN wanted : wanted[i].failed \/ wanted[i].answer.error -> PageRefused("failed")
       [] DOMAIN after \ {wanted[i].cluster : i \in DOMAIN wanted} # {} -> PageRefused("changed")
       [] OTHER -> [status |-> "shown", objects |-> all.objects, findings |-> all.findings,
                    next |-> [c \in {wanted[i].cluster : i \in more} |->
                                wanted[CHOOSE i \in more : wanted[i].cluster = c].answer.next]]

\* fleetCheckPage: a cluster of the cursor that is closed by now, or has no
\* connection, ends it before anybody is asked; those that are open are looked
\* up again to be asked.
FleetCheckPage(after, before, open, counts) ==
  LET connected == {before[i].cluster : i \in {j \in DOMAIN before : before[j].outcome # "unavailable"}}
      asked == [i \in DOMAIN open |->
                  [open[i] EXCEPT !.answer = IF open[i].cluster \in DOMAIN after
                                             THEN LocalPage(counts[open[i].cluster], after[open[i].cluster])
                                             ELSE PageRefused("unasked") @@ [error |-> FALSE]]]
  IN IF DOMAIN after \subseteq connected
     THEN MergePages(after, AskEach(asked, [objects |-> <<>>, findings |-> <<>>, next |-> 0, error |-> FALSE]))
     ELSE PageRefused("changed")

-----------------------------------------------------------------------------
(* The other pages: search hits, issues, images, releases, GitOps apps and    *)
(* the overview.                                                              *)

RowsOf(found) ==
  LET Stamp(one) == [i \in DOMAIN one.answer.rows |-> [row |-> one.answer.rows[i], cluster |-> one.cluster]]
      Add(rows, one) == rows \o Stamp(one)
  IN FoldLeft(Add, <<>>, found)

CutRows(rows, cap) == SubSeq(rows, 1, Min({cap, Len(rows)}))

\* mergeSearch, by name and then by cluster.
MergeSearch(found) ==
  LET Before(l, r) == l.row < r.row \/ (l.row = r.row /\ l.cluster < r.cluster)
      hits == SortSeq(RowsOf(found), Before)
  IN [rows |-> CutRows(hits, SearchCap),
      truncated |-> Len(hits) > SearchCap \/ \E i \in DOMAIN found : found[i].answer.dropped > 0,
      error |-> Troubled(found)]

\* mergeQueues: a row is its severity, and the worst come first.
MergeQueues(found) ==
  LET rows == SortSeq(RowsOf(found), LAMBDA l, r : l.row > r.row)
      dropped == FoldLeft(LAMBDA n, one : n + one.answer.dropped, 0, found)
  IN [rows |-> CutRows(rows, QueueCap), error |-> Troubled(found),
      dropped |-> dropped + IF Len(rows) > QueueCap THEN Len(rows) - QueueCap ELSE 0]

\* countImages, skewOf, byUse and mergeImages: a row is an image of one pod.
MergeImages(found) ==
  LET rows == RowsOf(found)
      images == {rows[i].row : i \in DOMAIN rows}
      On(image) == {rows[i].cluster : i \in {j \in DOMAIN rows : rows[j].row = image}}
      Uses(image) == Cardinality({j \in DOMAIN rows : rows[j].row = image})
      Tags(repo) == {image[2] : image \in {other \in images : other[1] = repo}}
      Before(l, r) ==
        \/ Cardinality(l.clusters) > Cardinality(r.clusters)
        \/ Cardinality(l.clusters) = Cardinality(r.clusters) /\ l.pods > r.pods
        \/ /\ Cardinality(l.clusters) = Cardinality(r.clusters) /\ l.pods = r.pods
           /\ l.image[1] * 10 + l.image[2] < r.image[1] * 10 + r.image[2]
      Line(image) == [image |-> image, clusters |-> On(image), pods |-> Uses(image),
                      skew |-> IF Cardinality(Tags(image[1])) < 2 THEN {} ELSE Tags(image[1])]
      lines == SortSeq(SetToSeq({Line(image) : image \in images}), Before)
  IN [rows |-> CutRows(lines, ImageCap), total |-> Cardinality(images), truncated |-> Len(lines) > ImageCap,
      error |-> Troubled(found)]

\* markSkew and mergeReleases: a row is a chart and its version.
MergeReleases(found) ==
  LET rows == RowsOf(found)
      Versions(chart) == {rows[i].row[2] : i \in {j \in DOMAIN rows : rows[j].row[1] = chart}}
  IN [rows |-> [i \in DOMAIN rows |->
                  [release |-> rows[i], skew |-> IF Cardinality(Versions(rows[i].row[1])) < 2 THEN {}
                                                 ELSE Versions(rows[i].row[1])]],
      error |-> Troubled(found)]

\* markSpread and mergeGitops: a row is an app, by the key of its kind and name.
MergeGitops(found) ==
  LET rows == RowsOf(found)
      On(app) == {rows[i].cluster : i \in {j \in DOMAIN rows : rows[j].row = app}}
  IN [rows |-> [i \in DOMAIN rows |-> [app |-> rows[i], spread |-> Cardinality(On(rows[i].row))]],
      error |-> Troubled(found)]

NoOverview == [known |-> FALSE, nodes |-> 0, usageKnown |-> FALSE, used |-> 0, error |-> FALSE]

\* addNodes and mergeOverviews: what is used is shown when all of it is known.
MergeOverviews(found) ==
  LET counted == SelectSeq(found, LAMBDA one : one.answer.known)
      metered == SelectSeq(counted, LAMBDA one : one.answer.usageKnown)
      whole == found # <<>> /\ \A i \in DOMAIN found : found[i].answer.usageKnown
  IN [known |-> counted # <<>>,
      nodes |-> FoldLeft(LAMBDA n, one : n + one.answer.nodes, 0, counted),
      usageKnown |-> whole,
      used |-> IF whole THEN FoldLeft(LAMBDA n, one : n + one.answer.used, 0, metered) ELSE 0,
      lines |-> {found[i].cluster : i \in DOMAIN found},
      error |-> Troubled(found)]

NoCounts == [counts |-> <<>>, error |-> FALSE]

\* mergeCounts: a kind that a cluster did not count has no number there.
MergeCounts(found) ==
  LET kinds == UNION {DOMAIN found[i].answer.counts : i \in DOMAIN found}
      On(kind) == {i \in DOMAIN found : kind \in DOMAIN found[i].answer.counts}
  IN [kinds |-> [k \in kinds |->
                   [total |-> MapThenSumSet(LAMBDA i : found[i].answer.counts[k], On(k)),
                    perCluster |-> [c \in {found[i].cluster : i \in On(k)} |->
                                      found[CHOOSE i \in On(k) : found[i].cluster = c].answer.counts[k]]]],
      error |-> Troubled(found)]

-----------------------------------------------------------------------------
(* The questions.                                                             *)

StoodDown == 9

\* A cluster's report of check 1, and of check 2 where it has that, in the
\* order of the cluster.
LocalReport(c, shape) ==
  LET page == LocalPage(IF shape.count = StoodDown THEN 0 ELSE shape.count, 0)
      first == [id |-> 1, skipped |-> shape.count = StoodDown,
                total |-> IF shape.count = StoodDown THEN 0 ELSE shape.count,
                baselined |-> shape.baseline # 0, findings |-> page.findings, next |-> page.next, partialOn |-> {}]
      second == [id |-> 2, skipped |-> shape.second = StoodDown, total |-> 0, baselined |-> shape.baseline # 0,
                 findings |-> <<>>, next |-> 0, partialOn |-> {}]
  IN [objects |-> page.objects, baseline |-> shape.baseline, error |-> shape.error,
      groups |-> CASE shape.second = 1 -> <<first>> [] c = 1 -> <<first, second>> [] OTHER -> <<second, first>>]

Fleet(shapes) ==
  [c \in DOMAIN shapes |-> [cluster |-> c, outcome |-> shapes[c].outcome, answer |-> LocalReport(c, shapes[c])]]

PlainShape == [outcome |-> "answers", count |-> 1, second |-> 0, baseline |-> 0, error |-> FALSE]

\* Every way two clusters answer, beside a third that is well, fails or stands
\* down.
AskFleetAudit ==
  /\ Ready
  /\ \E one, other \in [outcome : {"answers"}, count : {0, 2, 3, 5, StoodDown}, second : {0, 1, StoodDown},
                        baseline : 0..1, error : BOOLEAN]
                       \cup [outcome : Outcomes, count : {3}, second : {0}, baseline : {1}, error : {FALSE}],
        third \in {PlainShape, [PlainShape EXCEPT !.outcome = "silent"], [PlainShape EXCEPT !.count = StoodDown]} :
       LET shapes == <<one, other, third>>
       IN Put([about |-> "fleet.audit", shapes |-> shapes, open |-> Fleet(shapes)])

\* What is shown, as (cluster, object, finding).
ShownOn(objects, findings) ==
  [i \in DOMAIN findings |-> <<objects[findings[i].ref].cluster, objects[findings[i].ref].name, findings[i].key>>]

\* A reader opens a check of the fleet.
AskFleetPage ==
  /\ Ready
  /\ \E counts \in [1..3 -> {0, 2, 3, 5}] :
       LET open == Fleet([c \in 1..3 |-> [PlainShape EXCEPT !.count = counts[c]]])
           report == MergeReports(AskEach(open, NoReport))
           at == CHOOSE i \in DOMAIN report.groups : report.groups[i].id = 1
       IN Put([about |-> "fleet.page", counts |-> counts, status |-> "shown", next |-> report.cursors[at],
               shown |-> ShownOn(report.objects, report.groups[at].findings)])

\* The reader goes on with the cursor of the last page, while the second cluster
\* answers or fails, has been closed, or is closed between the two lookups.
TurnFleetPage ==
  /\ Asks("fleet.page") /\ DOMAIN ask.next # {}
  /\ \E was \in {"answers", "closed"}, outcome \in Outcomes \cup {"closed"} :
       LET Open(second) ==
             LET all == [c \in 1..3 |-> [cluster |-> c, answer |-> NoReport,
                                         outcome |-> IF c = 2 THEN second ELSE "answers"]]
             IN SelectSeq(all, LAMBDA one : one.outcome # "closed")
           page == FleetCheckPage(ask.next, Open(was), Open(outcome), ask.counts)
       IN Put([ask EXCEPT !.status = page.status,
                          !.shown = @ \o ShownOn(page.objects, page.findings),
                          !.next = IF page.status = "shown" THEN page.next ELSE @])

FewRows == SeqOf({<<1, 1>>, <<1, 2>>, <<2, 1>>}, 2)

AskFleetLists ==
  /\ Ready
  /\ \E one \in [outcome : Outcomes, rows : FewRows, dropped : 0..1, error : BOOLEAN],
        other \in [outcome : {"answers", "silent"}, rows : FewRows, dropped : {0}, error : {FALSE}] :
       Put([about |-> "fleet.lists", open |-> <<one, other>>])

AskFleetCounts ==
  /\ Ready
  /\ \E outcomes \in [1..2 -> Outcomes], known, usage \in [1..2 -> BOOLEAN],
        listed \in [1..2 -> SUBSET {"pods", "nodes"}], error \in BOOLEAN :
       Put([about |-> "fleet.counts", outcomes |-> outcomes, known |-> known, usage |-> usage, listed |-> listed,
            error |-> error])

-----------------------------------------------------------------------------
(* Properties.                                                                *)

\* However often clusters fail or are closed in between, a reader who follows the
\* cursors of a check over the fleet is shown no finding twice, each on the
\* object it is about, and has been shown all of every cluster when there is no
\* next page: no cursor moves past findings that nobody saw (fleetchecks.go).
FleetPagesReachAll ==
  Asks("fleet.page") =>
    LET Upto(c) == IF c \in DOMAIN ask.next THEN ask.next[c] ELSE ask.counts[c]
    IN /\ ToSet(ask.shown) = UNION {{<<c, FindingsAbout(k), k>> : k \in 1 .. Upto(c)} : c \in 1..3}
       /\ Len(ask.shown) = Cardinality(ToSet(ask.shown))

\* A cluster where a check stood down, that did not answer, or that has no
\* baseline where others have one, is named; the totals are those of the
\* clusters that ran the check (fleetchecks.go:92, 298).
StandDownsAreTold ==
  Asks("fleet.audit") =>
    LET report == MergeReports(AskEach(ask.open, NoReport))
        answering == {c \in 1..3 : ask.shapes[c].outcome = "answers"}
        stood == {c \in answering : ask.shapes[c].count = StoodDown}
        ran == answering \ stood
        groups == {report.groups[i] : i \in DOMAIN report.groups}
        first == {g \in groups : g.id = 1}
    IN /\ Cardinality({g.id : g \in groups}) = Cardinality(groups)
       /\ 1..3 \ answering \subseteq report.error
       /\ \A g \in first :
            /\ g.skipped <=> ran = {}
            /\ ran # {} => g.partialOn = stood
            /\ g.total = MapThenSumSet(LAMBDA c : ask.shapes[c].count, ran)
            /\ g.baselined /\ ran # {} => \A c \in ran : ask.shapes[c].baseline # 0
            /\ \A s \in ToSet(ShownOn(report.objects, g.findings)) : s[1] \in ran /\ s[2] = FindingsAbout(s[3])
       /\ report.baseline # 0 =>
            \A c \in 1..3 : c \notin answering \/ ask.shapes[c].baseline = 0 => c \in report.error

\* Merged lists say what they leave out: a cut is told and cuts the least
\* severe, every image, version and app counts though it is cut, and whoever did
\* not answer is named (fleet.go, fleetlists.go, fleetinventory.go, fleetgitops.go).
FleetListsAreTold ==
  Asks("fleet.lists") =>
    LET open == [c \in 1..2 |-> [cluster |-> c, outcome |-> ask.open[c].outcome, answer |-> ask.open[c]]]
        Flat(row) == row[1] * 10 + row[2]
        flat == [c \in 1..2 |-> [open[c] EXCEPT !.answer.rows = [i \in DOMAIN @ |-> Flat(@[i])]]]
        nothing == [rows |-> <<>>, dropped |-> 0, error |-> FALSE]
        found == AskEach(open, nothing)
        plain == AskEach(flat, nothing)
        answering == {c \in 1..2 : ask.open[c].outcome = "answers"}
        total == MapThenSumSet(LAMBDA c : Len(ask.open[c].rows), answering)
        held == UNION {ToSet(ask.open[c].rows) : c \in answering}
        quiet == {c \in 1..2 : c \notin answering \/ ask.open[c].error}
        search == MergeSearch(plain)
        queue == MergeQueues(plain)
        images == MergeImages(found)
        releases == MergeReleases(found)
        apps == MergeGitops(found)
    IN /\ search.truncated <=> Len(search.rows) < total + MapThenSumSet(LAMBDA c : ask.open[c].dropped, answering)
       /\ queue.dropped + Len(queue.rows) = total + MapThenSumSet(LAMBDA c : ask.open[c].dropped, answering)
       /\ \A c \in answering : \A i \in DOMAIN ask.open[c].rows :
            \/ Flat(ask.open[c].rows[i]) \in {queue.rows[j].row : j \in DOMAIN queue.rows}
            \/ \A j \in DOMAIN queue.rows : queue.rows[j].row >= Flat(ask.open[c].rows[i])
       /\ images.total = Cardinality(held) /\ (images.truncated <=> Len(images.rows) < Cardinality(held))
       /\ \A i \in DOMAIN images.rows :
            LET tags == {image[2] : image \in {other \in held : other[1] = images.rows[i].image[1]}}
            IN images.rows[i].skew = IF tags = {images.rows[i].image[2]} THEN {} ELSE tags
       /\ \A i, j \in DOMAIN releases.rows :
            LET one == releases.rows[i]
                other == releases.rows[j]
            IN one.release.row[1] = other.release.row[1] /\ one.release.row # other.release.row
                 => one.skew # {} /\ one.skew = other.skew
       /\ \A i \in DOMAIN apps.rows :
            apps.rows[i].spread = Cardinality({c \in answering : apps.rows[i].app.row \in ToSet(ask.open[c].rows)})
       /\ \A error \in {search.error, queue.error, images.error, releases.error, apps.error} : error = quiet

\* What is not known is not shown as nothing: a usage of the fleet is shown only
\* when every cluster's is known, a cluster that did not count a kind has no
\* number for it, and the totals are those of who answered
\* (fleetoverview.go, fleetinventory.go).
UnknownIsNotZero ==
  Asks("fleet.counts") =>
    LET Line(c) == [known |-> ask.known[c], nodes |-> IF ask.known[c] THEN c ELSE 0,
                    usageKnown |-> ask.known[c] /\ ask.usage[c], used |-> 10 * c, error |-> ask.error]
        Tally(c) == [counts |-> [k \in ask.listed[c] |-> c], error |-> ask.error]
        Open(c, answer) == [cluster |-> c, outcome |-> ask.outcomes[c], answer |-> answer]
        overview == MergeOverviews(AskEach([c \in 1..2 |-> Open(c, Line(c))], NoOverview))
        counts == MergeCounts(AskEach([c \in 1..2 |-> Open(c, Tally(c))], NoCounts))
        answering == {c \in 1..2 : ask.outcomes[c] = "answers"}
        metered == {c \in answering : ask.known[c] /\ ask.usage[c]}
    IN /\ overview.used = IF metered = 1..2 THEN 30 ELSE 0
       /\ overview.usageKnown <=> metered = 1..2
       /\ overview.nodes = MapThenSumSet(LAMBDA c : c, {c \in answering : ask.known[c]})
       /\ overview.lines = 1..2
       /\ \A k \in DOMAIN counts.kinds :
            /\ DOMAIN counts.kinds[k].perCluster = {c \in answering : k \in ask.listed[c]}
            /\ counts.kinds[k].total = MapThenSumSet(LAMBDA c : c, {c \in answering : k \in ask.listed[c]})
       /\ 1..2 \ answering \subseteq overview.error \cap counts.error
=============================================================================
