-------------------------------- MODULE Helm --------------------------------
(* Helm releases (internal/helm, internal/charts): how the stored revisions  *)
(* are listed and one of them chosen, the pages of a release's history, what *)
(* counts as outdated, and the search for charts.  A release's namespace and *)
(* name are small sets, a chart version a number; counts and limits stand    *)
(* for the objects of a listing.                                             *)
EXTENDS Question, Integers, Sequences, FiniteSets, FiniteSetsExt, SequencesExt

ListPage == 2       \* pageSize
MaxObjects == 4
HistoryPage == 2    \* historyPageSize
SearchLimit == 2

-----------------------------------------------------------------------------
(* Listing the storage objects.  `there` is the number of objects.           *)

\* A slip: a list that is full is not looked past.
RECURSIVE ListedUntilFull(_, _, _)
ListedUntilFull(there, got, limit) ==
  LET page == Min({ListPage, there - got}) IN
  IF page > limit - got THEN [items |-> limit, truncated |-> TRUE]
  ELSE IF got + page = limit \/ got + page = there THEN [items |-> got + page, truncated |-> FALSE]
  ELSE ListedUntilFull(there, got + page, limit)

\* listRefsLimited, a page at a time: what does not fit, or is still to come
\* when the list is full, makes it truncated.
RECURSIVE ListedFrom(_, _, _)
ListedFrom(there, got, limit) ==
  LET page == Min({ListPage, there - got}) IN
  IF page > limit - got THEN [items |-> limit, truncated |-> TRUE]
  ELSE IF got + page = there THEN [items |-> there, truncated |-> FALSE]
  ELSE IF got + page = limit THEN [items |-> limit, truncated |-> TRUE]
  ELSE ListedFrom(there, got + page, limit)

RefusedList == [items |-> 0, truncated |-> FALSE, denied |-> FALSE, refused |-> TRUE]

\* The namespaces one after the other, those that may not be listed left out,
\* until the list is full.
RECURSIVE EachNamespace(_, _, _)
EachNamespace(places, at, sofar) ==
  IF at > Len(places) THEN sofar
  ELSE IF ~ places[at].allowed THEN EachNamespace(places, at + 1, sofar)
  ELSE LET one == ListedFrom(places[at].objects, 0, MaxObjects)
           room == MaxObjects - sofar.items
           sum == sofar.items + one.items
       IN IF one.items > room THEN [sofar EXCEPT !.items = MaxObjects, !.truncated = TRUE]
          ELSE IF sum = MaxObjects
               THEN [sofar EXCEPT !.items = sum, !.truncated = @ \/ one.truncated \/ at < Len(places)]
          ELSE EachNamespace(places, at + 1, [sofar EXCEPT !.items = sum, !.truncated = @ \/ one.truncated])

Stored(places) == FoldSeq(LAMBDA p, n : p.objects + n, 0, places)

\* refsWithFallback: the whole cluster, or what is left of it namespace by
\* namespace when that is forbidden, with a note on how many allowed it.
RefsWithFallback(places, everywhere, namespaces) ==
  CASE everywhere ->
         [items |-> ListedFrom(Stored(places), 0, MaxObjects).items,
          truncated |-> ListedFrom(Stored(places), 0, MaxObjects).truncated, denied |-> FALSE, refused |-> FALSE]
    [] ~ everywhere /\ ~ namespaces -> RefusedList
    [] OTHER -> EachNamespace(places, 1, [items |-> 0, truncated |-> FALSE, denied |-> TRUE, refused |-> FALSE])

-----------------------------------------------------------------------------
(* Choosing one stored revision.  0 is a revision label that is no number.   *)

NoRef == [driver |-> "", place |-> 0, revision |-> 0]

NewerRef(a, b) == a.revision > b.revision \/ (a.revision = b.revision /\ a.driver = "configmap" /\ b.driver = "secret")

\* newerRef: the newest first.
Newest(refs) == SortSeq(refs, NewerRef)

\* oneRef: nothing, or a newest revision stored twice, is no answer.
OneRef(refs) ==
  LET sorted == Newest(refs) IN
  IF \/ refs = <<>>
     \/ sorted[1].revision < 1
     \/ Len(refs) > 1 /\ sorted[1].revision = sorted[2].revision
  THEN NoRef ELSE sorted[1]

\* A slip: a release is told apart by its name alone.
NewestByName(refs) ==
  {refs[i] : i \in {i \in DOMAIN refs : \A j \in DOMAIN refs :
                       refs[j].revision < refs[i].revision \/ (refs[j].revision = refs[i].revision /\ i =< j)}}

\* newestPerRelease: the first of the newest revisions in each namespace.
NewestPerRelease(refs) ==
  {refs[i] : i \in {i \in DOMAIN refs : \A j \in DOMAIN refs : refs[j].place = refs[i].place =>
                       refs[j].revision < refs[i].revision \/ (refs[j].revision = refs[i].revision /\ i =< j)}}

\* driverFor without the metadata client: the largest revision so far, given
\* up when another one equals it.
DriverFor(refs) ==
  LET Highest(n) == Max({refs[j].revision : j \in 1..n}) IN
  IF refs = <<>> \/ (\E i \in 2..Len(refs) : refs[i].revision = Highest(i - 1)) THEN ""
  ELSE (CHOOSE r \in ToSet(refs) : r.revision = Highest(Len(refs))).driver

Ambiguous(sorted) == \E i \in DOMAIN sorted : i > 1 /\ sorted[i].revision > 0 /\ sorted[i - 1].revision = sorted[i].revision

NoPage == [refs |-> <<>>, next |-> 0]

\* selectHistoryRefs: a page of revisions, newest first, and the revision the
\* next one begins with.
HistoryRefs(refs, through) ==
  LET sorted == Newest(refs)
      from == IF through < 1 THEN sorted[1].revision ELSE through
      eligible == SelectSeq(sorted, LAMBDA r : r.revision =< from /\ r.revision >= 1)
  IN IF OneRef(refs) = NoRef \/ Ambiguous(sorted) THEN NoPage
     ELSE IF Len(eligible) =< HistoryPage THEN [refs |-> eligible, next |-> 0]
     ELSE [refs |-> SubSeq(eligible, 1, HistoryPage), next |-> eligible[HistoryPage + 1].revision]

RECURSIVE WholeHistory(_, _, _)
WholeHistory(refs, through, pages) ==
  LET page == HistoryRefs(refs, through) IN
  IF page.next = 0 \/ pages = 0 THEN page.refs
  ELSE page.refs \o WholeHistory(refs, page.next, pages - 1)

-----------------------------------------------------------------------------
(* Outdated releases.  A version is a number, 0 none, and Odd one that is    *)
(* not a semantic version.                                                   *)

Odd == 9

Newer(current, latest) == latest # 0 /\ current # 0 /\ current # Odd /\ latest # Odd /\ latest > current

Pick(current, found) ==
  IF found = 0 THEN current ELSE IF current = 0 \/ Newer(current, found) THEN found ELSE current

\* sortVersions: what is no version or only a prerelease is left out.
Sorted(raw) == SortSeq(SelectSeq(raw, LAMBDA v : v.number # Odd /\ ~ v.pre), LAMBDA a, b : a.number > b.number)

LatestIn(raw) == IF Sorted(raw) = <<>> THEN 0 ELSE Sorted(raw)[1].number

LatestOf(repos) == FoldLeft(Pick, 0, [i \in DOMAIN repos |-> LatestIn(repos[i])])

Outdated(version, repos) == Newer(version, LatestOf(repos))

-----------------------------------------------------------------------------
(* Searching.  How a chart's name meets the query is all that is known of it; *)
(* `az` is its place in the alphabet.  A name that is the query comes before  *)
(* every name that only begins with it.                                       *)

Meets == {"is", "begins", "contains", "described", "not"}

\* charts.rank, and hitRank, which tells the exact name from a prefix.
RepoRank(chart) ==
  CASE chart.meets \in {"is", "begins"} -> 0
    [] chart.meets = "contains" -> 1
    [] chart.meets = "described" -> 2
    [] OTHER -> 3

HitRank(chart) ==
  CASE chart.meets = "is" -> 0
    [] chart.meets = "begins" -> 1
    [] chart.meets = "contains" -> 2
    [] OTHER -> 3

\* closerFirst.
Closer(a, b) == HitRank(a) < HitRank(b) \/ (HitRank(a) = HitRank(b) /\ a.az < b.az)

FirstOf(seq, limit) == SubSeq(seq, 1, Min({Len(seq), limit}))

MatchingCharts(charts) ==
  FirstOf(SortSeq(SelectSeq(charts, LAMBDA c : RepoRank(c) < 3),
                  LAMBDA a, b : RepoRank(a) < RepoRank(b) \/ (RepoRank(a) = RepoRank(b) /\ a.az < b.az)), SearchLimit)

\* SearchCharts: what each repository that answers found, closest first.
SearchCharts(repos) ==
  LET hits == FlattenSeq([i \in DOMAIN repos |-> IF repos[i].answers THEN MatchingCharts(repos[i].charts) ELSE <<>>])
      ranked == SortSeq(hits, Closer)
  IN [hits |-> FirstOf(ranked, SearchLimit), truncated |-> Len(hits) > SearchLimit,
      failed |-> \E i \in DOMAIN repos : ~ repos[i].answers]

-----------------------------------------------------------------------------
Place == [objects : {0, 1, 4, 5}, allowed : BOOLEAN]

AskListing ==
  /\ Ready
  /\ \E places \in BoundedSeq(Place, 2) \cup [1..3 -> {[objects |-> 1, allowed |-> TRUE], [objects |-> 2, allowed |-> TRUE]}],
        everywhere \in BOOLEAN, namespaces \in BOOLEAN :
       Put([about |-> "helm list", places |-> places, everywhere |-> everywhere, namespaces |-> namespaces])

Refs == [driver : {"secret", "configmap"}, place : {1}, revision : 0..4]

AskRevisions ==
  /\ Ready
  /\ \E refs \in BoundedSeq(Refs, 3) \cup {<<[driver |-> "secret", place |-> 1, revision |-> 4]>> \o s :
                                           s \in [1..3 -> {r \in Refs : r.driver = "secret"}]},
        other \in {<<>>, <<[driver |-> "secret", place |-> 2, revision |-> 3]>>} :
       Put([about |-> "helm refs", refs |-> refs, other |-> other])

Version == [number : {1, 2, 3, Odd}, pre : BOOLEAN]

AskOutdated ==
  /\ Ready
  /\ \E version \in {0, 1, 2, Odd}, one \in BoundedSeq(Version, 2), two \in BoundedSeq(Version, 1) :
       Put([about |-> "helm latest", version |-> version, repos |-> <<one, two>>])

Charts == {c \in [meets : Meets, az : 1..4] : /\ c.meets = "is" <=> c.az = 2
                                              /\ c.meets = "begins" => c.az > 2}

AskSearch ==
  /\ Ready
  /\ \E one \in BoundedSeq(Charts, 2) \cup [1..3 -> {c \in Charts : c.meets \in {"is", "begins"}}],
        two \in BoundedSeq(Charts, 1), answers \in BOOLEAN :
       /\ \A i, j \in DOMAIN one : i # j => one[i] # one[j]
       /\ Put([about |-> "helm search", repos |-> <<[answers |-> TRUE, charts |-> one], [answers |-> answers, charts |-> two]>>])

\* A list that leaves out an object it may read says so, and one that has
\* them all does not (listRefsLimited, refsWithFallback).
ShortListsSaySo ==
  Asks("helm list") =>
    LET got == RefsWithFallback(ask.places, ask.everywhere, ask.namespaces)
        mine == SelectSeq(ask.places, LAMBDA p : ask.everywhere \/ p.allowed)
    IN ~ got.refused =>
       /\ got.items < Stored(mine) => got.truncated
       /\ got.items = Stored(ask.places) /\ Len(ask.places) < 2 => ~ got.truncated
       /\ got.items < Stored(ask.places) => got.truncated \/ got.denied

\* When the details of a release can be shown, the list shows that revision
\* of it, and no other namespace's release of the same name hides it
\* (oneRef, newestPerRelease).
ListAndDetailAgree ==
  Asks("helm refs") =>
    LET one == OneRef(ask.refs) IN one # NoRef => one \in NewestPerRelease(ask.refs \o ask.other)

\* A rollback, an uninstall or an upgrade goes to the driver that holds the
\* revision that is shown, with and without the metadata client, or is
\* refused (driverFor, latestRef).
ActsOnWhatIsShown ==
  Asks("helm refs") /\ DriverFor(ask.refs) # "" /\ OneRef(ask.refs) # NoRef => DriverFor(ask.refs) = OneRef(ask.refs).driver

\* The pages of a history, followed to the end, are every stored revision
\* once, newest first; a revision that is stored twice makes no page at all
\* (selectHistoryRefs).
HistoryPagesAreWhole ==
  Asks("helm refs") =>
    LET whole == WholeHistory(ask.refs, 0, 4) IN
    whole # <<>> =>
      /\ ToSet(whole) = {r \in ToSet(ask.refs) : r.revision >= 1}
      /\ \A i \in DOMAIN whole : i > 1 => whole[i].revision < whole[i - 1].revision

\* A release is outdated exactly when some repository has a newer version
\* that is a release (addLatest, pick, sortVersions).
OutdatedMeansNewer ==
  Asks("helm latest") =>
    (Outdated(ask.version, ask.repos) <=>
      /\ ask.version \notin {0, Odd}
      /\ \E repo \in ToSet(ask.repos) : \E v \in ToSet(repo) : v.number # Odd /\ ~ v.pre /\ v.number > ask.version)

\* A chart that is named exactly as the query comes first, wherever it is and
\* however many others there are (matching, closerFirst).
ExactNameComesFirst ==
  Asks("helm search") =>
    ((\E repo \in ToSet(ask.repos) : repo.answers /\ \E c \in ToSet(repo.charts) : c.meets = "is")
       => LET hits == SearchCharts(ask.repos).hits IN hits # <<>> /\ hits[1].meets = "is")

=============================================================================
