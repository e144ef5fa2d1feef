-------------------------------- MODULE Audit -------------------------------
(* How the audit turns findings into a report: what a filter keeps, what a  *)
(* mute hides, what is new against a baseline, how a group is cut in pages, *)
(* when a cached survey may be reused, what reads back from an exported     *)
(* report (internal/checks: checks.go, filter.go, mute.go, baseline.go,     *)
(* blast.go, surveycache.go, cis.go, sarif.go, imports.go).                 *)
(*                                                                          *)
(* A finding is about an object of a namespace; the parts of its sort key   *)
(* are digits, so that the key is a number ordered like the string.         *)
EXTENDS Question, Naturals, Sequences, FiniteSets, SequencesExt

Low == 0
Medium == 1
High == 2
Severities == Low .. High
NoSeverity == 9
AnySpace == 9

Min2(a, b) == IF a < b THEN a ELSE b

\* The weight of a finding: its check's, less two in a system namespace, less
\* one when a package manager owns the object, one more when it is replicated.
Blast(base, f) ==
  LET spread == IF f.many THEN 1 ELSE 0
      less == CASE f.origin = "system" -> 2 [] f.origin = "packaged" -> 1 [] OTHER -> 0
  IN IF base + spread < less THEN Low ELSE Min2(High, base + spread - less)

\* The most that a finding of a check can weigh.
HighestWeight(base) == Min2(High, base + 1)

OriginRank(o) == CASE o = "packaged" -> 1 [] o = "system" -> 2 [] OTHER -> 0

FindingKey(c, f) ==
  ((((High - Blast(c.sev, f)) * 10 + OriginRank(f.origin)) * 10 + f.space) * 10 + f.name) * 10
  + f.container + 1

Ranked(c, fs) == SortSeq(fs, LAMBDA f, g : FindingKey(c, f) < FindingKey(c, g))

-----------------------------------------------------------------------------
(* Pages.  The cursor is the key of the last finding shown; 0 opens.        *)

BeforeCursor(key, after) == key =< after

\* One page of at most `limit` findings after the cursor, and the cursor of
\* the next one, 0 when nothing is left.
Page(c, all, after, limit) ==
  LET rest == SelectSeq(all, LAMBDA f : ~ BeforeCursor(FindingKey(c, f), after))
      n == Min2(limit, Len(rest))
  IN [out |-> SubSeq(rest, 1, n),
      next |-> IF Len(rest) > limit THEN FindingKey(c, rest[n]) ELSE 0]

\* Everything a reader sees who follows the cursors, at most `limit` a page.
Walk(c, all, limit) ==
  LET pages[n \in 0 .. Len(all)] ==
        IF n = 0 THEN [out |-> <<>>, at |-> Page(c, all, 0, limit)]
        ELSE LET was == pages[n - 1]
                 next == was.at.next
             IN [out |-> was.out \o was.at.out,
                 at |-> IF next = 0 THEN [out |-> <<>>, next |-> 0]
                        ELSE Page(c, all, next, limit)]
      last == pages[Len(all)]
  IN last.out \o last.at.out

-----------------------------------------------------------------------------
(* Filters, mutes and baselines.                                            *)

\* What two findings of one check have in common when they are "the same":
\* an object whose name was generated goes by the name it was generated from.
Identity(f) == <<f.space, IF f.generated THEN 0 ELSE f.name, f.container>>

Identities(fs) == {Identity(fs[i]) : i \in DOMAIN fs}

SevereEnough(keep, sev) == keep.min = NoSeverity \/ sev >= keep.min

\* A check is run when one of its findings could be severe enough.
Wants(keep, c) == keep.min = NoSeverity \/ HighestWeight(c.sev) >= keep.min

Keeps(keep, c, f) ==
  /\ f.space \notin keep.skip
  /\ SevereEnough(keep, Blast(c.sev, f))
  /\ keep.space \in {AnySpace, f.space}

\* A mute names an object, a namespace or the whole check.
Silences(mute, f) ==
  CASE mute.scope = "object" -> mute.space = f.space /\ mute.name = f.name
    [] mute.scope = "namespace" -> mute.space = f.space
    [] OTHER -> TRUE

Narrows(keep) ==
  \/ keep.min # NoSeverity
  \/ keep.space # AnySpace
  \/ keep.skip # {}
  \/ keep.onlyNew

\* The baseline of a scan: what every check that could run had found,
\* whatever the filter of the one who took it.
Fingerprint(c, fs) ==
  [covers |-> ~ c.usage, keys |-> Identities(fs), count |-> Len(fs)]

\* A slip: something is gone only when there are fewer findings than before.
GoneWhenFewer(base, fs) == IF base.count =< Len(fs) THEN {} ELSE base.keys \ Identities(fs)

Gone(base, fs) == base.keys \ Identities(fs)

\* The group of one check: what is shown, and the counts beside it.
Matching(c, fs, keep, base) ==
  LET kept == SelectSeq(Ranked(c, fs), LAMBDA f : Keeps(keep, c, f))
      Muted(f) == f.convention \/ \E m \in keep.mutes : Silences(m, f)
      Fresh(f) == ~ c.usage /\ base.covers /\ Identity(f) \notin base.keys
      visible == SelectSeq(kept, LAMBDA f : Muted(f) => keep.showMuted)
      shown == SelectSeq(visible, LAMBDA f : keep.onlyNew => Fresh(f))
  IN [out |-> shown,
      fresh |-> Len(SelectSeq(visible, Fresh)),
      muted |-> Len(SelectSeq(kept, Muted)),
      fixed |-> IF Narrows(keep) \/ ~ base.covers \/ c.usage \/ base.count <= Len(kept)
                THEN 0 ELSE base.count - Len(kept),
      gone |-> IF Narrows(keep) \/ ~ base.covers \/ c.usage THEN {}
               ELSE Gone(base, kept)]

-----------------------------------------------------------------------------
(* What a survey reads, and under which key it is kept for two seconds.     *)

Corpus(keep) == \E id \in keep.ids : id \in keep.needEvery

\* The kinds a survey reads: the workloads and facts, the context of the
\* whole cluster, the custom kinds when a check that needs them all is run,
\* or every kind discovered.
SurveyKinds(keep) ==
  IF keep.everyKind THEN keep.kinds
  ELSE {"workloads", "facts"} \cup
       (IF keep.whole THEN {"context"} ELSE {}) \cup
       (IF keep.whole /\ Corpus(keep) THEN {"custom"} ELSE {})

SurveyKey(keep) == <<keep.whole, keep.everyKind, keep.kinds, keep.ids>>

-----------------------------------------------------------------------------
(* Export and import.  An object's name in a report is the path of the      *)
(* parts it has; a reader takes three parts for kind, namespace and name,   *)
(* two for kind and name.                                                   *)
None == "none"

SarifPath(o) == SelectSeq(<<o.kind, o.space, o.name>>, LAMBDA part : part # None)

KindAndName(path) == [kind |-> path[1], space |-> None, name |-> path[2]]

FromQualifiedName(path) ==
  CASE Len(path) = 3 -> [kind |-> path[1], space |-> path[2], name |-> path[3]]
    [] Len(path) = 2 -> KindAndName(path)
    [] OTHER -> [kind |-> None, space |-> None, name |-> None]

SarifLevel(sev) == CASE sev = High -> "error" [] sev = Medium -> "warning" [] OTHER -> "note"

SeverityFromSarif(level) ==
  CASE level = "error" -> High [] level = "warning" -> Medium [] OTHER -> Low

\* Which of the objects the audit holds an imported finding is about: the one
\* of that kind, namespace and name, or, when the tool named no namespace, the
\* only one of that kind and name.
Candidates(held, o) == {h \in held : h.kind = o.kind /\ h.name = o.name}

Lookup(held, o) ==
  LET exact == {h \in held : h = o}
      loose == Candidates(held, o)
  IN IF exact # {} THEN exact
     ELSE IF o.space = None /\ Cardinality(loose) = 1 THEN loose ELSE {}

-----------------------------------------------------------------------------
(* Questions.                                                               *)

Plain(s, n, k) == [space |-> s, name |-> n, container |-> k, origin |-> "own", many |-> FALSE,
                   convention |-> FALSE, generated |-> FALSE]

\* The objects a check reports on, each in one finding per container: a few
\* that differ in what the filters look at.
Sample == <<Plain(1, 1, 0), Plain(1, 1, 1), [Plain(1, 2, 0) EXCEPT !.origin = "packaged"],
            [Plain(2, 1, 0) EXCEPT !.many = TRUE], [Plain(2, 2, 0) EXCEPT !.generated = TRUE],
            [Plain(2, 1, 1) EXCEPT !.generated = TRUE, !.convention = TRUE]>>

Of(s) == SelectSeq(Sample, LAMBDA f : f \in s)

Check == [sev : Severities, usage : BOOLEAN]

Mutes == {[scope |-> "object", space |-> 1, name |-> 1], [scope |-> "namespace", space |-> 2, name |-> 0]}

Filter == [space : {AnySpace, 1}, skip : SUBSET {2}, min : {NoSeverity, Medium, High},
           onlyNew : BOOLEAN, showMuted : BOOLEAN, mutes : {{}, Mutes}]

\* An imported report or the warnings of an API server may hold several
\* findings with one key; `dup` repeats one of them.
AskPage ==
  Ready /\ \E c \in {[sev |-> Medium, usage |-> FALSE]}, s \in SUBSET Range(Sample), limit \in 1 .. 2, dup \in 0 .. 1 :
    /\ s # {}
    /\ Put([about |-> "audit.page", check |-> c, limit |-> limit, dup |-> dup,
            found |-> LET q == Of(s) IN IF dup = 1 THEN q \o <<q[1]>> ELSE q])

AskReport ==
  Ready /\ \E c \in Check, keep \in Filter, now \in SUBSET Range(Sample), was \in {Range(Sample), {Plain(1, 1, 0)}} :
    Put([about |-> "audit.report", check |-> c, keep |-> keep,
         found |-> Of(now), was |-> Of(was)])

AuditScope == [whole : BOOLEAN, everyKind : BOOLEAN, ids : SUBSET {"orphans", "probes"},
               needEvery : {{"orphans"}},
               kinds : {{"workloads", "facts"}, {"workloads", "facts", "context", "custom"}}]

AskSurvey ==
  Ready /\ \E k1, k2 \in AuditScope : Put([about |-> "audit.survey", first |-> k1, second |-> k2])

Described == [kind : {"Pod", "Role"}, space : {None, "a", "b"}, name : {"x", "y"}]

AskImport ==
  Ready /\ \E o \in Described, held \in SUBSET {h \in Described : (h.kind = "Pod") = (h.space # None)} :
    Put([about |-> "audit.import", object |-> o, held |-> held])

AskAudit == AskPage \/ AskReport \/ AskSurvey \/ AskImport

-----------------------------------------------------------------------------
(* Properties.                                                              *)

\* What a group's pages show, followed to the end.
Walked == Walk(ask.check, Ranked(ask.check, ask.found), ask.limit)

\* A reader who follows the cursors meets every object and container the check
\* found, in order, and none of them on two pages (page, checks.go).
PagesReachAll ==
  Asks("audit.page") =>
    /\ {FindingKey(ask.check, Walked[i]) : i \in DOMAIN Walked}
         = {FindingKey(ask.check, ask.found[i]) : i \in DOMAIN ask.found}
    /\ ask.dup = 0 => \A i, j \in DOMAIN Walked :
                        i < j => FindingKey(ask.check, Walked[i]) < FindingKey(ask.check, Walked[j])

\* A check is never left out of an audit when one of its findings is severe
\* enough for the reader, whatever its replicas and its owner make of it
\* (couldReach, filter.go).
NothingSevereSkipped ==
  Asks("audit.report") =>
    \A i \in DOMAIN ask.found :
      SevereEnough(ask.keep, Blast(ask.check.sev, ask.found[i])) => Wants(ask.keep, ask.check)

\* Against the baseline that was just taken nothing is new, fixed or gone,
\* whoever looks and through whatever filter (fixedSince, goneSince).
QuietAfterBaseline ==
  Asks("audit.report") =>
    LET r == Matching(ask.check, ask.found, ask.keep, Fingerprint(ask.check, ask.found))
    IN r.fresh = 0 /\ r.fixed = 0 /\ r.gone = {}

\* For a reader of the whole cluster, what is new and what is gone against an
\* older baseline is exactly the difference of the two scans, the muted
\* findings apart (matching, checks.go).
DifferenceIsTold ==
  Asks("audit.report") /\ ~ Narrows(ask.keep) /\ ~ ask.check.usage =>
    LET r == Matching(ask.check, ask.found, ask.keep, Fingerprint(ask.check, ask.was))
        was == Identities(ask.was)
    IN /\ r.gone = was \ Identities(ask.found)
       /\ ask.keep.showMuted =>
            r.fresh = Len(SelectSeq(ask.found, LAMBDA f : Identity(f) \notin was))

\* Two requests that share a cached survey would have read the same kinds
\* (surveyKey, surveycache.go).
SharedSurveyIsTheirs ==
  Asks("audit.survey") /\ SurveyKey(ask.first) = SurveyKey(ask.second) =>
    SurveyKinds(ask.first) = SurveyKinds(ask.second)

\* A finding exported as SARIF reads back as one about the same object with
\* the same severity (sarifPath and objectFromQualifiedName).
SarifRoundTrip ==
  /\ Asks("audit.import") => FromQualifiedName(SarifPath(ask.object)) = ask.object
  /\ Asks("audit.report") => SeverityFromSarif(SarifLevel(ask.check.sev)) = ask.check.sev

\* An imported finding is never pinned on an object of another namespace than
\* the one its tool named, and never on one of several (lookup, imports.go).
ImportedOnItsObject ==
  Asks("audit.import") =>
    LET found == Lookup(ask.held, ask.object)
    IN /\ Cardinality(found) =< 1
       /\ \A h \in found : h.kind = ask.object.kind /\ h.name = ask.object.name
                           /\ ask.object.space \in {None, h.space}
=============================================================================
