--------------------------------- MODULE Mcp ---------------------------------
(* The MCP server's answers (internal/mcp): which tools it offers, how a     *)
(* message is answered, how a kind is resolved, how answers are cut short    *)
(* and counted, and what is redacted.                                        *)
EXTENDS Question, Integers, Sequences, FiniteSets, FiniteSetsExt, SequencesExt

-----------------------------------------------------------------------------
(* Tools and messages.                                                       *)

WritesAllowed(server) == server.allowWrite /\ ~ server.protected

\* toolFor.
ToolFor(server, tool) == tool.known /\ (tool.writes => WritesAllowed(server))

\* cards.
ToolCards(server, tools) == {t \in tools : t.known /\ (t.writes => WritesAllowed(server))}

NoReply == [id |-> "none", error |-> FALSE]

\* Handle and dispatch, within answerSafely.
Answer(message) ==
  CASE ~ message.json -> [id |-> "null", error |-> TRUE]
    [] message.json /\ ~ message.rpc -> [id |-> IF message.id = "absent" THEN "null" ELSE message.id, error |-> TRUE]
    [] message.json /\ message.rpc /\ message.id = "object" -> [id |-> "null", error |-> TRUE]
    [] message.json /\ message.rpc /\ message.id = "absent" -> NoReply
    [] OTHER -> [id |-> message.id, error |-> message.panics \/ ~ message.known]

-----------------------------------------------------------------------------
(* Arguments.                                                                *)

NoKind == [name |-> 0, group |-> 0]

\* resolve: exactly one, or the groups are named.
ResolveKind(catalog, name, group) ==
  LET found == {d \in catalog : d.name = name /\ group \in {0, d.group}}
  IN IF Cardinality(found) = 1 THEN CHOOSE d \in found : TRUE ELSE NoKind

DefaultRows == 1
MaxRows == 2

\* limit: what is asked for, when it is a number of rows, up to a maximum.
LimitOf(asked) == IF asked =< 0 THEN DefaultRows ELSE Min({asked, MaxRows})

-----------------------------------------------------------------------------
(* Answers.                                                                  *)

Shown(n, asked) == Min({n, LimitOf(asked)})
Cut(rows, asked) == SubSeq(rows, 1, Shown(Len(rows), asked))

\* A slip: the events are cut before they are told apart.
EventsCutFirst(events, asked) ==
  LET reasons == {Cut(events, asked)[i].reason : i \in DOMAIN Cut(events, asked)}
  IN [rows |-> reasons, total |-> Cardinality(reasons),
      count |-> [r \in reasons |-> FoldLeft(LAMBDA n, e : IF e.reason = r THEN n + e.count ELSE n, 0, Cut(events, asked))]]

\* dedupeEvents: one row for a reason and message, their counts together.
DedupedEvents(events, asked) ==
  LET firsts == SelectSeq([i \in DOMAIN events |-> i], LAMBDA i : \A j \in 1..(i - 1) : events[j].reason # events[i].reason)
      rows == Cut(firsts, asked)
  IN [rows |-> {events[rows[i]].reason : i \in DOMAIN rows}, total |-> Len(firsts),
      count |-> [r \in {events[i].reason : i \in ToSet(firsts)} |->
                   FoldLeft(LAMBDA n, e : IF e.reason = r THEN n + e.count ELSE n, 0, events)]]

\* audit: what did not fit, or was not in the report, makes it truncated.
AuditAnswer(groups, only, asked) ==
  LET kept == SelectSeq(groups, LAMBDA g : only \in {0, g.id})
      rows == FoldLeft(LAMBDA n, g : n + g.found, 0, kept)
  IN [returned |-> Shown(rows, asked), truncated |-> rows > LimitOf(asked) \/ (\E i \in DOMAIN kept : kept[i].truncated),
      incomplete |-> {kept[i].id : i \in {i \in DOMAIN kept : kept[i].partial}}]

\* issues: what is held back is counted.
IssuesAnswer(queued, dropped, asked) == [rows |-> Shown(queued, asked), dropped |-> dropped + queued - Shown(queued, asked)]

\* listResources: the total is that of every namespace.
ListAnswer(items, place, asked) ==
  LET mine == SelectSeq(items, LAMBDA i : place \in {0, i}) IN [total |-> Len(items), returned |-> Shown(Len(mine), asked)]

\* top: the heaviest pods of the namespace first, out of all of them.
TopAnswer(pods, place, asked) ==
  LET mine == SortSeq(SelectSeq(pods, LAMBDA p : place \in {0, p}), LAMBDA a, b : a > b)
  IN [total |-> Len(mine), rows |-> Cut(mine, asked)]

-----------------------------------------------------------------------------
(* Redaction.  A document is a tree: a value, or a map from keys to trees.   *)
(* `hidden` is what is put in the place of a secret, `token` what scrub      *)
(* finds in a text by its looks, `plain` what it does not.                   *)

Text(v) == [t |-> "text", v |-> v]
Doc(f) == [t |-> "doc", f |-> f]
SecretKeys == {"password"}

\* scrub, of a value that stands by itself.
Scrubbed(v) == IF v = "token" THEN "hidden" ELSE v

RECURSIVE RedactTree(_)
RedactTree(doc) ==
  IF doc.t = "text" THEN Text(Scrubbed(doc.v))
  ELSE Doc([k \in DOMAIN doc.f |-> IF k \in SecretKeys THEN Text("hidden") ELSE RedactTree(doc.f[k])])

\* redactYAML and the scrub of what it renders.
Redact(doc) == RedactTree(doc)

\* safeYAML: the document of a Secret is withheld.
SafeYaml(kind, doc) == IF kind = "Secret" THEN Text("") ELSE Redact(doc)

\* podLogs, workloadLogs and helmRelease: raw output only when asked for.
RawOutput(server, lines) == IF server.unsafe THEN {Scrubbed(l) : l \in lines} ELSE {}

-----------------------------------------------------------------------------
AskMcp ==
  /\ Ready
  /\ \/ \E server \in [allowWrite : BOOLEAN, protected : BOOLEAN, unsafe : BOOLEAN], tools \in SUBSET [known : BOOLEAN, writes : BOOLEAN],
           lines \in SUBSET {"token", "plain"} :
          Put([about |-> "tools", server |-> server, tools |-> tools, lines |-> lines])
     \/ \E message \in [json : BOOLEAN, rpc : BOOLEAN, known : BOOLEAN, panics : BOOLEAN, id : {"absent", "null", "value", "object"}] :
          Put([about |-> "message", message |-> message])
     \/ \E catalog \in SUBSET [name : 1..2, group : 1..2], name \in 1..2, group \in 0..2 :
          Put([about |-> "kind", catalog |-> catalog, name |-> name, group |-> group])

AskAnswers ==
  /\ Ready
  /\ \/ \E events \in BoundedSeq([reason : 1..2, count : 1..2], 3), asked \in 0..3 : Put([about |-> "events", events |-> events, asked |-> asked])
     \/ \E groups \in BoundedSeq([id : 1..2, found : 0..2, truncated : BOOLEAN, partial : BOOLEAN], 2), only \in 0..2, asked \in {-1, 1, 3} :
          Put([about |-> "audit answer", groups |-> groups, only |-> only, asked |-> asked])
     \/ \E queued \in 0..3, dropped \in 0..1, items \in BoundedSeq(1..2, 3), place \in 0..2, asked \in 0..3 :
          Put([about |-> "lists", queued |-> queued, dropped |-> dropped, items |-> items, place |-> place, asked |-> asked])

Texts == {Text(v) : v \in {"token", "plain", "secret"}}
Inner == Texts \cup {Doc(f) : f \in UNION {[keys -> Texts] : keys \in SUBSET {"password", "note"}}}
Outer == {Doc(f) : f \in UNION {[keys -> Inner] : keys \in (SUBSET {"password", "note"}) \ {{}}}}

\* A value that is a secret stands under a key that says so.
RECURSIVE Honest(_, _)
Honest(doc, under) ==
  IF doc.t = "text" THEN doc.v = "secret" => under
  ELSE \A k \in DOMAIN doc.f : Honest(doc.f[k], under \/ k \in SecretKeys)

AskRedact ==
  /\ Ready
  /\ \E doc \in Outer, kind \in {"Secret", "ConfigMap"} :
       (Honest(doc, FALSE) \/ kind = "Secret") /\ Put([about |-> "redact", doc |-> doc, kind |-> kind])

-----------------------------------------------------------------------------
\* The tools that are listed are those a call finds, and while the cluster is
\* protected neither holds one that writes.
ListedIsCallable ==
  Asks("tools") =>
    /\ {t \in ask.tools : ToolFor(ask.server, t)} = ToolCards(ask.server, ask.tools)
    /\ ask.server.protected => \A t \in ask.tools : ToolFor(ask.server, t) => ~ t.writes
    /\ "token" \notin RawOutput(ask.server, ask.lines) /\ (~ ask.server.unsafe => RawOutput(ask.server, ask.lines) = {})

\* Every well-formed call is answered under its own id, one that panics too,
\* and a notification is not answered at all.
AnsweredUnderItsId ==
  Asks("message") =>
    LET m == ask.message IN
    m.json /\ m.rpc =>
      CASE m.id = "absent" -> Answer(m) = NoReply
        [] m.id = "object" -> Answer(m).error
        [] OTHER -> Answer(m).id = m.id /\ (Answer(m).error <=> m.panics \/ ~ m.known)

\* A name that two groups serve is never taken for one of them.
NoAmbiguousKind ==
  Asks("kind") =>
    LET got == ResolveKind(ask.catalog, ask.name, ask.group) IN
    got # NoKind => \A d \in ask.catalog : d.name = ask.name /\ ask.group \in {0, d.group} => d = got

\* The events of one reason are one row that counts all of them, and the total
\* is that of the reasons.
EventsAreCounted ==
  Asks("events") =>
    LET got == DedupedEvents(ask.events, ask.asked)
        reasons == {ask.events[i].reason : i \in DOMAIN ask.events}
    IN /\ got.total = Cardinality(reasons)
       /\ \A r \in got.rows : got.count[r] = FoldLeft(LAMBDA n, e : IF e.reason = r THEN n + e.count ELSE n, 0, ask.events)

\* An audit, a queue of issues or a list that is cut short says so.
CutAnswersSaySo ==
  /\ Asks("audit answer") =>
       LET got == AuditAnswer(ask.groups, ask.only, ask.asked)
           mine == SelectSeq(ask.groups, LAMBDA g : ask.only \in {0, g.id})
       IN FoldLeft(LAMBDA n, g : n + g.found, 0, mine) > got.returned => got.truncated
  /\ Asks("lists") =>
       /\ IssuesAnswer(ask.queued, ask.dropped, ask.asked).dropped + IssuesAnswer(ask.queued, ask.dropped, ask.asked).rows = ask.queued + ask.dropped
       /\ LET got == ListAnswer(ask.items, ask.place, ask.asked) IN
          Len(SelectSeq(ask.items, LAMBDA i : ask.place \in {0, i})) > got.returned => got.total > got.returned
       /\ LET got == TopAnswer(ask.items, ask.place, ask.asked) IN
          Len(SelectSeq(ask.items, LAMBDA i : ask.place \in {0, i})) > Len(got.rows) => got.total > Len(got.rows)

RECURSIVE Leaks(_)
Leaks(doc) == IF doc.t = "text" THEN doc.v \in {"token", "secret"} ELSE \E k \in DOMAIN doc.f : Leaks(doc.f[k])

\* No document that is handed out holds a value that stands under a secret's
\* key, at any depth, or looks like a token.
NoSecretLeaves == Asks("redact") => ~ Leaks(SafeYaml(ask.kind, ask.doc))
=============================================================================
