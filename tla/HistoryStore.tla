---------------------------- MODULE HistoryStore ----------------------------
(* The history of what spinoza did and of what it saw change, as it is read, *)
(* exported, trimmed and cleared (internal/store, internal/server/history.go *)
(* and historyexport.go).  A table is a sequence of rows, the row at i has   *)
(* id i.  A stamp is in milliseconds, two of which make a second: a page is  *)
(* cut by the former and merged by the latter.                               *)
EXTENDS Question, Integers, Sequences, FiniteSets, FiniteSetsExt, SequencesExt

DefaultPage == 2
LargestPage == 3

PageLimit(asked) == IF asked = 0 THEN DefaultPage ELSE Min({asked, LargestPage})

Whole == "fleet"

HistoryRow(table, i, source) == [source |-> source, id |-> i, ms |-> table[i].ms, on |-> table[i].on]

InScope(row, scope) == scope = Whole \/ row.on = scope

Older(row, cursor) == row.ms < cursor.ms \/ (row.ms = cursor.ms /\ row.id < cursor.id)

\* selectAudit and selectChanges: the rows of the scope after the row the
\* cursor names, newest first.  A cursor that names no row of the scope
\* finds nothing.
Selected(table, source, scope, after) ==
  LET rows == {HistoryRow(table, i, source) : i \in DOMAIN table}
      found == {r \in rows : /\ InScope(r, scope)
                             /\ after = 0 \/ \E c \in rows : c.id = after /\ InScope(c, scope) /\ Older(r, c)}
  IN SortSeq(SetToSeq(found), LAMBDA a, b : Older(b, a))

\* lastOf: the cursor moves to the last row of its source, or stays.
LastOf(rows, source, was) ==
  LET mine == SelectInSeq(Reverse(rows), LAMBDA r : r.source = source)
  IN IF mine = 0 THEN was ELSE Reverse(rows)[mine].id

\* Recent and Changed ask for one row more than the page has.
OneSource(table, source, scope, limit, after) ==
  LET rows == Selected(table, source, scope, after)
      page == SubSeq(rows, 1, Min({Len(rows), limit}))
  IN [rows |-> page, more |-> Len(rows) > limit, next |-> LastOf(page, source, after)]

Second(ms) == ms \div 2

NewestFirst(a, b) ==
  \/ Second(a.ms) > Second(b.ms)
  \/ Second(a.ms) = Second(b.ms) /\ a.source = "action" /\ b.source = "change"
  \/ Second(a.ms) = Second(b.ms) /\ a.source = b.source /\ a.id > b.id

\* A slip: the cursors follow what was read and not what is shown.
MergedByRead(actions, changes, from, limit) ==
  LET rows == SortSeq(actions.rows \o changes.rows, NewestFirst)
      cut == SubSeq(rows, 1, Min({Len(rows), limit}))
  IN [rows |-> cut, more |-> actions.more \/ changes.more \/ Len(rows) > limit,
      next |-> [actions |-> actions.next, changes |-> changes.next]]

\* Two pages make one, as long as either, and each cursor moves only past
\* what is on it.
Merged(actions, changes, from, limit) ==
  LET rows == SortSeq(actions.rows \o changes.rows, NewestFirst)
      cut == SubSeq(rows, 1, Min({Len(rows), limit}))
  IN [rows |-> cut, more |-> actions.more \/ changes.more \/ Len(rows) > limit,
      next |-> [actions |-> LastOf(cut, "action", from.actions), changes |-> LastOf(cut, "change", from.changes)]]

HistoryFrom(past, source, scope, asked, from) ==
  LET limit == PageLimit(asked)
      actions == OneSource(past.actions, "action", scope, limit, from.actions)
      changes == OneSource(past.changes, "change", scope, limit, from.changes)
  IN CASE source = "action" -> [actions EXCEPT !.next = [actions |-> actions.next, changes |-> 0]]
       [] source = "change" -> [changes EXCEPT !.next = [actions |-> 0, changes |-> changes.next]]
       [] OTHER -> Merged(actions, changes, from, limit)

Beginning == [actions |-> 0, changes |-> 0]

\* eachHistoryPage: pages of the export's size until nothing is left, the
\* limit is reached or the cursors stand still.  `most` is how many rows may
\* still be handed over.
RECURSIVE Exported(_, _, _, _, _)
Exported(past, source, scope, most, from) ==
  LET page == HistoryFrom(past, source, scope, Min({most, LargestPage}), from)
      rows == SubSeq(page.rows, 1, Min({Len(page.rows), most}))
  IN IF rows = <<>> THEN <<>>
     ELSE IF ~ page.more \/ Len(rows) >= most \/ page.next = from THEN rows
     ELSE rows \o Exported(past, source, scope, most - Len(rows), page.next)

\* A reader who follows the cursors of the page he was given.
RECURSIVE Paged(_, _, _, _, _)
Paged(past, source, scope, asked, from) ==
  LET page == HistoryFrom(past, source, scope, asked, from)
  IN IF ~ page.more \/ page.next = from THEN page.rows
     ELSE page.rows \o Paged(past, source, scope, asked, page.next)

\* capRows: the id behind the newest `most` ids, and all below it, go.
Capped(rows, most) ==
  IF Cardinality(rows) =< most THEN rows
  ELSE LET cut == CHOOSE i \in rows : Cardinality({j \in rows : j > i}) = most
       IN {i \in rows : i > cut}

\* trim: what is too old goes first, then what is too much; 0 is no limit.
Trimmed(table, keep) ==
  LET young == {i \in DOMAIN table : keep.days = 0 \/ table[i].ms >= keep.days}
  IN IF keep.rows = 0 THEN young ELSE Capped(young, keep.rows)

\* clearHistory: with no cluster open nothing is cleared.
Cleared(table, on) == IF on = "" THEN DOMAIN table ELSE {i \in DOMAIN table : table[i].on # on}

-----------------------------------------------------------------------------
Table(stamps) == [i \in DOMAIN stamps |-> [ms |-> stamps[i], on |-> IF i = 2 THEN "b" ELSE "a"]]

Stamps == BoundedSeq(0..3, 3)

AskStore ==
  /\ Ready
  /\ \E acted \in Stamps, seen \in BoundedSeq(1..3, 2), source \in {"all", "action", "change"}, scope \in {Whole, "a"}, asked \in {0, 1, 3} :
       Put([about |-> "history", past |-> [actions |-> Table(acted), changes |-> Table(seen)], source |-> source,
            scope |-> scope, asked |-> asked])

AskTrim ==
  /\ Ready
  /\ \E stamps \in Stamps, days \in 0..2, rows \in 0..2, on \in {"", "a", "b"} :
       Put([about |-> "trim", table |-> Table(stamps), keep |-> [days |-> days, rows |-> rows], on |-> on])

Everything(past, source, scope) ==
  {r \in {HistoryRow(past.actions, i, "action") : i \in DOMAIN past.actions} : source # "change" /\ InScope(r, scope)}
  \cup {r \in {HistoryRow(past.changes, i, "change") : i \in DOMAIN past.changes} : source # "action" /\ InScope(r, scope)}

OnceEach(rows, wanted) == ToSet(rows) = wanted /\ Len(rows) = Cardinality(wanted)

InOrder(table) == \A i, j \in DOMAIN table : i < j => table[i].ms =< table[j].ms

\* Whoever follows the cursors, and every export, gets each row exactly once:
\* of one source whatever the stamps are, of both when rows were written in
\* the order of their stamps (merged, lastOf, eachHistoryPage).
HistoryPagesSkipNothing ==
  Asks("history") /\ (ask.source # "all" \/ (InOrder(ask.past.actions) /\ InOrder(ask.past.changes))) =>
    LET wanted == Everything(ask.past, ask.source, ask.scope) IN
    /\ OnceEach(Paged(ask.past, ask.source, ask.scope, ask.asked, Beginning), wanted)
    /\ OnceEach(Exported(ask.past, ask.source, ask.scope, 6, Beginning), wanted)

\* Trimming keeps the newest rows and only those: no more than may be kept,
\* and a row goes only when it is too old or enough newer ones stay.
TrimKeepsNewest ==
  Asks("trim") =>
    LET left == Trimmed(ask.table, ask.keep) IN
    /\ ask.keep.rows # 0 => Cardinality(left) =< ask.keep.rows
    /\ \A i \in DOMAIN ask.table \ left :
         \/ ask.keep.days # 0 /\ ask.table[i].ms < ask.keep.days
         \/ ask.keep.rows # 0 /\ Cardinality({j \in left : j > i}) = ask.keep.rows

\* Clearing the history of one cluster leaves every row of the others, and
\* with no cluster open leaves every row.
ClearingIsOneCluster ==
  Asks("trim") => \A i \in DOMAIN ask.table : i \in Cleared(ask.table, ask.on) <=> ask.table[i].on # ask.on
=============================================================================
