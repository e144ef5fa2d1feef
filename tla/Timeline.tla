------------------------------ MODULE Timeline ------------------------------
(***************************************************************************)
(* One recording of what changes on a cluster (internal/server/timeline.go *)
(* and internal/resources/timeline.go): informer handlers put changes in a *)
(* bounded queue, a writer stores them in batches, and what could not be   *)
(* queued or stored is counted in a gap that a later write tells of.       *)
(*                                                                         *)
(* Handlers stamp a change before they take noteMu, so changes reach the   *)
(* queue slightly out of order.  The store may refuse any write.  Pruning  *)
(* is the store's own business.                                            *)
(***************************************************************************)
EXTENDS Integers, Sequences, FiniteSets, SequencesExt, FiniteSetsExt

CONSTANTS
    Handlers,    \* informer handlers that note changes
    Queue,       \* timelineQueue
    Batch,       \* timelineBatch
    MaxChanges   \* bound on the changes stamped

ASSUME TimelineAssumption ==
    Queue \in Nat \ {0} /\ Batch \in Nat \ {0} /\ MaxChanges \in Nat

Changes == 1 .. MaxChanges        \* a change is named by its stamp
Gaps    == [from : 0 .. MaxChanges, to : 0 .. MaxChanges, count : 0 .. MaxChanges]
NoGap   == [from |-> 0, to |-> 0, count |-> 0]

VARIABLES
    clock,     \* stamps given
    stamp,     \* the change each handler is about to note, or 0
    noted,     \* changes the recording was given
    attached,  \* m.notes is this recording
    queue,
    gap,
    losses,    \* changes dropped or refused and told of in no row yet
    writerAt,        \* where the writer is
    flushing,  \* it is draining the queue after stop
    batch,     \* the changes it writes
    seen,      \* the gap it read before storing its row
    telling,   \* the losses that row is about
    stored,    \* changes the store holds
    rows,      \* gap rows the store holds, with the losses each is about
    closing    \* where close is

feed   == <<clock, stamp, noted, attached>>
hole   == <<gap, losses>>
writer == <<writerAt, flushing, batch, seen, telling>>
kept   == <<stored, rows>>
timelineVars   == <<feed, queue, hole, writer, kept, closing>>

\* The state is well formed and the queue within its capacity.
TimelineTypeOK ==
    /\ clock \in 0 .. MaxChanges /\ stamp \in [Handlers -> 0 .. MaxChanges]
    /\ noted \subseteq Changes /\ attached \in BOOLEAN
    /\ queue \in Seq(Changes) /\ Len(queue) <= Queue
    /\ gap \in Gaps /\ seen \in Gaps /\ losses \subseteq Changes /\ telling \subseteq Changes
    /\ writerAt \in {"prune", "select", "fill", "gap", "row", "write", "stopped"}
    /\ flushing \in BOOLEAN
    /\ batch \in Seq(Changes) /\ Len(batch) <= Batch
    /\ stored \subseteq Changes
    /\ \A row \in rows : row.gap \in Gaps /\ row.losses \subseteq Changes
    /\ closing \in {"starting", "recording", "cancelled", "detached", "stopping"}

TimelineInit ==
    /\ clock = 0 /\ stamp = [h \in Handlers |-> 0] /\ noted = {} /\ attached = FALSE
    /\ queue = <<>> /\ gap = NoGap /\ losses = {}
    /\ writerAt = "prune" /\ flushing = FALSE /\ batch = <<>> /\ seen = NoGap /\ telling = {}
    /\ stored = {} /\ rows = {}
    /\ closing = "starting"

-----------------------------------------------------------------------------
(* The handlers.                                                           *)

\* stream.note: the change is stamped before it is recorded.
Stamp(h) ==
    /\ stamp[h] = 0 /\ clock < MaxChanges
    /\ clock' = clock + 1
    /\ stamp' = [stamp EXCEPT ![h] = clock']
    /\ UNCHANGED <<noted, attached, queue, hole, writer, kept, closing>>

\* noteLoss, of count changes between from and to.
NoteLoss(count, from, to) ==
    gap' = [from  |-> IF gap.count = 0 \/ from < gap.from THEN from ELSE gap.from,
            to    |-> IF to > gap.to THEN to ELSE gap.to,
            count |-> gap.count + count]

\* A slip: the queue holds one more.
RoomAtLimit == Len(queue) <= Queue

\* The queue takes another change.
Room == Len(queue) < Queue

\* record and recording.Note, under noteMu: the change is ignored, queued or
\* dropped into the gap.
Record(h) ==
    /\ stamp[h] # 0
    /\ stamp' = [stamp EXCEPT ![h] = 0]
    /\ \/ ~ attached /\ UNCHANGED <<noted, queue, hole>>
       \/ /\ attached /\ noted' = noted \cup {stamp[h]}
          /\ \/ Room /\ queue' = Append(queue, stamp[h]) /\ UNCHANGED hole
             \/ /\ ~ Room /\ queue' = queue
                /\ NoteLoss(1, stamp[h], stamp[h])
                /\ losses' = losses \cup {stamp[h]}
    /\ UNCHANGED <<clock, attached, writer, kept, closing>>

-----------------------------------------------------------------------------
(* The writer.                                                             *)

\* run prunes before it records anything.
Prune ==
    /\ writerAt = "prune" /\ writerAt' = "select"
    /\ UNCHANGED <<feed, queue, hole, flushing, batch, seen, telling, kept, closing>>

\* select on a queue with a change in it, in run or in flush.
Take ==
    /\ writerAt = "select" /\ queue # <<>>
    /\ batch' = <<Head(queue)>> /\ queue' = Tail(queue)
    /\ writerAt' = "fill"
    /\ UNCHANGED <<feed, hole, flushing, seen, telling, kept, closing>>

\* fill: while there is more, up to the size of a batch.
Fill ==
    /\ writerAt = "fill"
    /\ \/ /\ Len(batch) < Batch /\ queue # <<>>
          /\ batch' = Append(batch, Head(queue)) /\ queue' = Tail(queue)
          /\ writerAt' = writerAt
       \/ /\ Len(batch) = Batch \/ queue = <<>>
          /\ writerAt' = "gap" /\ UNCHANGED <<batch, queue>>
    /\ UNCHANGED <<feed, hole, flushing, seen, telling, kept, closing>>

\* closeGap reads the gap under gapMu ...
ReadGap ==
    /\ writerAt = "gap"
    /\ seen' = gap /\ telling' = losses
    /\ writerAt' = IF gap.count = 0 THEN "write" ELSE "row"
    /\ UNCHANGED <<feed, queue, hole, flushing, batch, kept, closing>>

\* A slip: what was lost while the row was stored is forgotten with the rest.
ClearedGap == NoGap

\* What is left of the gap once a row tells of the part that was seen.
RestOfGap ==
    IF gap.count <= seen.count THEN NoGap
    ELSE [gap EXCEPT !.count = gap.count - seen.count, !.from = seen.to]

\* ... stores a row for it without the lock, and takes it off what is there by then.
TellGap ==
    /\ writerAt = "row"
    /\ rows' = rows \cup {[gap |-> seen, losses |-> telling]}
    /\ gap' = RestOfGap
    /\ losses' = losses \ telling
    /\ writerAt' = "write"
    /\ UNCHANGED <<feed, queue, flushing, batch, seen, telling, stored, closing>>

\* The store refuses the row: the gap stays.
GapRefused ==
    /\ writerAt = "row" /\ writerAt' = "write"
    /\ UNCHANGED <<feed, queue, hole, flushing, batch, seen, telling, kept, closing>>

Written ==
    /\ writerAt' = "select" /\ batch' = <<>>
    /\ UNCHANGED <<feed, queue, flushing, seen, telling, rows, closing>>

\* write stores the batch ...
Write ==
    /\ writerAt = "write"
    /\ stored' = stored \cup ToSet(batch)
    /\ Written /\ UNCHANGED hole

\* The whole batch joins the gap, with its span.
LoseBatch == NoteLoss(Len(batch), Min(ToSet(batch)), Max(ToSet(batch)))

\* ... or is refused.
WriteRefused ==
    /\ writerAt = "write"
    /\ LoseBatch
    /\ losses' = losses \cup ToSet(batch)
    /\ Written /\ UNCHANGED stored

\* A slip: run goes back to its loop after the flush.
FlushAgain ==
    /\ writerAt = "select" /\ closing = "stopping" /\ queue = <<>>
    /\ flushing' = ~ flushing
    /\ UNCHANGED <<feed, queue, hole, writerAt, batch, seen, telling, kept, closing>>

\* stop is closed: run flushes until the queue is empty, then ends.
Flush ==
    /\ writerAt = "select" /\ closing = "stopping"
    /\ \/ ~ flushing /\ flushing' = TRUE /\ writerAt' = writerAt
       \/ flushing /\ queue = <<>> /\ writerAt' = "stopped" /\ flushing' = flushing
    /\ UNCHANGED <<feed, queue, hole, batch, seen, telling, kept, closing>>

-----------------------------------------------------------------------------
(* The life of the recording.                                              *)

\* startRecording: backend.Record makes this the manager's timeline.
StartRecording ==
    /\ closing = "starting"
    /\ closing' = "recording" /\ attached' = TRUE
    /\ UNCHANGED <<clock, stamp, noted, queue, hole, writer, kept>>

\* close: the start is cancelled and waited for.
CancelStart ==
    /\ closing = "recording" /\ closing' = "cancelled"
    /\ UNCHANGED <<feed, queue, hole, writer, kept>>

\* StopRecording, under noteMu.
Detach == attached' = FALSE

\* stopBackend, before the writer is told to stop.
StopBackend ==
    /\ closing = "cancelled" /\ closing' = "detached"
    /\ Detach
    /\ UNCHANGED <<clock, stamp, noted, queue, hole, writer, kept>>

RequestStop ==
    /\ closing = "detached" /\ closing' = "stopping"
    /\ UNCHANGED <<feed, queue, hole, writer, kept>>

-----------------------------------------------------------------------------
TimelineNext ==
    \/ \E h \in Handlers : Stamp(h) \/ Record(h)
    \/ Prune \/ Take \/ Fill \/ ReadGap \/ TellGap \/ GapRefused \/ Write \/ WriteRefused \/ Flush
    \/ StartRecording \/ CancelStart \/ StopBackend \/ RequestStop

TimelineSpec == TimelineInit /\ [][TimelineNext]_timelineVars

-----------------------------------------------------------------------------
(* What a recording promises.                                              *)

\* Every change given to the recording is in one place: queued, in the batch
\* being written, stored, lost and not told of, or told of by a row; and the
\* gap counts exactly the losses that no row tells of.  A change dropped while
\* a row about earlier ones is being stored is neither forgotten nor told twice.
Accounted ==
    LET told == UNION {row.losses : row \in rows}
    IN  /\ noted = ToSet(queue) \cup ToSet(batch) \cup stored \cup losses \cup told
        /\ Cardinality(noted) =
             Len(queue) + Len(batch) + Cardinality(stored) + Cardinality(losses) + Cardinality(told)
        /\ gap.count = Cardinality(losses)

\* A row tells of as many changes as were lost, and none was later than it
\* says.  (Its beginning is only as good as the stamps are ordered.)
RowsTell ==
    \A row \in rows :
        /\ Cardinality(row.losses) = row.gap.count
        /\ \A c \in row.losses : c <= row.gap.to

\* When the writer has ended nothing is left in its hands: no change can slip
\* into the queue after the flush, because StopRecording comes first.
NothingLeft == writerAt = "stopped" => queue = <<>> /\ batch = <<>>

\* Every change that was noted is stored, told of as lost, or still in somebody's
\* hands, and nothing is when the writer has ended (record, write, flush).
TimelineSound == TimelineTypeOK /\ Accounted /\ RowsTell /\ NothingLeft

\* A recording that is being closed ends, however much is queued and whatever
\* the store refuses.
StopDrains == (closing # "starting" /\ closing # "recording") ~> (writerAt = "stopped")

=============================================================================
