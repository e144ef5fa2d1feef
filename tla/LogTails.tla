------------------------------- MODULE LogTails -------------------------------
(* The logs of all pods behind one selector (internal/logs): the pods are    *)
(* listed, up to a cap of them are attached, each read by a goroutine that   *)
(* writes into one channel, and while the stream follows, the list is read   *)
(* again and pods that came, came back or broke are attached.  Pods come,    *)
(* go, are replaced under their name and are missed by a list as they like;  *)
(* whoever takes the lines may stop taking them.                             *)
EXTENDS Integers, Sequences, FiniteSets, SequencesExt

CONSTANTS LogPods,    \* the names of the pods, in their order
          Lives,      \* how many pods bear one name, one after the other
          Cap         \* maxPods

ASSUME TailAssumption == IsFiniteSet(LogPods) /\ LogPods \subseteq Int /\ Lives \in Nat \ {0} /\ Cap \in Nat

Ids == LogPods \X (1..Lives)

VARIABLES follow,     \* Request.Follow
          listed,     \* the pods a list would return now
          tail,       \* where the stream stands
          pass,       \* what is left of the pods of the list being worked off
          seen, open, \* attachments
          readers,    \* how many goroutines read each pod
          attached,     \* whether a pod was attached
          finished,   \* pods read to their end and returned by every list since
          cancelled,  \* whether the stream was closed
          taken       \* whether somebody takes the lines

tailVars == <<follow, listed, tail, pass, seen, open, readers, attached, finished, cancelled, taken>>

TailTypeOK ==
  /\ follow \in BOOLEAN /\ cancelled \in BOOLEAN /\ taken \in BOOLEAN
  /\ listed \subseteq Ids /\ seen \subseteq Ids /\ open \subseteq Ids /\ finished \subseteq Ids
  /\ tail \in {"listing", "opening", "following", "attaching", "waiting", "closed", "refused"}
  /\ pass \in Seq(Ids)
  /\ readers \in [Ids -> 0..2] /\ attached \in BOOLEAN

TailInit ==
  /\ follow \in BOOLEAN
  /\ listed \in {{<<n, 1>> : n \in some} : some \in SUBSET LogPods}
  /\ tail = "listing" /\ pass = <<>>
  /\ seen = {} /\ open = {} /\ finished = {}
  /\ readers = [i \in Ids |-> 0] /\ attached = FALSE
  /\ cancelled = FALSE /\ taken = TRUE

-----------------------------------------------------------------------------
(* Listing.                                                                  *)

\* podsMatching: in the order of their names, the first of them.  Names are
\* unique in a list, so there is one such sequence.
PodsMatching ==
  LET length == IF Cardinality(listed) < Cap THEN Cardinality(listed) ELSE Cap
  IN {first \in [1..length -> listed] :
        /\ \A j, k \in 1..length : j < k => first[j][1] < first[k][1]
        /\ \A i \in listed \ ToSet(first), k \in 1..length : first[k][1] < i[1]}

\* openMany: the first list, which may fail or match nothing.
OpenMany ==
  /\ tail = "listing"
  /\ \/ listed # {} /\ tail' = "opening" /\ pass' \in PodsMatching
     \/ tail' = "refused" /\ UNCHANGED pass
  /\ UNCHANGED <<follow, listed, seen, open, readers, attached, finished, cancelled, taken>>

\* forgetGone.
ForgetGone(present) == {i \in seen : i \in present \/ i \in open}

\* watch: a tick, and the list, which may fail.
ListAgain ==
  /\ tail = "following" /\ follow /\ ~ cancelled
  /\ tail' = "attaching" /\ pass' \in PodsMatching
  /\ seen' = ForgetGone(ToSet(pass'))
  /\ finished' = finished \cap ToSet(pass')
  /\ UNCHANGED <<follow, listed, open, readers, attached, cancelled, taken>>

-----------------------------------------------------------------------------
(* Attaching.                                                                *)

\* attach: one that is claimed already is passed over; the stream opens, or
\* does not and the claim is given back.
Attach(i) ==
  \/ i \in seen /\ UNCHANGED <<seen, open, readers, attached>>
  \/ /\ i \notin seen
     /\ \/ /\ seen' = seen \cup {i} /\ open' = open \cup {i}
           /\ readers' = [readers EXCEPT ![i] = @ + 1]
           /\ attached' = TRUE
        \/ UNCHANGED <<seen, open, readers, attached>>

\* The loop of openMany.
AttachFirst ==
  /\ tail = "opening" /\ pass # <<>>
  /\ Attach(Head(pass)) /\ pass' = Tail(pass)
  /\ UNCHANGED <<follow, listed, tail, finished, cancelled, taken>>

\* The end of openMany: nothing could be read, and it is not worth waiting or
\* was refused for good; or the stream is handed out.
HandOut ==
  /\ tail = "opening" /\ pass = <<>>
  /\ \/ ~ attached /\ tail' = "refused"
     \/ (attached \/ follow) /\ tail' = "following"
  /\ UNCHANGED <<follow, listed, pass, seen, open, readers, attached, finished, cancelled, taken>>

\* The loop of watch, which stops at the cap.
AttachMore ==
  /\ tail = "attaching" /\ pass # <<>>
  /\ IF Cardinality(open) < Cap
     THEN Attach(Head(pass)) /\ pass' = Tail(pass)
     ELSE pass' = <<>> /\ UNCHANGED <<seen, open, readers, attached>>
  /\ UNCHANGED <<follow, listed, tail, finished, cancelled, taken>>

\* setCounts, and the wait for the next tick.
PassEnds ==
  /\ tail = "attaching" /\ pass = <<>>
  /\ tail' = "following"
  /\ UNCHANGED <<follow, listed, pass, seen, open, readers, attached, finished, cancelled, taken>>

-----------------------------------------------------------------------------
(* Reading.                                                                  *)

\* A slip: a pod that was read to its end is forgotten.
ReleaseForgets(i) == seen' = seen \ {i} /\ open' = open \ {i}

\* release.
ReleaseTail(i) == open' = open \ {i} /\ UNCHANGED seen

\* The reader comes to the end of the pod's log: release; or the read breaks:
\* forget.
ReadEnds(i) ==
  /\ readers[i] > 0 /\ ~ cancelled /\ taken
  /\ readers' = [readers EXCEPT ![i] = @ - 1]
  /\ \/ ReleaseTail(i) /\ finished' = IF i \in listed THEN finished \cup {i} ELSE finished
     \/ seen' = seen \ {i} /\ open' = open \ {i} /\ UNCHANGED finished
  /\ UNCHANGED <<follow, listed, tail, pass, attached, cancelled, taken>>

\* The context has ended: the reader returns, also from a line nobody takes.
ReadStops(i) ==
  /\ readers[i] > 0 /\ cancelled
  /\ readers' = [readers EXCEPT ![i] = @ - 1]
  /\ UNCHANGED <<follow, listed, tail, pass, seen, open, attached, finished, cancelled, taken>>

\* watch returns with the context, or is not run at all.
WatchEnds ==
  /\ tail = "following" /\ (cancelled \/ ~ follow)
  /\ tail' = "waiting"
  /\ UNCHANGED <<follow, listed, pass, seen, open, readers, attached, finished, cancelled, taken>>

\* wg.Wait, and the channel is closed.
TailCloses ==
  /\ tail = "waiting" /\ \A i \in Ids : readers[i] = 0
  /\ tail' = "closed"
  /\ UNCHANGED <<follow, listed, pass, seen, open, readers, attached, finished, cancelled, taken>>

\* Close, or the end of the caller's context; openMany's own cancel.
Cancel ==
  /\ ~ cancelled /\ tail # "closed"
  /\ cancelled' = TRUE
  /\ UNCHANGED <<follow, listed, tail, pass, seen, open, readers, attached, finished, taken>>

\* Whoever takes the lines stops.
StopTaking ==
  /\ taken /\ taken' = FALSE
  /\ UNCHANGED <<follow, listed, tail, pass, seen, open, readers, attached, finished, cancelled>>

\* The cluster: a pod comes or comes back, goes or is missed, or is replaced by
\* the next of its name.
PodsChange ==
  /\ ~ cancelled
  /\ \E n \in LogPods :
       \/ \E k \in 1..Lives : <<n, k>> \in listed /\ listed' = listed \ {<<n, k>>}
       \/ \E k \in 1..Lives : (\A j \in 1..Lives : <<n, j>> \notin listed) /\ listed' = listed \cup {<<n, k>>}
       \/ \E k \in 1..(Lives - 1) : <<n, k>> \in listed /\ listed' = (listed \ {<<n, k>>}) \cup {<<n, k + 1>>}
  /\ UNCHANGED <<follow, tail, pass, seen, open, readers, attached, finished, cancelled, taken>>

TailStep ==
  \/ OpenMany \/ AttachFirst \/ HandOut \/ AttachMore \/ PassEnds \/ WatchEnds \/ TailCloses
  \/ \E i \in Ids : ReadStops(i)

TailNext ==
  \/ TailStep \/ ListAgain \/ Cancel \/ StopTaking \/ PodsChange
  \/ \E i \in Ids : ReadEnds(i)

-----------------------------------------------------------------------------
\* No pod is read by two at once, however lists miss it and find it again: its
\* lines would be shown twice.
OneReaderEach == \A i \in Ids : readers[i] =< 1

\* The streams that are open never exceed the cap, also when pods are replaced
\* while those they replace are still being read.
TailsWithinCap == Cardinality({i \in Ids : readers[i] > 0}) =< Cap

\* A pod that was read to its end, and that every list has returned since, is
\* not read again from its tail.
FinishedNotReadAgain == \A i \in finished : readers[i] = 0

\* A stream that is closed ends all its readers and its channel, also when
\* nobody takes the lines.
TailEnds == cancelled ~> tail \in {"closed", "refused"}
=============================================================================
