-------------------------- MODULE TableFeedProofs --------------------------
(***************************************************************************)
(* No change is lost between the informer's cache and the browser's table, *)
(* for any objects, changes, channel, batch and connection.                *)
(***************************************************************************)
EXTENDS TableFeed, FiniteSetTheorems, SequenceTheorems, TLAPS

Events == Seq(Rows \cup {Oops})

\* Frames are in hand when they are being written and at no other time, and
\* publish that has begun has its notification.
InHand ==
    /\ at = "failing" => hand = <<Error>>
    /\ at = "writing" => hand # <<>>
    /\ at \notin {"writing", "failing"} => hand = <<>>
    /\ handler = "fan" => notify # <<>>

\* The indexer is ahead of the handler: what is still to be notified is in it.
Ahead == Applied(cache, notify) = cache

\* A snapshot taken now includes what waits in the channel.
Covered ==
    at \in {"registered", "drained"} /\ ~ closed /\ ~ resync =>
        Applied(Applied(cache, events), notify) = cache

\* A store that does not know the subscription gets a snapshot before any batch.
FirstSnapshot(frames, served) ==
    /\ \A k \in DOMAIN frames : frames[k].type = "batch" =>
            \E j \in DOMAIN frames : j < k /\ frames[j].type = "snapshot"
    /\ served => \E j \in DOMAIN frames : frames[j].type = "snapshot"

Serving == at \in {"writing", "select", "spaced", "drained"}

SnapshotFirst == ~ loaded => FirstSnapshot(wire \o hand, Serving)

FeedIInv ==
    /\ FeedSound /\ InHand /\ Ahead /\ Covered /\ SnapshotFirst

-----------------------------------------------------------------------------
(* The last event about an object, and the last frame.                     *)

\* A set of places in a sequence has a last one.
LEMMA HasLast ==
    ASSUME NEW n \in Nat, NEW S, S \subseteq 1 .. n, S # {}
    PROVE  Max(S) \in S /\ \A y \in S : y <= Max(S)
<1> DEFINE After(x) == {y \in S : y > x}
           T == {After(x) : x \in S}
<1>1. IsFiniteSet(S)
  <2>1. IsFiniteSet(1 .. n)
    BY FS_Interval
  <2> QED BY <2>1, FS_Subset
<1>2. IsWellFoundedOn(StrictSubsetOrdering(S), FiniteSubsetsOf(S))
  BY <1>1, FS_StrictSubsetOrderingWellFounded
<1>3. T \subseteq FiniteSubsetsOf(S) /\ T # {}
  <2>1. \A x \in S : IsFiniteSet(After(x)) /\ After(x) \subseteq S
    BY <1>1, FS_Subset
  <2> QED BY <2>1 DEF FiniteSubsetsOf
<1>4. PICK x \in S : \A y \in S : ~ (<<After(y), After(x)>> \in StrictSubsetOrdering(S))
  <2>1. \E X \in T : \A Y \in T : ~ (<<Y, X>> \in StrictSubsetOrdering(S))
    <3> HIDE DEF T
    <3> QED BY <1>2, <1>3, WFMin
  <2> QED BY <2>1
<1>5. ASSUME NEW y \in S, y > x PROVE FALSE
  <2>1. (\A z \in S : z > y => z > x) /\ ~ (y > y)
    BY <1>5
  <2>2. After(y) \subseteq After(x) /\ y \in After(x) /\ y \notin After(y)
    BY <1>5, <2>1, Zenon
  <2>3. <<After(y), After(x)>> \in StrictSubsetOrdering(S)
    BY <2>2 DEF StrictSubsetOrdering
  <2> QED BY <1>4, <2>3
<1>6. \E w \in S : \A y \in S : w >= y
  <2>1. \A y \in S : x >= y
    BY <1>5
  <2> QED BY <2>1
<1>7. Max(S) \in S /\ \A y \in S : Max(S) >= y
  BY <1>6 DEF Max
<1> QED BY <1>7

\* What an event says of an object.
Tells(ev, o) == ev # Oops /\ ev.obj = o

\* A sequence of events either does not tell of an object, and leaves its row,
\* or has a last event that does, and that is its row.
LEMMA AppliedAt ==
    ASSUME NEW t, NEW s \in Events, NEW o \in Objects
    PROVE  \/ /\ \A i \in 1 .. Len(s) : ~ Tells(s[i], o)
              /\ Applied(t, s)[o] = t[o]
           \/ \E i \in 1 .. Len(s) :
                /\ Tells(s[i], o)
                /\ \A j \in 1 .. Len(s) : j > i => ~ Tells(s[j], o)
                /\ Applied(t, s)[o] = s[i].ver
<1>1. DOMAIN s = 1 .. Len(s) /\ Len(s) \in Nat
  BY DEF Events
<1>2. Mentions(s, o) = {i \in 1 .. Len(s) : Tells(s[i], o)}
  BY <1>1 DEF Mentions, Tells
<1>3. Applied(t, s)[o] = IF Mentions(s, o) = {} THEN t[o] ELSE s[Max(Mentions(s, o))].ver
  BY DEF Applied
<1>4. CASE Mentions(s, o) = {}
  BY <1>2, <1>3, <1>4
<1>5. CASE Mentions(s, o) # {}
  <2>1. PICK m : m = Max(Mentions(s, o))
    OBVIOUS
  <2>2. m \in Mentions(s, o) /\ \A y \in Mentions(s, o) : y <= m
    BY <1>1, <1>2, <1>5, <2>1, HasLast
  <2>3. m \in 1 .. Len(s) /\ Tells(s[m], o) /\ Applied(t, s)[o] = s[m].ver
    BY <1>2, <1>3, <1>5, <2>1, <2>2
  <2>4. \A j \in 1 .. Len(s) : j > m => ~ Tells(s[j], o)
    BY <1>2, <2>2
  <2> QED BY <2>3, <2>4
<1> QED BY <1>4, <1>5

\* The same, read the other way.
LEMMA AppliedNone ==
    ASSUME NEW t, NEW s \in Events, NEW o \in Objects,
           \A i \in 1 .. Len(s) : ~ Tells(s[i], o)
    PROVE  Applied(t, s)[o] = t[o]
BY AppliedAt

\* The last event about an object makes its row.
LEMMA AppliedLast ==
    ASSUME NEW t, NEW s \in Events, NEW o \in Objects, NEW i \in 1 .. Len(s),
           Tells(s[i], o), \A j \in 1 .. Len(s) : j > i => ~ Tells(s[j], o)
    PROVE  Applied(t, s)[o] = s[i].ver
<1>1. PICK k \in 1 .. Len(s) :
                /\ Tells(s[k], o)
                /\ \A j \in 1 .. Len(s) : j > k => ~ Tells(s[j], o)
                /\ Applied(t, s)[o] = s[k].ver
  BY AppliedAt
<1>2. k = i
  BY <1>1 DEF Events
<1> QED BY <1>1, <1>2

\* Applying deltas one sequence after the other is applying both.
LEMMA AppliedConcat ==
    ASSUME NEW t, NEW a \in Events, NEW b \in Events
    PROVE  Applied(t, a \o b) = Applied(Applied(t, a), b)
<1>0. /\ a \o b \in Events /\ Len(a) \in Nat /\ Len(b) \in Nat /\ Len(a \o b) = Len(a) + Len(b)
      /\ \A i \in 1 .. Len(a) + Len(b) : (a \o b)[i] = IF i <= Len(a) THEN a[i] ELSE b[i - Len(a)]
  BY ConcatProperties DEF Events
<1>1. PICK c \in Events : c = a \o b
  BY <1>0
<1>2. /\ Len(c) = Len(a) + Len(b)
      /\ \A i \in 1 .. Len(a) : c[i] = a[i]
      /\ \A i \in 1 .. Len(b) : c[Len(a) + i] = b[i]
      /\ \A i \in 1 .. Len(c) : i \in 1 .. Len(a) \/ (i - Len(a) \in 1 .. Len(b) /\ c[i] = b[i - Len(a)])
  BY <1>0, <1>1
<1>3. ASSUME NEW o \in Objects PROVE Applied(t, c)[o] = Applied(Applied(t, a), b)[o]
  <2> DEFINE u == Applied(t, a)
  <2> HIDE DEF u
  <2>1. CASE \A i \in 1 .. Len(b) : ~ Tells(b[i], o)
    <3>1. Applied(u, b)[o] = u[o]
      BY <2>1, AppliedNone
    <3>2. Applied(t, c)[o] = u[o]
      <4>1. CASE \A i \in 1 .. Len(a) : ~ Tells(a[i], o)
        <5>1. \A i \in 1 .. Len(c) : ~ Tells(c[i], o)
          BY <1>2, <2>1, <4>1
        <5> QED BY <4>1, <5>1, AppliedNone DEF u
      <4>2. CASE ~ \A i \in 1 .. Len(a) : ~ Tells(a[i], o)
        <5>1. PICK i \in 1 .. Len(a) : /\ Tells(a[i], o) /\ u[o] = a[i].ver
                                        /\ \A j \in 1 .. Len(a) : j > i => ~ Tells(a[j], o)
          BY <4>2, AppliedAt DEF u
        <5>2. i \in 1 .. Len(c) /\ Tells(c[i], o) /\ c[i] = a[i]
          BY <1>0, <1>2, <5>1
        <5>3. \A j \in 1 .. Len(c) : j > i => ~ Tells(c[j], o)
          BY <1>0, <1>2, <2>1, <5>1
        <5>4. Applied(t, c)[o] = c[i].ver
          BY <5>2, <5>3, AppliedLast
        <5> QED BY <5>1, <5>2, <5>4
      <4> QED BY <4>1, <4>2
    <3> QED BY <3>1, <3>2 DEF u
  <2>2. CASE ~ \A i \in 1 .. Len(b) : ~ Tells(b[i], o)
    <3>1. PICK i \in 1 .. Len(b) : /\ Tells(b[i], o) /\ Applied(u, b)[o] = b[i].ver
                                    /\ \A j \in 1 .. Len(b) : j > i => ~ Tells(b[j], o)
      BY <2>2, AppliedAt
    <3>2. PICK k : k = Len(a) + i
      OBVIOUS
    <3>3. k \in 1 .. Len(c) /\ c[k] = b[i] /\ Tells(c[k], o)
      BY <1>0, <1>2, <3>1, <3>2
    <3>4. ASSUME NEW j \in 1 .. Len(c), j > k PROVE ~ Tells(c[j], o)
      <4>1. j - Len(a) \in 1 .. Len(b) /\ j - Len(a) > i /\ c[j] = b[j - Len(a)]
        BY <1>0, <1>2, <3>2, <3>4
      <4> QED BY <3>1, <4>1
    <3>5. Applied(t, c)[o] = c[k].ver
      BY <3>3, <3>4, AppliedLast
    <3> QED BY <3>1, <3>3, <3>5 DEF u
  <2> QED BY <2>1, <2>2
<1>4. Applied(t, c) = [o \in Objects |-> Applied(t, c)[o]]
  BY DEF Applied
<1>5. Applied(Applied(t, a), b) = [o \in Objects |-> Applied(Applied(t, a), b)[o]]
  BY DEF Applied
<1> QED BY <1>1, <1>3, <1>4, <1>5

\* The result is a table.
LEMMA AppliedType ==
    ASSUME NEW t \in Tables, NEW s \in Events
    PROVE  Applied(t, s) \in Tables
<1>1. ASSUME NEW o \in Objects PROVE Applied(t, s)[o] \in 0 .. MaxChanges
  <2>1. CASE Applied(t, s)[o] = t[o]
    BY <2>1 DEF Tables
  <2>2. CASE \E i \in 1 .. Len(s) : Tells(s[i], o) /\ Applied(t, s)[o] = s[i].ver
    <3>1. PICK i \in 1 .. Len(s) : Tells(s[i], o) /\ Applied(t, s)[o] = s[i].ver
      BY <2>2
    <3>2. s[i] \in Rows
      BY <3>1 DEF Tells, Events
    <3> QED BY <3>1, <3>2 DEF Rows
  <2> QED BY <2>1, <2>2, AppliedAt
<1>2. Applied(t, s) = [o \in Objects |-> Applied(t, s)[o]]
  BY DEF Applied
<1> QED BY <1>1, <1>2 DEF Tables

\* A row depends on the row there was, and on no other.
LEMMA AppliedLocal ==
    ASSUME NEW t, NEW u, NEW s, NEW o \in Objects, t[o] = u[o]
    PROVE  Applied(t, s)[o] = Applied(u, s)[o]
BY DEF Applied

\* No deltas, no change.
LEMMA AppliedEmpty ==
    ASSUME NEW t \in Tables
    PROVE  Applied(t, <<>>) = t
<1>1. <<>> \in Events /\ Len(<<>>) = 0
  BY DEF Events
<1>2. ASSUME NEW o \in Objects PROVE Applied(t, <<>>)[o] = t[o]
  BY <1>1, AppliedNone
<1>3. Applied(t, <<>>) = [o \in Objects |-> Applied(t, <<>>)[o]]
  BY DEF Applied
<1> QED BY <1>2, <1>3 DEF Tables

\* One delta more is one row changed.
LEMMA AppliedAppend ==
    ASSUME NEW t \in Tables, NEW s \in Events, NEW r \in Rows
    PROVE  Applied(t, Append(s, r)) = [Applied(t, s) EXCEPT ![r.obj] = r.ver]
<1>1. PICK c : c = Append(s, r)
  OBVIOUS
<1>2. /\ c \in Events /\ Len(c) = Len(s) + 1 /\ Len(s) \in Nat
      /\ \A i \in 1 .. Len(s) : c[i] = s[i]
      /\ c[Len(s) + 1] = r
  BY <1>1, AppendProperties DEF Events
<1>3. r # Oops /\ r.obj \in Objects
  BY DEF Rows, Oops
<1>4. ASSUME NEW o \in Objects PROVE Applied(t, c)[o] = IF o = r.obj THEN r.ver ELSE Applied(t, s)[o]
  <2>1. CASE o = r.obj
    <3>1. Tells(c[Len(s) + 1], o) /\ Len(s) + 1 \in 1 .. Len(c)
      BY <1>2, <1>3, <2>1 DEF Tells
    <3>2. \A j \in 1 .. Len(c) : ~ (j > Len(s) + 1)
      BY <1>2
    <3>3. Applied(t, c)[o] = c[Len(s) + 1].ver
      BY <1>2, <3>1, <3>2, AppliedLast
    <3> QED BY <1>2, <2>1, <3>3
  <2>2. CASE o # r.obj
    <3>1. ~ Tells(c[Len(s) + 1], o)
      BY <1>2, <2>2 DEF Tells
    <3>2. CASE \A i \in 1 .. Len(s) : ~ Tells(s[i], o)
      <4>1. \A i \in 1 .. Len(c) : ~ Tells(c[i], o)
        BY <1>2, <3>1, <3>2
      <4> QED BY <1>2, <2>2, <3>2, <4>1, AppliedNone
    <3>3. CASE ~ \A i \in 1 .. Len(s) : ~ Tells(s[i], o)
      <4>1. PICK i \in 1 .. Len(s) : /\ Tells(s[i], o) /\ Applied(t, s)[o] = s[i].ver
                                      /\ \A j \in 1 .. Len(s) : j > i => ~ Tells(s[j], o)
        BY <3>3, AppliedAt
      <4>2. i \in 1 .. Len(c) /\ c[i] = s[i] /\ \A j \in 1 .. Len(c) : j > i => ~ Tells(c[j], o)
        BY <1>2, <3>1, <4>1
      <4>3. Applied(t, c)[o] = c[i].ver
        BY <1>2, <4>1, <4>2, AppliedLast
      <4> QED BY <2>2, <4>1, <4>2, <4>3
    <3> QED BY <3>2, <3>3
  <2> QED BY <2>1, <2>2
<1>5. Applied(t, c) = [o \in Objects |-> Applied(t, c)[o]]
  BY DEF Applied
<1>6. Applied(t, s) = [o \in Objects |-> Applied(t, s)[o]]
  BY DEF Applied
<1>7. [Applied(t, s) EXCEPT ![r.obj] = r.ver]
        = [o \in Objects |-> IF o = r.obj THEN r.ver ELSE Applied(t, s)[o]]
  BY <1>6
<1> QED BY <1>1, <1>4, <1>5, <1>7

\* An event that is an error changes no row.
LEMMA AppliedOops ==
    ASSUME NEW t \in Tables, NEW s \in Events
    PROVE  Applied(t, Append(s, Oops)) = Applied(t, s)
<1>1. PICK c : c = Append(s, Oops)
  OBVIOUS
<1>2. <<Oops>> \in Events /\ Len(<<Oops>>) = 1 /\ <<Oops>>[1] = Oops
  BY DEF Events
<1>3. c = s \o <<Oops>>
  BY <1>1, AppendIsConcat DEF Events
<1>4. Applied(t, c) = Applied(Applied(t, s), <<Oops>>)
  BY <1>2, <1>3, AppliedConcat
<1>5. Applied(t, s) \in Tables
  BY AppliedType
<1>6. ASSUME NEW o \in Objects PROVE Applied(Applied(t, s), <<Oops>>)[o] = Applied(t, s)[o]
  <2>1. \A i \in 1 .. Len(<<Oops>>) : ~ Tells(<<Oops>>[i], o)
    BY <1>2 DEF Tells
  <2> QED BY <1>2, <2>1, AppliedNone
<1>7. Applied(Applied(t, s), <<Oops>>) = [o \in Objects |-> Applied(Applied(t, s), <<Oops>>)[o]]
  BY DEF Applied
<1> QED BY <1>1, <1>4, <1>5, <1>6, <1>7 DEF Tables

\* Sequences of one element.
LEMMA OneInSeq ==
    ASSUME NEW S, NEW x \in S
    PROVE  <<x>> \in Seq(S) /\ Len(<<x>>) = 1 /\ <<x>>[1] = x /\ DOMAIN <<x>> = {1}
OBVIOUS

\* Their head and tail.
LEMMA OneTail ==
    ASSUME NEW S, NEW x \in S
    PROVE  Head(<<x>>) = x /\ Tail(<<x>>) = <<>>
<1>1. PICK s \in Seq(S) : s = <<x>> /\ Len(s) = 1 /\ s[1] = x
  BY OneInSeq
<1>2. s # <<>>
  BY <1>1, EmptySeq
<1>3. Tail(s) \in Seq(S) /\ Len(Tail(s)) = 0
  BY <1>1, <1>2, HeadTailProperties
<1>4. Tail(s) = <<>>
  BY <1>3, EmptySeq
<1> QED BY <1>1, <1>4

\* A sequence is its head and then its tail.
LEMMA HeadThenTail ==
    ASSUME NEW S, NEW s \in Seq(S), s # <<>>
    PROVE  s = <<Head(s)>> \o Tail(s)
<1>1. /\ Head(s) \in S /\ Tail(s) \in Seq(S) /\ <<Head(s)>> \in Seq(S)
      /\ Len(Tail(s)) = Len(s) - 1 /\ \A i \in 1 .. Len(Tail(s)) : Tail(s)[i] = s[i + 1]
      /\ Len(s) \in Nat \ {0} /\ Len(<<Head(s)>>) = 1 /\ <<Head(s)>>[1] = s[1]
  BY HeadTailProperties
<1>2. PICK c : c = <<Head(s)>> \o Tail(s)
  OBVIOUS
<1>3. c \in Seq(S) /\ Len(c) = Len(s) /\ \A i \in 1 .. Len(s) : c[i] = s[i]
  BY <1>1, <1>2, ConcatProperties
<1> QED BY <1>2, <1>3, SeqEqual

\* The first delta, then the rest.
LEMMA AppliedHead ==
    ASSUME NEW t \in Tables, NEW s \in Seq(Rows), s # <<>>
    PROVE  /\ Head(s) \in Rows /\ Tail(s) \in Seq(Rows)
           /\ Applied(t, s) = Applied([t EXCEPT ![Head(s).obj] = Head(s).ver], Tail(s))
<1>1. PICK h \in Rows, r \in Seq(Rows) : h = Head(s) /\ r = Tail(s)
  BY HeadTailProperties
<1>2. s = <<h>> \o r
  BY <1>1, HeadThenTail
<1>3. r \in Events /\ <<h>> \in Events /\ <<>> \in Events
  <2>1. r \in Events
    BY SeqMonotonic DEF Events
  <2> QED BY <2>1 DEF Events
<1>4. Applied(t, <<h>> \o r) = Applied(Applied(t, <<h>>), r)
  BY <1>3, AppliedConcat
<1>5. Applied(t, <<h>>) = [t EXCEPT ![h.obj] = h.ver]
  <2>1. Append(<<>>, h) = <<h>>
    OBVIOUS
  <2>2. Applied(t, Append(<<>>, h)) = [Applied(t, <<>>) EXCEPT ![h.obj] = h.ver]
    <3>1. PICK e \in Events : e = <<>>
      BY <1>3
    <3>2. Applied(t, Append(e, h)) = [Applied(t, e) EXCEPT ![h.obj] = h.ver]
      BY AppliedAppend
    <3> QED BY <3>1, <3>2
  <2>3. Applied(t, <<>>) = t
    BY AppliedEmpty
  <2> QED BY <2>1, <2>2, <2>3
<1> QED BY <1>1, <1>2, <1>4, <1>5

-----------------------------------------------------------------------------
(* Frames.                                                                 *)

\* The three kinds of frame.
LEMMA FrameForms ==
    ASSUME NEW msg \in Frames
    PROVE  /\ msg.type \in {"snapshot", "batch", "error"}
           /\ msg.type = "snapshot" => msg.rows \in Tables
           /\ msg.type = "batch" => msg.rows \in Seq(Rows)
BY DEF Frames

\* Deltas and notifications are events that are no error.
LEMMA RowsAreEvents ==
    ASSUME NEW s \in Seq(Rows)
    PROVE  s \in Events
BY SeqMonotonic DEF Events

\* A frame that says what the row of o is.
Says(msg, o) ==
    \/ msg.type = "snapshot"
    \/ msg.type = "batch" /\ Mentions(msg.rows, o) # {}

\* What a frame says of a row does not depend on the table; what it does not
\* speak of, it leaves.
LEMMA ShownRow ==
    ASSUME NEW t, NEW u, NEW msg \in Frames, NEW o \in Objects
    PROVE  /\ Says(msg, o) => Shown(t, msg)[o] = Shown(u, msg)[o]
           /\ ~ Says(msg, o) => Shown(t, msg)[o] = t[o]
BY FrameForms DEF Says, Shown, Applied

\* A frame makes a table of a table.
LEMMA ShownType ==
    ASSUME NEW t \in Tables, NEW msg \in Frames
    PROVE  Shown(t, msg) \in Tables
BY FrameForms, RowsAreEvents, AppliedType DEF Shown

\* Either no frame speaks of an object, or there is a last one that does.
LEMMA AllShownAt ==
    ASSUME NEW t, NEW s \in Seq(Frames), NEW o \in Objects
    PROVE  \/ /\ \A i \in 1 .. Len(s) : ~ Says(s[i], o)
              /\ AllShown(t, s)[o] = t[o]
           \/ \E i \in 1 .. Len(s) :
                /\ Says(s[i], o)
                /\ \A j \in 1 .. Len(s) : j > i => ~ Says(s[j], o)
                /\ AllShown(t, s)[o] = Shown(t, s[i])[o]
<1>1. DOMAIN s = 1 .. Len(s) /\ Len(s) \in Nat
  OBVIOUS
<1>2. Speak(s, o) = {i \in 1 .. Len(s) : Says(s[i], o)}
  BY <1>1 DEF Speak, Says
<1>3. AllShown(t, s)[o] = IF Speak(s, o) = {} THEN t[o] ELSE Shown(t, s[Max(Speak(s, o))])[o]
  BY DEF AllShown
<1>4. CASE Speak(s, o) = {}
  BY <1>2, <1>3, <1>4
<1>5. CASE Speak(s, o) # {}
  <2>1. PICK m : m = Max(Speak(s, o))
    OBVIOUS
  <2>2. m \in Speak(s, o) /\ \A y \in Speak(s, o) : y <= m
    BY <1>1, <1>2, <1>5, <2>1, HasLast
  <2>3. m \in 1 .. Len(s) /\ Says(s[m], o) /\ AllShown(t, s)[o] = Shown(t, s[m])[o]
    BY <1>2, <1>3, <1>5, <2>1, <2>2
  <2>4. \A j \in 1 .. Len(s) : j > m => ~ Says(s[j], o)
    BY <1>2, <2>2
  <2> QED BY <2>3, <2>4
<1> QED BY <1>4, <1>5

\* Frames that do not speak of an object leave its row.
LEMMA AllShownNone ==
    ASSUME NEW t, NEW s \in Seq(Frames), NEW o \in Objects,
           \A i \in 1 .. Len(s) : ~ Says(s[i], o)
    PROVE  AllShown(t, s)[o] = t[o]
BY AllShownAt

\* The last frame that speaks of an object makes its row.
LEMMA AllShownLast ==
    ASSUME NEW t, NEW s \in Seq(Frames), NEW o \in Objects, NEW i \in 1 .. Len(s),
           Says(s[i], o), \A j \in 1 .. Len(s) : j > i => ~ Says(s[j], o)
    PROVE  AllShown(t, s)[o] = Shown(t, s[i])[o]
<1>1. PICK k \in 1 .. Len(s) :
                /\ Says(s[k], o)
                /\ \A j \in 1 .. Len(s) : j > k => ~ Says(s[j], o)
                /\ AllShown(t, s)[o] = Shown(t, s[k])[o]
  BY AllShownAt
<1>2. k = i
  BY <1>1
<1> QED BY <1>1, <1>2

\* Frames one sequence after the other.
LEMMA AllShownConcat ==
    ASSUME NEW t, NEW a \in Seq(Frames), NEW b \in Seq(Frames)
    PROVE  AllShown(t, a \o b) = AllShown(AllShown(t, a), b)
<1>0. /\ a \o b \in Seq(Frames) /\ Len(a) \in Nat /\ Len(b) \in Nat /\ Len(a \o b) = Len(a) + Len(b)
      /\ \A i \in 1 .. Len(a) + Len(b) : (a \o b)[i] = IF i <= Len(a) THEN a[i] ELSE b[i - Len(a)]
  BY ConcatProperties
<1>1. PICK c \in Seq(Frames) : c = a \o b
  BY <1>0
<1>2. /\ Len(c) = Len(a) + Len(b)
      /\ \A i \in 1 .. Len(a) : c[i] = a[i]
      /\ \A i \in 1 .. Len(b) : c[Len(a) + i] = b[i]
      /\ \A i \in 1 .. Len(c) : i \in 1 .. Len(a) \/ (i - Len(a) \in 1 .. Len(b) /\ c[i] = b[i - Len(a)])
  BY <1>0, <1>1
<1>3. ASSUME NEW o \in Objects PROVE AllShown(t, c)[o] = AllShown(AllShown(t, a), b)[o]
  <2> DEFINE u == AllShown(t, a)
  <2> HIDE DEF u
  <2>1. CASE \A i \in 1 .. Len(b) : ~ Says(b[i], o)
    <3>1. AllShown(u, b)[o] = u[o]
      BY <2>1, AllShownNone
    <3>2. AllShown(t, c)[o] = u[o]
      <4>1. CASE \A i \in 1 .. Len(a) : ~ Says(a[i], o)
        <5>1. \A i \in 1 .. Len(c) : ~ Says(c[i], o)
          BY <1>2, <2>1, <4>1
        <5> QED BY <4>1, <5>1, AllShownNone DEF u
      <4>2. CASE ~ \A i \in 1 .. Len(a) : ~ Says(a[i], o)
        <5>1. PICK i \in 1 .. Len(a) : /\ Says(a[i], o) /\ u[o] = Shown(t, a[i])[o]
                                        /\ \A j \in 1 .. Len(a) : j > i => ~ Says(a[j], o)
          BY <4>2, AllShownAt DEF u
        <5>2. i \in 1 .. Len(c) /\ Says(c[i], o) /\ c[i] = a[i]
          BY <1>0, <1>2, <5>1
        <5>3. \A j \in 1 .. Len(c) : j > i => ~ Says(c[j], o)
          BY <1>0, <1>2, <2>1, <5>1
        <5>4. AllShown(t, c)[o] = Shown(t, c[i])[o]
          BY <5>2, <5>3, AllShownLast
        <5> QED BY <5>1, <5>2, <5>4
      <4> QED BY <4>1, <4>2
    <3> QED BY <3>1, <3>2 DEF u
  <2>2. CASE ~ \A i \in 1 .. Len(b) : ~ Says(b[i], o)
    <3>1. PICK i \in 1 .. Len(b) : /\ Says(b[i], o) /\ AllShown(u, b)[o] = Shown(u, b[i])[o]
                                    /\ \A j \in 1 .. Len(b) : j > i => ~ Says(b[j], o)
      BY <2>2, AllShownAt
    <3>2. PICK k : k = Len(a) + i
      OBVIOUS
    <3>3. k \in 1 .. Len(c) /\ c[k] = b[i] /\ Says(c[k], o)
      BY <1>0, <1>2, <3>1, <3>2
    <3>4. ASSUME NEW j \in 1 .. Len(c), j > k PROVE ~ Says(c[j], o)
      <4>1. j - Len(a) \in 1 .. Len(b) /\ j - Len(a) > i /\ c[j] = b[j - Len(a)]
        BY <1>0, <1>2, <3>2, <3>4
      <4> QED BY <3>1, <4>1
    <3>5. AllShown(t, c)[o] = Shown(t, c[k])[o]
      BY <3>3, <3>4, AllShownLast
    <3>6. Shown(t, b[i])[o] = Shown(u, b[i])[o]
      <4>1. b[i] \in Frames
        OBVIOUS
      <4> QED BY <3>1, <4>1, ShownRow
    <3> QED BY <3>1, <3>3, <3>5, <3>6 DEF u
  <2> QED BY <2>1, <2>2
<1>4. AllShown(t, c) = [o \in Objects |-> AllShown(t, c)[o]]
  BY DEF AllShown
<1>5. AllShown(AllShown(t, a), b) = [o \in Objects |-> AllShown(AllShown(t, a), b)[o]]
  BY DEF AllShown
<1> QED BY <1>1, <1>3, <1>4, <1>5

\* Frames make a table of a table.
LEMMA AllShownType ==
    ASSUME NEW t \in Tables, NEW s \in Seq(Frames)
    PROVE  AllShown(t, s) \in Tables
<1>1. ASSUME NEW o \in Objects PROVE AllShown(t, s)[o] \in 0 .. MaxChanges
  <2>1. CASE AllShown(t, s)[o] = t[o]
    BY <2>1 DEF Tables
  <2>2. CASE \E i \in 1 .. Len(s) : AllShown(t, s)[o] = Shown(t, s[i])[o]
    <3>1. PICK i \in 1 .. Len(s) : AllShown(t, s)[o] = Shown(t, s[i])[o]
      BY <2>2
    <3>2. s[i] \in Frames
      OBVIOUS
    <3>3. Shown(t, s[i]) \in Tables
      BY <3>2, ShownType
    <3> QED BY <3>1, <3>3 DEF Tables
  <2> QED BY <2>1, <2>2, AllShownAt
<1>2. AllShown(t, s) = [o \in Objects |-> AllShown(t, s)[o]]
  BY DEF AllShown
<1> QED BY <1>1, <1>2 DEF Tables

\* One frame.
LEMMA AllShownOne ==
    ASSUME NEW t \in Tables, NEW msg \in Frames
    PROVE  AllShown(t, <<msg>>) = Shown(t, msg)
<1>1. PICK s \in Seq(Frames) : s = <<msg>>
  BY OneInSeq
<1>2. Len(s) = 1 /\ s[1] = msg
  BY <1>1
<1>3. ASSUME NEW o \in Objects PROVE AllShown(t, s)[o] = Shown(t, msg)[o]
  <2>1. CASE Says(msg, o)
    <3>1. 1 \in 1 .. Len(s) /\ Says(s[1], o) /\ \A j \in 1 .. Len(s) : ~ (j > 1)
      BY <1>2, <2>1
    <3> QED BY <1>2, <3>1, AllShownLast
  <2>2. CASE ~ Says(msg, o)
    <3>1. \A i \in 1 .. Len(s) : ~ Says(s[i], o)
      BY <1>2, <2>2
    <3> QED BY <2>2, <3>1, AllShownNone, ShownRow
  <2> QED BY <2>1, <2>2
<1>4. AllShown(t, s) = [o \in Objects |-> AllShown(t, s)[o]]
  BY DEF AllShown
<1>5. Shown(t, msg) \in Tables
  BY ShownType
<1> QED BY <1>1, <1>3, <1>4, <1>5 DEF Tables

\* No frames, no change.
LEMMA AllShownEmpty ==
    ASSUME NEW t \in Tables
    PROVE  AllShown(t, <<>>) = t
<1>1. PICK s \in Seq(Frames) : s = <<>> /\ Len(s) = 0
  BY EmptySeq
<1>2. ASSUME NEW o \in Objects PROVE AllShown(t, s)[o] = t[o]
  <2>1. \A i \in 1 .. Len(s) : ~ Says(s[i], o)
    BY <1>1
  <2> QED BY <2>1, AllShownNone
<1>3. AllShown(t, s) = [o \in Objects |-> AllShown(t, s)[o]]
  BY DEF AllShown
<1> QED BY <1>1, <1>2, <1>3 DEF Tables

\* Whether an error remains, frames one sequence after the other.
LEMMA ErrorConcat ==
    ASSUME NEW e \in BOOLEAN, NEW a \in Seq(Frames), NEW b \in Seq(Frames)
    PROVE  ErrorLast(e, a \o b) <=> ErrorLast(ErrorLast(e, a), b)
<1>0. /\ a \o b \in Seq(Frames) /\ Len(a) \in Nat /\ Len(b) \in Nat /\ Len(a \o b) = Len(a) + Len(b)
      /\ \A i \in 1 .. Len(a) + Len(b) : (a \o b)[i] = IF i <= Len(a) THEN a[i] ELSE b[i - Len(a)]
  BY ConcatProperties
<1>1. PICK c \in Seq(Frames) : c = a \o b
  BY <1>0
<1>2. /\ Len(c) = Len(a) + Len(b)
      /\ \A i \in 1 .. Len(a) : c[i] = a[i] /\ i \in 1 .. Len(c)
      /\ \A i \in 1 .. Len(b) : c[Len(a) + i] = b[i] /\ Len(a) + i \in 1 .. Len(c)
      /\ \A i \in 1 .. Len(c) : i \in 1 .. Len(a) \/ (i - Len(a) \in 1 .. Len(b) /\ c[i] = b[i - Len(a)])
      /\ DOMAIN a = 1 .. Len(a) /\ DOMAIN b = 1 .. Len(b) /\ DOMAIN c = 1 .. Len(c)
  BY <1>0, <1>1
<1>3. ASSUME ErrorLast(e, c) PROVE ErrorLast(ErrorLast(e, a), b)
  <2>1. CASE e /\ \A k \in DOMAIN c : c[k].type # "snapshot"
    <3>1. ErrorLast(e, a) /\ \A k \in DOMAIN b : b[k].type # "snapshot"
      BY <1>2, <2>1 DEF ErrorLast
    <3> QED BY <3>1 DEF ErrorLast
  <2>2. CASE \E k \in DOMAIN c : c[k].type = "error" /\ \A j \in DOMAIN c : j > k => c[j].type # "snapshot"
    <3>1. PICK k \in 1 .. Len(c) : c[k].type = "error" /\ \A j \in 1 .. Len(c) : j > k => c[j].type # "snapshot"
      BY <1>2, <2>2
    <3>2. CASE k \in 1 .. Len(a)
      <4>1. ErrorLast(e, a)
        <5>1. k \in DOMAIN a /\ a[k].type = "error"
          BY <1>2, <3>1, <3>2
        <5>2. \A j \in DOMAIN a : j > k => a[j].type # "snapshot"
          BY <1>2, <3>1
        <5> QED BY <5>1, <5>2 DEF ErrorLast
      <4>2. \A j \in 1 .. Len(b) : Len(a) + j > k
        BY <1>0, <3>2
      <4>3. \A j \in 1 .. Len(b) : b[j].type # "snapshot"
        BY <1>2, <3>1, <4>2
      <4> QED BY <1>2, <4>1, <4>3 DEF ErrorLast
    <3>3. CASE k - Len(a) \in 1 .. Len(b) /\ c[k] = b[k - Len(a)]
      <4>1. PICK m \in 1 .. Len(b) : m = k - Len(a)
        BY <3>3
      <4>2. b[m].type = "error" /\ \A j \in 1 .. Len(b) : j > m => Len(a) + j > k
        BY <1>0, <3>1, <3>3, <4>1
      <4>3. \A j \in 1 .. Len(b) : j > m => b[j].type # "snapshot"
        BY <1>2, <3>1, <4>2
      <4> QED BY <1>2, <4>2, <4>3 DEF ErrorLast
    <3> QED BY <1>2, <3>2, <3>3
  <2> QED BY <1>3, <2>1, <2>2 DEF ErrorLast
<1>4. ASSUME ErrorLast(ErrorLast(e, a), b) PROVE ErrorLast(e, c)
  <2>1. CASE ErrorLast(e, a) /\ \A k \in DOMAIN b : b[k].type # "snapshot"
    <3>1. CASE e /\ \A k \in DOMAIN a : a[k].type # "snapshot"
      <4>1. \A k \in 1 .. Len(c) : c[k].type # "snapshot"
        BY <1>2, <2>1, <3>1, ZenonT(30)
      <4> QED BY <1>2, <3>1, <4>1 DEF ErrorLast
    <3>2. CASE \E k \in DOMAIN a : a[k].type = "error" /\ \A j \in DOMAIN a : j > k => a[j].type # "snapshot"
      <4>1. PICK k \in 1 .. Len(a) : a[k].type = "error" /\ \A j \in 1 .. Len(a) : j > k => a[j].type # "snapshot"
        BY <1>2, <3>2
      <4>2. \A j \in 1 .. Len(c) : j > k => c[j].type # "snapshot"
        BY <1>2, <2>1, <4>1, ZenonT(30)
      <4> QED BY <1>2, <4>1, <4>2 DEF ErrorLast
    <3> QED BY <2>1, <3>1, <3>2 DEF ErrorLast
  <2>2. CASE \E k \in DOMAIN b : b[k].type = "error" /\ \A j \in DOMAIN b : j > k => b[j].type # "snapshot"
    <3>1. PICK k \in 1 .. Len(b) : b[k].type = "error" /\ \A j \in 1 .. Len(b) : j > k => b[j].type # "snapshot"
      BY <1>2, <2>2
    <3>2. PICK m \in 1 .. Len(c) : m = Len(a) + k
      BY <1>2
    <3>3. ASSUME NEW j \in 1 .. Len(c), j > m PROVE c[j].type # "snapshot"
      <4>1. j - Len(a) \in 1 .. Len(b) /\ j - Len(a) > k /\ c[j] = b[j - Len(a)]
        BY <1>0, <1>2, <3>2, <3>3
      <4> QED BY <3>1, <4>1
    <3>4. c[m].type = "error"
      BY <1>2, <3>1, <3>2
    <3> QED BY <1>2, <3>3, <3>4 DEF ErrorLast
  <2> QED BY <1>4, <2>1, <2>2 DEF ErrorLast
<1> QED BY <1>1, <1>3, <1>4

\* Whether an error remains after one frame.
LEMMA ErrorOne ==
    ASSUME NEW e \in BOOLEAN, NEW msg \in Frames
    PROVE  ErrorLast(e, <<msg>>) <=> msg.type = "error" \/ (e /\ msg.type # "snapshot")
<1>1. PICK s \in Seq(Frames) : s = <<msg>>
  BY OneInSeq
<1>2. Len(s) = 1 /\ s[1] = msg /\ DOMAIN s = {1}
  BY <1>1, OneInSeq
<1> QED BY <1>1, <1>2 DEF ErrorLast

-----------------------------------------------------------------------------
(* What the steps do to deltas that wait.                                  *)

\* A row that is told of does not depend on the row there was.
LEMMA AppliedTold ==
    ASSUME NEW t, NEW u, NEW s \in Events, NEW o \in Objects,
           \E i \in 1 .. Len(s) : Tells(s[i], o)
    PROVE  Applied(t, s)[o] = Applied(u, s)[o]
<1>1. Mentions(s, o) # {}
  BY DEF Mentions, Tells, Events
<1> QED BY <1>1 DEF Applied

\* A change goes into the cache and behind all notifications.
LEMMA ChangeCovers ==
    ASSUME NEW c \in Tables, NEW e \in Events, NEW n \in Seq(Rows), NEW r \in Rows,
           NEW d \in Tables, d[r.obj] = r.ver, \A o \in Objects : o # r.obj => d[o] = c[o],
           Applied(Applied(c, e), n) = c
    PROVE  Applied(Applied(d, e), Append(n, r)) = d
<1>2. r.obj \in Objects
  BY DEF Rows
<1>3. n \in Events /\ Applied(d, e) \in Tables /\ Applied(Applied(d, e), n) \in Tables
  BY <1>2, RowsAreEvents, AppliedType
<1>4. Applied(Applied(d, e), Append(n, r)) = [Applied(Applied(d, e), n) EXCEPT ![r.obj] = r.ver]
  BY <1>3, AppliedAppend
<1>5. ASSUME NEW o \in Objects, o # r.obj PROVE Applied(Applied(d, e), n)[o] = c[o]
  <2>1. d[o] = c[o]
    BY <1>5
  <2>2. Applied(d, e)[o] = Applied(c, e)[o]
    BY <2>1, AppliedLocal
  <2>3. PICK x, y : x = Applied(d, e) /\ y = Applied(c, e)
    OBVIOUS
  <2>4. Applied(x, n)[o] = Applied(y, n)[o]
    <3>1. x[o] = y[o]
      BY <2>2, <2>3
    <3> QED BY <3>1, AppliedLocal
  <2> QED BY <2>3, <2>4
<1>6. PICK x \in Tables : x = Applied(Applied(d, e), n)
  BY <1>3
<1>7. [x EXCEPT ![r.obj] = r.ver] = d
  BY <1>2, <1>5, <1>6 DEF Tables
<1> QED BY <1>4, <1>6, <1>7

\* A notification that becomes an event is applied in the same order.
LEMMA PublishMoves ==
    ASSUME NEW t \in Tables, NEW e \in Events, NEW n \in Seq(Rows), n # <<>>
    PROVE  /\ Append(e, Head(n)) \in Events
           /\ Applied(Applied(t, Append(e, Head(n))), Tail(n)) = Applied(Applied(t, e), n)
<1>1. PICK h \in Rows : h = Head(n)
  BY AppliedHead
<1>2. Applied(t, e) \in Tables
  BY AppliedType
<1>3. Applied(Applied(t, e), n) = Applied([Applied(t, e) EXCEPT ![h.obj] = h.ver], Tail(n))
  BY <1>1, <1>2, AppliedHead
<1>4. Applied(t, Append(e, h)) = [Applied(t, e) EXCEPT ![h.obj] = h.ver]
  BY AppliedAppend
<1>5. Append(e, h) \in Events
  BY AppendProperties DEF Events
<1> QED BY <1>1, <1>3, <1>4, <1>5

\* The cache is ahead of what is left, too.
LEMMA TailAhead ==
    ASSUME NEW c \in Tables, NEW n \in Seq(Rows), n # <<>>, Applied(c, n) = c
    PROVE  Applied(c, Tail(n)) = c
<1>1. PICK h \in Rows, w \in Seq(Rows) : h = Head(n) /\ w = Tail(n)
  BY AppliedHead
<1>2. Applied(c, n) = Applied([c EXCEPT ![h.obj] = h.ver], w)
  BY <1>1, AppliedHead
<1>3. w \in Events
  BY RowsAreEvents
<1>4. ASSUME NEW o \in Objects PROVE Applied(c, w)[o] = c[o]
  <2>1. CASE \A i \in 1 .. Len(w) : ~ Tells(w[i], o)
    BY <1>3, <2>1, AppliedNone
  <2>2. CASE \E i \in 1 .. Len(w) : Tells(w[i], o)
    <3>1. Applied(c, w)[o] = Applied([c EXCEPT ![h.obj] = h.ver], w)[o]
      BY <1>3, <2>2, AppliedTold
    <3> QED BY <1>2, <3>1
  <2> QED BY <2>1, <2>2
<1>5. Applied(c, w) \in Tables
  BY <1>3, AppliedType
<1> QED BY <1>1, <1>4, <1>5 DEF Tables

\* Frames that are added: a batch only after a snapshot.
LEMMA FirstConcat ==
    ASSUME NEW f \in Seq(Frames), NEW g \in Seq(Frames), NEW p \in BOOLEAN, NEW q \in BOOLEAN,
           FirstSnapshot(f, p),
           p \/ \A k \in 1 .. Len(g) : g[k].type # "batch",
           q => p \/ \E k \in 1 .. Len(g) : g[k].type = "snapshot"
    PROVE  FirstSnapshot(f \o g, q)
<1>0. /\ f \o g \in Seq(Frames) /\ Len(f) \in Nat /\ Len(g) \in Nat /\ Len(f \o g) = Len(f) + Len(g)
      /\ \A i \in 1 .. Len(f) + Len(g) : (f \o g)[i] = IF i <= Len(f) THEN f[i] ELSE g[i - Len(f)]
  BY ConcatProperties
<1>1. PICK c \in Seq(Frames) : c = f \o g
  BY <1>0
<1>2. /\ Len(c) = Len(f) + Len(g)
      /\ \A i \in 1 .. Len(f) : c[i] = f[i] /\ i \in 1 .. Len(c)
      /\ \A i \in 1 .. Len(g) : c[Len(f) + i] = g[i] /\ Len(f) + i \in 1 .. Len(c)
      /\ \A i \in 1 .. Len(c) : i \in 1 .. Len(f) \/ (i - Len(f) \in 1 .. Len(g) /\ c[i] = g[i - Len(f)])
      /\ DOMAIN f = 1 .. Len(f) /\ DOMAIN c = 1 .. Len(c)
  BY <1>0, <1>1
<1>3. ASSUME NEW k \in 1 .. Len(c), c[k].type = "batch"
      PROVE  \E j \in 1 .. Len(c) : j < k /\ c[j].type = "snapshot"
  <2>1. CASE k \in 1 .. Len(f)
    <3>1. PICK j \in 1 .. Len(f) : j < k /\ f[j].type = "snapshot"
      BY <1>2, <1>3, <2>1 DEF FirstSnapshot
    <3> QED BY <1>2, <3>1
  <2>2. CASE k - Len(f) \in 1 .. Len(g) /\ c[k] = g[k - Len(f)]
    <3>1. p
      BY <1>3, <2>2
    <3>2. PICK j \in 1 .. Len(f) : f[j].type = "snapshot"
      BY <1>2, <3>1 DEF FirstSnapshot
    <3>3. j < k /\ j \in 1 .. Len(c) /\ c[j].type = "snapshot"
      BY <1>0, <1>2, <2>2, <3>2
    <3> QED BY <3>3
  <2> QED BY <1>2, <2>1, <2>2
<1>4. ASSUME q PROVE \E j \in 1 .. Len(c) : c[j].type = "snapshot"
  <2>1. CASE p
    BY <1>2, <2>1 DEF FirstSnapshot
  <2>2. CASE \E k \in 1 .. Len(g) : g[k].type = "snapshot"
    BY <1>2, <2>2
  <2> QED BY <1>4, <2>1, <2>2
<1>5. FirstSnapshot(c, q)
  BY <1>2, <1>3, <1>4 DEF FirstSnapshot
<1> QED BY <1>1, <1>5

\* An error that is taken off the wire.
LEMMA FirstTail ==
    ASSUME NEW msg \in Frames, NEW f \in Seq(Frames), NEW p \in BOOLEAN,
           FirstSnapshot(<<msg>> \o f, p), msg.type # "snapshot"
    PROVE  msg.type # "batch" /\ FirstSnapshot(f, p)
<1>1. PICK g \in Seq(Frames) : g = <<msg>> /\ Len(g) = 1 /\ g[1] = msg
  BY OneInSeq
<1>2. PICK c \in Seq(Frames) : c = g \o f
  BY ConcatProperties
<1>3. /\ Len(c) = 1 + Len(f) /\ Len(f) \in Nat
      /\ c[1] = msg
      /\ \A i \in 1 .. Len(f) : c[i + 1] = f[i] /\ i + 1 \in 1 .. Len(c)
      /\ \A i \in 1 .. Len(c) : i = 1 \/ (i - 1 \in 1 .. Len(f) /\ c[i] = f[i - 1])
      /\ DOMAIN f = 1 .. Len(f) /\ DOMAIN c = 1 .. Len(c)
  BY <1>1, <1>2, ConcatProperties
<1>4. /\ \A k \in 1 .. Len(c) : c[k].type = "batch" => \E j \in 1 .. Len(c) : j < k /\ c[j].type = "snapshot"
      /\ p => \E j \in 1 .. Len(c) : c[j].type = "snapshot"
  <2>1. FirstSnapshot(c, p)
    BY <1>1, <1>2
  <2> QED BY <1>3, <2>1 DEF FirstSnapshot
<1>5. msg.type # "batch"
  <2>1. 1 \in 1 .. Len(c) /\ \A j \in 1 .. Len(c) : ~ (j < 1)
    BY <1>3
  <2> QED BY <1>3, <1>4, <2>1
<1>6. ASSUME NEW k \in 1 .. Len(f), f[k].type = "batch"
      PROVE  \E j \in 1 .. Len(f) : j < k /\ f[j].type = "snapshot"
  <2>1. PICK j \in 1 .. Len(c) : j < k + 1 /\ c[j].type = "snapshot"
    BY <1>3, <1>4, <1>6
  <2>2. j - 1 \in 1 .. Len(f) /\ c[j] = f[j - 1] /\ j - 1 < k
    BY <1>3, <2>1
  <2> QED BY <2>1, <2>2
<1>7. ASSUME p PROVE \E j \in 1 .. Len(f) : f[j].type = "snapshot"
  <2>1. PICK j \in 1 .. Len(c) : c[j].type = "snapshot"
    BY <1>4, <1>7
  <2>2. j - 1 \in 1 .. Len(f) /\ c[j] = f[j - 1]
    BY <1>3, <2>1
  <2> QED BY <2>1, <2>2
<1> QED BY <1>3, <1>5, <1>6, <1>7 DEF FirstSnapshot

-----------------------------------------------------------------------------
(* Types.                                                                  *)

\* What the browser holds and will hold are tables.
LEMMA FlushedType ==
    ASSUME FeedTypeOK
    PROVE  Flushed \in Tables /\ Arriving \in Tables /\ wire \o hand \in Seq(Frames)
<1>1. pending \in Seq(Rows) /\ table \in Tables /\ wire \in Seq(Frames) /\ hand \in Seq(Frames)
  BY DEF FeedTypeOK
<1>2. Flushed \in Tables
  BY <1>1, RowsAreEvents, AppliedType DEF Flushed
<1>3. wire \o hand \in Seq(Frames)
  BY <1>1, ConcatProperties
<1> QED BY <1>2, <1>3, AllShownType DEF Arriving

\* A channel takes an event when it has room.
LEMMA FanoutType ==
    ASSUME FeedTypeOK, NEW ev \in Rows \cup {Oops}, Fanout(ev)
    PROVE  /\ events' \in Events /\ Len(events') <= EventBuffer /\ resync' \in BOOLEAN
           /\ events' = events \/ (~ limited /\ events' = Append(events, ev) /\ resync' = resync)
           /\ Registered /\ events' = events => resync'
           /\ resync => resync'
           /\ ~ Registered => events' = events
<1>1. events \in Events /\ Len(events) \in Nat /\ Len(events) <= EventBuffer /\ resync \in BOOLEAN /\ EventBuffer \in Nat
  BY FeedAssumption DEF FeedTypeOK, Events
<1>2. Append(events, ev) \in Events /\ Len(Append(events, ev)) = Len(events) + 1
  BY <1>1, AppendProperties DEF Events
<1>3. Append(events, ev) # events
  BY <1>1, <1>2
<1>4. CASE ~ Registered /\ UNCHANGED <<events, resync>>
  BY <1>1, <1>4
<1>5. CASE Registered /\ limited /\ SignalResync /\ events' = events
  BY <1>1, <1>5 DEF SignalResync
<1>6. CASE Registered /\ ~ limited /\ Room /\ events' = Append(events, ev) /\ resync' = resync
  <2>1. Len(events') <= EventBuffer
    BY <1>1, <1>2, <1>6 DEF Room
  <2> QED BY <1>1, <1>2, <1>3, <1>6, <2>1
<1>7. CASE Registered /\ ~ limited /\ ~ Room /\ SignalResync /\ events' = events
  BY <1>1, <1>7 DEF SignalResync
<1> QED BY <1>4, <1>5, <1>6, <1>7 DEF Fanout

\* The error frame.
LEMMA ErrorFrame == Error \in Frames /\ Error.type = "error" /\ <<Error>> \in Seq(Frames) /\ <<Error>> # <<>>
<1>1. Error \in Frames /\ Error.type = "error"
  BY DEF Error, Frames
<1> QED BY <1>1, OneInSeq

\* writeBatch: what it takes from the channel, and what it leaves.
LEMMA BatchOK ==
    ASSUME FeedTypeOK, events # <<>>, NEW n, n = BatchLength
    PROVE  /\ n \in 0 .. Len(events) /\ n <= MaxBatch
           /\ \A i \in 1 .. n : events[i] \in Rows
           /\ SubSeq(events, 1, n) \in Seq(Rows)
           /\ n = MaxBatch \/ n = Len(events) \/ (n + 1 \in 1 .. Len(events) /\ events[n + 1] = Oops)
           /\ n = 0 => n < MaxBatch /\ n < Len(events)
<1>1. events \in Events /\ Len(events) \in Nat \ {0} /\ MaxBatch \in Nat \ {0}
  BY FeedAssumption, EmptySeq DEF FeedTypeOK, Events
<1> DEFINE Good(m) == /\ m <= MaxBatch /\ \A i \in 1 .. m : events[i] # Oops
                      /\ m = MaxBatch \/ m = Len(events) \/ events[m + 1] = Oops
<1>2. \E m \in 0 .. Len(events) : Good(m)
  <2> DEFINE S == {m \in 1 .. Len(events) + 1 : m <= MaxBatch + 1 /\ \A i \in 1 .. m - 1 : events[i] # Oops}
  <2>1. S \subseteq 1 .. Len(events) + 1 /\ 1 \in S /\ Len(events) + 1 \in Nat
    BY <1>1
  <2>2. PICK m : m = Max(S)
    OBVIOUS
  <2>3. m \in S /\ \A y \in S : y <= m
    <3> HIDE DEF S
    <3> QED BY <2>1, <2>2, HasLast
  <2>4. m - 1 \in 0 .. Len(events) /\ m - 1 <= MaxBatch /\ \A i \in 1 .. m - 1 : events[i] # Oops
    BY <1>1, <2>3
  <2>5. ASSUME m - 1 # MaxBatch, m - 1 # Len(events), events[m] # Oops PROVE FALSE
    <3>1. m + 1 \in 1 .. Len(events) + 1 /\ m + 1 <= MaxBatch + 1
      <4>1. m \in Int
        BY <2>3
      <4> QED BY <1>1, <2>4, <2>5, <4>1
    <3>2. \A i \in 1 .. m : events[i] # Oops
      BY <2>3, <2>4, <2>5
    <3>3. m + 1 \in S
      BY <2>3, <3>1, <3>2
    <3> QED BY <2>3, <3>3
  <2>6. Good(m - 1)
    BY <2>3, <2>4, <2>5
  <2> QED BY <2>4, <2>6
<1>3. n \in 0 .. Len(events) /\ Good(n)
  <2>1. n = CHOOSE m \in 0 .. Len(events) : Good(m)
    BY DEF BatchLength
  <2> HIDE DEF Good
  <2> QED BY <1>2, <2>1
<1>4. \A i \in 1 .. n : events[i] \in Rows
  BY <1>1, <1>3 DEF Events
<1>5. SubSeq(events, 1, n) \in Seq(Rows)
  BY <1>3, <1>4, SubSeqProperties
<1> QED BY <1>1, <1>3, <1>4, <1>5

\* FeedTypeOK is preserved: frames and events go from one sequence to the next.
LEMMA TypeStep ==
    ASSUME FeedTypeOK, InHand, [FeedNext]_feedVars
    PROVE  FeedTypeOK'
<1> USE FeedAssumption DEF feedVars, informer, relay, browser, link
<1>0. /\ events \in Events /\ notify \in Seq(Rows) /\ pending \in Seq(Rows)
      /\ wire \in Seq(Frames) /\ hand \in Seq(Frames) /\ Flushed \in Tables /\ cache \in Tables
      /\ <<>> \in Seq(Frames) /\ <<>> \in Seq(Rows) /\ <<>> \in Seq(Rows \cup {Oops})
      /\ Len(wire) \in Nat /\ Len(wire) <= MaxWire /\ MaxWire \in Nat
  BY FlushedType DEF FeedTypeOK, Events
<1>a. ASSUME NEW x, x = <<>> PROVE x \in Seq(Rows \cup {Oops}) /\ x \in Seq(Frames) /\ Len(x) <= EventBuffer /\ Len(x) <= MaxWire
  BY <1>0, <1>a
<1>1. ASSUME NEW o \in Objects, Change(o) PROVE FeedTypeOK'
  <2>1. PICK ver \in {changes + 1} \cup (IF cache[o] = 0 THEN {} ELSE {0}) :
                /\ cache' = [cache EXCEPT ![o] = ver]
                /\ notify' = Append(notify, [obj |-> o, ver |-> ver])
    BY <1>1 DEF Change
  <2>2. ver \in 0 .. MaxChanges
    BY <1>1, <2>1 DEF Change, FeedTypeOK
  <2>3. [obj |-> o, ver |-> ver] \in Rows
    BY <2>2 DEF Rows
  <2>4. notify' \in Seq(Rows)
    BY <1>0, <2>1, <2>3, AppendProperties
  <2>5. cache' \in Tables
    BY <1>0, <2>1, <2>2 DEF Tables
  <2> QED BY <1>1, <2>4, <2>5 DEF Change, FeedTypeOK
<1>2. CASE WatchRecovered
  BY <1>2, ZenonT(30) DEF WatchRecovered, FeedTypeOK
<1>3. CASE Publish
  <2>1. Head(notify) \in Rows /\ Tail(notify) \in Seq(Rows)
    BY <1>0, <1>3, HeadTailProperties DEF Publish, InHand
  <2>2. events' \in Events /\ Len(events') <= EventBuffer /\ resync' \in BOOLEAN
    BY <1>3, <2>1, FanoutType DEF Publish
  <2> QED BY <1>3, <2>1, <2>2 DEF Publish, FeedTypeOK, Events
<1>4. CASE WatchBreaks
  BY <1>4 DEF WatchBreaks, FeedTypeOK
<1>5. CASE TellBroken
  <2>1. events' \in Events /\ Len(events') <= EventBuffer /\ resync' \in BOOLEAN
    BY <1>5, FanoutType DEF TellBroken
  <2> QED BY <1>5, <2>1, ZenonT(30) DEF TellBroken, FeedTypeOK, Events
<1>6. CASE Shutdown
  BY <1>6 DEF Shutdown, FeedTypeOK
<1>7. CASE Register
  <2>1. events' \in Seq(Rows \cup {Oops}) /\ Len(events') <= EventBuffer
    BY <1>a, <1>7 DEF Register
  <2> QED BY <1>7, <2>1 DEF Register, FeedTypeOK
<1>8. CASE BuildFails
  BY <1>8, ErrorFrame DEF BuildFails, TellFailure, FeedTypeOK
<1>9. CASE Capture
  <2>1. [type |-> "snapshot", rows |-> cache] \in Frames
    BY <1>0 DEF Frames
  <2>2. hand' \in Seq(Frames)
    BY <1>9, <2>1, OneInSeq DEF Capture
  <2> QED BY <1>9, <2>2 DEF Capture, FeedTypeOK
<1>10. CASE SnapshotFails
  BY <1>10, ErrorFrame, ZenonT(30) DEF SnapshotFails, TellFailure, FeedTypeOK
<1>11. CASE Write
  <2>1. hand # <<>>
    BY <1>11, ErrorFrame DEF Write, InHand
  <2>2. Head(hand) \in Frames /\ Tail(hand) \in Seq(Frames)
    BY <1>0, <2>1, HeadTailProperties
  <2>3. wire' \in Seq(Frames) /\ Len(wire') = Len(wire) + 1
    BY <1>0, <1>11, <2>2, AppendProperties DEF Write
  <2>4. at' \in {"off", "failing", "registered", "writing", "select", "spaced", "drained", "ended"}
    BY <1>11 DEF Write
  <2>5. Len(wire') <= MaxWire /\ hand' \in Seq(Frames)
    BY <1>0, <1>11, <2>2, <2>3 DEF Write
  <2> QED BY <1>11, <2>3, <2>4, <2>5 DEF Write, FeedTypeOK
<1>12. CASE TakeResync
  BY <1>12 DEF TakeResync, FeedTypeOK
<1>13. CASE Refused
  BY <1>13, ErrorFrame DEF Refused, FeedTypeOK
<1>14. CASE Drain
  BY <1>0, <1>14 DEF Drain, DrainEvents, FeedTypeOK
<1>15. CASE TakeEvents
  <2> DEFINE n     == BatchLength
             batch == IF n = 0 THEN <<>> ELSE <<[type |-> "batch", rows |-> SubSeq(events, 1, n)]>>
             stop  == n < MaxBatch /\ n < Len(events)
             k     == IF stop THEN n + 2 ELSE n + 1
  <2>1. n \in 0 .. Len(events) /\ SubSeq(events, 1, n) \in Seq(Rows)
    BY <1>15, BatchOK DEF TakeEvents
  <2>2. batch \in Seq(Frames)
    <3>1. [type |-> "batch", rows |-> SubSeq(events, 1, n)] \in Frames
      BY <2>1 DEF Frames
    <3> HIDE DEF n
    <3> QED BY <1>0, <3>1, OneInSeq
  <2>3. hand' \in Seq(Frames)
    <3>1. hand' = IF stop THEN Append(batch, Error) ELSE batch
      BY <1>15 DEF TakeEvents
    <3> HIDE DEF n, batch, stop
    <3> QED BY <2>2, <3>1, ErrorFrame, AppendProperties
  <2>4. events' \in Events /\ Len(events') <= Len(events)
    <3>1. k \in 1 .. Len(events) + 1 /\ Len(events) \in Nat
      BY <1>0, <2>1 DEF Events
    <3>2. events' = SubSeq(events, k, Len(events))
      BY <1>15 DEF TakeEvents
    <3>3. \A i \in k .. Len(events) : events[i] \in Rows \cup {Oops}
      BY <1>0, <3>1 DEF Events
    <3> HIDE DEF k, n
    <3> QED BY <3>1, <3>2, <3>3, SubSeqProperties DEF Events
  <2>5. Len(events') <= EventBuffer
    BY <1>0, <2>4 DEF FeedTypeOK, Events
  <2>6. UNCHANGED <<informer, resync, closed, link, browser>> /\ at' = "writing"
    BY <1>15 DEF TakeEvents
  <2> HIDE DEF n, batch, stop, k
  <2> QED BY <2>3, <2>4, <2>5, <2>6 DEF FeedTypeOK, Events
<1>16. CASE FeedEnds
  BY <1>16 DEF FeedEnds, FeedTypeOK
<1>17. CASE More
  BY <1>17 DEF More, SignalResync, FeedTypeOK
<1>18. ASSUME Sever, UNCHANGED <<informer, browser>>, drops' \in 0 .. MaxDrops PROVE FeedTypeOK'
  <2>1. /\ events' \in Seq(Rows \cup {Oops}) /\ Len(events') <= EventBuffer
        /\ wire' \in Seq(Frames) /\ Len(wire') <= MaxWire /\ hand' \in Seq(Frames)
    BY <1>a, <1>18 DEF Sever
  <2> QED BY <1>18, <2>1 DEF Sever, FeedTypeOK
<1>19. CASE MorePanics
  BY <1>18, <1>19 DEF MorePanics, FeedTypeOK
<1>20. CASE Connect
  BY <1>20 DEF Connect, FeedTypeOK
<1>21. CASE Drop
  BY <1>18, <1>21 DEF Drop, FeedTypeOK
<1>22. CASE Flush
  BY <1>0, <1>22 DEF Flush, FeedTypeOK
<1>23. CASE Receive
  <2>1. Head(wire) \in Frames /\ Tail(wire) \in Seq(Frames) /\ Len(Tail(wire)) = Len(wire) - 1
    BY <1>0, <1>23, HeadTailProperties DEF Receive
  <2>2. Len(wire') <= MaxWire /\ wire' \in Seq(Frames)
    <3>1. wire' = Tail(wire)
      BY <1>23 DEF Receive
    <3>2. Len(wire) - 1 <= MaxWire
      BY <1>0
    <3> QED BY <2>1, <3>1, <3>2
  <2>3. table' \in Tables /\ pending' \in Seq(Rows) /\ loaded' \in BOOLEAN /\ failed' \in BOOLEAN
    <3>1. CASE Head(wire).type = "snapshot"
      BY <1>0, <1>23, <2>1, <3>1, FrameForms DEF Receive, DropPending
    <3>2. CASE Head(wire).type = "batch"
      <4>1. Head(wire).rows \in Seq(Rows)
        BY <2>1, <3>2, FrameForms
      <4>2. pending \o Head(wire).rows \in Seq(Rows)
        BY <1>0, <4>1, ConcatProperties
      <4> QED BY <1>23, <3>2, <4>2 DEF Receive, FeedTypeOK
    <3>3. CASE Head(wire).type = "error"
      BY <1>0, <1>23, <3>3 DEF Receive, FeedTypeOK
    <3> QED BY <2>1, <3>1, <3>2, <3>3, FrameForms
  <2> QED BY <1>23, <2>2, <2>3 DEF Receive, FeedTypeOK
<1>24. CASE UNCHANGED feedVars
  BY <1>24 DEF FeedTypeOK
<1> QED BY <1>1, <1>2, <1>3, <1>4, <1>5, <1>6, <1>7, <1>8, <1>9, <1>10, <1>11, <1>12, <1>13,
           <1>14, <1>15, <1>16, <1>17, <1>19, <1>20, <1>21, <1>22, <1>23, <1>24 DEF FeedNext

\* Frames are in hand only while they are written.
LEMMA HandKept ==
    ASSUME FeedTypeOK, InHand, [FeedNext]_feedVars
    PROVE  InHand'
<1> USE DEF feedVars, informer, relay, browser, link, InHand
<1>0. /\ events \in Events /\ notify \in Seq(Rows) /\ hand \in Seq(Frames)
      /\ <<Error>> # <<>>
  BY ErrorFrame DEF FeedTypeOK, Events
<1>1. ASSUME NEW o \in Objects, Change(o) PROVE InHand'
  <2>1. notify' # <<>>
    <3>1. PICK x : notify' = Append(notify, x)
      BY <1>1 DEF Change
    <3> QED BY <1>0, <3>1
  <2> QED BY <1>1, <2>1 DEF Change
<1>2. CASE WatchRecovered
  BY <1>2 DEF WatchRecovered
<1>3. CASE Publish
  BY <1>3 DEF Publish
<1>4. CASE WatchBreaks
  BY <1>4 DEF WatchBreaks
<1>5. CASE TellBroken
  BY <1>5 DEF TellBroken
<1>6. CASE Shutdown
  BY <1>6 DEF Shutdown
<1>7. CASE Register
  BY <1>7 DEF Register
<1>8. CASE BuildFails
  BY <1>8 DEF BuildFails, TellFailure
<1>9. CASE Capture
  <2>1. hand' # <<>>
    BY <1>9 DEF Capture
  <2> QED BY <1>9, <2>1 DEF Capture
<1>10. CASE SnapshotFails
  BY <1>0, <1>10 DEF SnapshotFails, TellFailure
<1>11. CASE Write
  <2>1. CASE at = "writing"
    BY <1>11, <2>1 DEF Write
  <2>2. CASE at = "failing"
    <3>1. Tail(hand) = <<>>
      <4>1. hand = <<Error>>
        BY <2>2
      <4>2. Tail(<<Error>>) = <<>>
        BY ErrorFrame, OneTail
      <4> QED BY <4>1, <4>2
    <3> QED BY <1>11, <2>2, <3>1 DEF Write
  <2> QED BY <1>11, <2>1, <2>2 DEF Write
<1>12. CASE TakeResync
  BY <1>12 DEF TakeResync
<1>13. CASE Refused
  BY <1>0, <1>13 DEF Refused
<1>14. CASE Drain
  BY <1>14 DEF Drain, DrainEvents
<1>15. CASE TakeEvents
  <2> DEFINE n     == BatchLength
             batch == IF n = 0 THEN <<>> ELSE <<[type |-> "batch", rows |-> SubSeq(events, 1, n)]>>
             stop  == n < MaxBatch /\ n < Len(events)
  <2>1. n = 0 => stop
    BY <1>15, BatchOK DEF TakeEvents
  <2>2. hand' = IF stop THEN Append(batch, Error) ELSE batch
    BY <1>15 DEF TakeEvents
  <2>3. batch = <<>> \/ batch = <<[type |-> "batch", rows |-> SubSeq(events, 1, n)]>>
    OBVIOUS
  <2>4. n # 0 => batch # <<>>
    <3> HIDE DEF n
    <3> QED OBVIOUS
  <2>5. Append(batch, Error) # <<>>
    <3> HIDE DEF n
    <3> QED BY <2>3
  <2>6. hand' # <<>>
    <3> HIDE DEF n, batch, stop
    <3> QED BY <2>1, <2>2, <2>4, <2>5
  <2>7. UNCHANGED <<informer, resync, closed, link, browser>> /\ at' = "writing" /\ at = "select" /\ events # <<>>
    BY <1>15 DEF TakeEvents
  <2> HIDE DEF n, batch, stop
  <2> QED BY <2>6, <2>7
<1>16. CASE FeedEnds
  BY <1>16 DEF FeedEnds
<1>17. CASE More
  BY <1>17 DEF More
<1>18. ASSUME Sever, UNCHANGED <<informer, browser>> PROVE InHand'
  BY <1>18 DEF Sever
<1>19. CASE MorePanics
  BY <1>18, <1>19 DEF MorePanics
<1>20. CASE Connect
  BY <1>20 DEF Connect
<1>21. CASE Drop
  BY <1>18, <1>21 DEF Drop
<1>22. CASE Flush
  BY <1>22 DEF Flush
<1>23. CASE Receive
  BY <1>23 DEF Receive
<1>24. CASE UNCHANGED feedVars
  BY <1>24
<1> QED BY <1>1, <1>2, <1>3, <1>4, <1>5, <1>6, <1>7, <1>8, <1>9, <1>10, <1>11, <1>12, <1>13,
           <1>14, <1>15, <1>16, <1>17, <1>19, <1>20, <1>21, <1>22, <1>23, <1>24 DEF FeedNext

-----------------------------------------------------------------------------
(* No change is lost: one lemma for each kind of step.                     *)

\* What a snapshot would bring, and what the frames under way bring.
Sound == Ahead /\ Covered /\ SnapshotFirst /\ NothingLost /\ SilenceIsTold

\* What is on its way to the browser is not touched by these steps.
FramesStay == UNCHANGED <<wire, hand, loaded, table, pending, failed, limited>>

\* Then what will arrive is the same.
LEMMA ArrivingStays ==
    ASSUME FramesStay
    PROVE  Arriving' = Arriving /\ ErrorArriving' = ErrorArriving /\ (wire \o hand)' = wire \o hand
BY DEF FramesStay, Arriving, ErrorArriving, Flushed

\* The cluster changes.
LEMMA ChangeStep ==
    ASSUME FeedTypeOK, Sound, NEW o \in Objects, Change(o)
    PROVE  Sound'
<1>1. PICK ver \in {changes + 1} \cup (IF cache[o] = 0 THEN {} ELSE {0}) :
                /\ cache' = [cache EXCEPT ![o] = ver]
                /\ notify' = Append(notify, [obj |-> o, ver |-> ver])
  BY DEF Change
<1>2. ver \in 0 .. MaxChanges
  BY <1>1, FeedAssumption DEF Change, FeedTypeOK
<1>3. PICK r \in Rows : r = [obj |-> o, ver |-> ver]
  BY <1>2 DEF Rows
<1>4. cache' = [cache EXCEPT ![r.obj] = r.ver] /\ notify' = Append(notify, r)
  BY <1>1, <1>3
<1>5. /\ FramesStay /\ UNCHANGED <<at, closed, resync, events, conn, asked>>
      /\ cache \in Tables /\ events \in Events /\ notify \in Seq(Rows) /\ <<>> \in Events
  BY DEF Change, FeedTypeOK, Events, FramesStay, relay, link, browser
<1>6. Arriving' = Arriving /\ ErrorArriving' = ErrorArriving /\ (wire \o hand)' = wire \o hand
  BY <1>5, ArrivingStays
<1>d. PICK d \in Tables : d = cache' /\ d[r.obj] = r.ver /\ \A p \in Objects : p # r.obj => d[p] = cache[p]
  BY <1>4, <1>5 DEF Tables, Rows
<1>7. Ahead'
  <2>1. Applied(cache, <<>>) = cache
    BY <1>5, AppliedEmpty
  <2>2. PICK e \in Events : e = <<>>
    BY <1>5
  <2>3. Applied(Applied(cache, e), notify) = cache
    BY <2>1, <2>2 DEF Sound, Ahead
  <2>4. cache' \in Tables /\ Applied(Applied(cache', e), Append(notify, r)) = cache'
    <3>1. Applied(Applied(d, e), Append(notify, r)) = d
      BY <1>5, <1>d, <2>3, ChangeCovers
    <3> QED BY <1>d, <3>1
  <2>5. Applied(cache', e) = cache'
    BY <2>2, <2>4, AppliedEmpty
  <2> QED BY <1>4, <2>4, <2>5 DEF Ahead
<1>8. Covered'
  <2>1. ASSUME Applied(Applied(cache, events), notify) = cache
        PROVE  Applied(Applied(cache', events), notify') = cache'
    <3>1. Applied(Applied(d, events), Append(notify, r)) = d
      BY <1>5, <1>d, <2>1, ChangeCovers
    <3> QED BY <1>4, <1>d, <3>1
  <2> QED BY <1>5, <2>1 DEF Covered, Sound
<1>9. NothingLost'
  <2>1. ASSUME Applied(Applied(Arriving, events), notify) = cache
        PROVE  Applied(Applied(Arriving, events), notify') = cache'
    <3>1. PICK t \in Tables : t = Applied(Arriving, events)
      BY <1>5, FlushedType, AppliedType
    <3>2. notify \in Events
      BY <1>5, RowsAreEvents
    <3>3. Applied(t, Append(notify, r)) = [Applied(t, notify) EXCEPT ![r.obj] = r.ver]
      BY <3>2, AppliedAppend
    <3> QED BY <1>4, <2>1, <3>1, <3>3
  <2> QED BY <1>5, <1>6, <2>1 DEF NothingLost, Sound
<1>10. SnapshotFirst' /\ SilenceIsTold'
  BY <1>5, <1>6 DEF SnapshotFirst, SilenceIsTold, Serving, Sound, FramesStay
<1> QED BY <1>7, <1>8, <1>9, <1>10 DEF Sound

\* The handler hands a notification to the channel.
LEMMA PublishStep ==
    ASSUME FeedTypeOK, InHand, Sound, Publish
    PROVE  Sound'
<1>1. /\ notify # <<>> /\ notify' = Tail(notify) /\ Fanout(Head(notify))
      /\ FramesStay /\ UNCHANGED <<at, closed, cache, conn, asked>>
      /\ cache \in Tables /\ events \in Events /\ notify \in Seq(Rows)
  BY DEF Publish, InHand, FeedTypeOK, Events, FramesStay, link, browser
<1>2. Arriving' = Arriving /\ ErrorArriving' = ErrorArriving /\ (wire \o hand)' = wire \o hand
  BY <1>1, ArrivingStays
<1>3. PICK h \in Rows : h = Head(notify)
  BY <1>1, AppliedHead
<1>4. /\ events' = events \/ (events' = Append(events, h) /\ resync' = resync)
      /\ Registered /\ events' = events => resync'
      /\ resync => resync'
  BY <1>1, <1>3, FanoutType
<1>5. Ahead'
  BY <1>1, TailAhead DEF Ahead, Sound
<1>6. ASSUME NEW t \in Tables, events' = Append(events, h)
      PROVE  Applied(Applied(t, events'), notify') = Applied(Applied(t, events), notify)
  BY <1>1, <1>3, <1>6, PublishMoves
<1>7. Covered'
  <2>1. ASSUME at \in {"registered", "drained"}, ~ closed, ~ resync'
        PROVE  Applied(Applied(cache, events'), notify') = cache
    <3>1. events' = Append(events, h) /\ ~ resync
      BY <1>4, <2>1 DEF Registered
    <3>2. Applied(Applied(cache, events), notify) = cache
      BY <2>1, <3>1 DEF Covered, Sound
    <3> QED BY <1>1, <1>6, <3>1, <3>2
  <2> QED BY <1>1, <2>1 DEF Covered
<1>8. NothingLost'
  <2>1. ASSUME at \in {"writing", "select"}, ~ closed, ~ resync', ~ ErrorArriving
        PROVE  Applied(Applied(Arriving, events'), notify') = cache
    <3>1. events' = Append(events, h) /\ ~ resync
      BY <1>4, <2>1 DEF Registered
    <3>2. Applied(Applied(Arriving, events), notify) = cache
      BY <2>1, <3>1 DEF NothingLost, Sound
    <3>3. Arriving \in Tables
      BY FlushedType
    <3> QED BY <1>6, <3>1, <3>2, <3>3
  <2> QED BY <1>1, <1>2, <2>1 DEF NothingLost
<1>9. SnapshotFirst' /\ SilenceIsTold'
  BY <1>1, <1>2 DEF SnapshotFirst, SilenceIsTold, Serving, Sound, FramesStay
<1> QED BY <1>5, <1>7, <1>8, <1>9 DEF Sound

\* watchBroke puts an error in the channel.
LEMMA TellBrokenStep ==
    ASSUME FeedTypeOK, Sound, TellBroken
    PROVE  Sound'
<1>1. /\ Fanout(Oops) /\ FramesStay /\ UNCHANGED <<at, closed, cache, notify, conn, asked>>
      /\ cache \in Tables /\ events \in Events
  BY DEF TellBroken, FeedTypeOK, Events, FramesStay, link, browser
<1>2. Arriving' = Arriving /\ ErrorArriving' = ErrorArriving /\ (wire \o hand)' = wire \o hand
  BY <1>1, ArrivingStays
<1>3. /\ events' = events \/ events' = Append(events, Oops)
      /\ resync => resync'
  BY <1>1, FanoutType
<1>4. ASSUME NEW t \in Tables PROVE Applied(t, events') = Applied(t, events)
  BY <1>1, <1>3, AppliedOops
<1>5. Applied(cache, events') = Applied(cache, events) /\ Applied(Arriving, events') = Applied(Arriving, events)
  BY <1>1, <1>4, FlushedType
<1>6. Ahead' /\ Covered'
  BY <1>1, <1>3, <1>5 DEF Ahead, Covered, Sound
<1>7. NothingLost'
  BY <1>1, <1>2, <1>3, <1>5 DEF NothingLost, Sound
<1>8. SnapshotFirst' /\ SilenceIsTold'
  BY <1>1, <1>2 DEF SnapshotFirst, SilenceIsTold, Serving, Sound, FramesStay
<1> QED BY <1>6, <1>7, <1>8 DEF Sound

\* Steps that change neither the cluster nor the frames: they may make a resync
\* due, close or empty the channel, or move relay on to where it reads the cache.
LEMMA QuietStep ==
    ASSUME FeedTypeOK, Sound, FramesStay, UNCHANGED <<cache, notify>>,
           at' \in {"registered", "drained"} /\ ~ closed' /\ ~ resync' =>
               \/ events' = <<>>
               \/ events' = events /\ at' = at /\ ~ closed /\ ~ resync,
           at' \in {"writing", "select"} /\ ~ closed' /\ ~ resync' =>
               events' = events /\ at' = at /\ ~ closed /\ ~ resync,
           Serving' => Serving,
           conn' /\ ~ asked' /\ at' = "off" => conn /\ ~ asked /\ at = "off"
    PROVE  Sound'
<1>1. Arriving' = Arriving /\ ErrorArriving' = ErrorArriving /\ (wire \o hand)' = wire \o hand
  BY ArrivingStays
<1>2. cache \in Tables /\ Applied(cache, <<>>) = cache
  BY AppliedEmpty DEF FeedTypeOK
<1>3. Ahead'
  BY DEF Ahead, Sound
<1>4. Covered'
  <2>1. ASSUME at' \in {"registered", "drained"}, ~ closed', ~ resync'
        PROVE  Applied(Applied(cache, events'), notify) = cache
    <3>1. CASE events' = <<>>
      BY <1>2, <3>1 DEF Ahead, Sound
    <3>2. CASE events' = events /\ at' = at /\ ~ closed /\ ~ resync
      BY <2>1, <3>2 DEF Covered, Sound
    <3> QED BY <2>1, <3>1, <3>2
  <2> QED BY <2>1 DEF Covered
<1>5. NothingLost'
  BY <1>1 DEF NothingLost, Sound
<1>6. SilenceIsTold'
  BY <1>1 DEF SilenceIsTold, Sound
<1>7. SnapshotFirst'
  BY <1>1 DEF SnapshotFirst, FirstSnapshot, Sound, FramesStay
<1> QED BY <1>3, <1>4, <1>5, <1>6, <1>7 DEF Sound

\* Frames that end in an error leave one.
LEMMA ErrorAtEnd ==
    ASSUME NEW e, NEW s \in Seq(Frames), s # <<>>, s[Len(s)].type = "error"
    PROVE  ErrorLast(e, s)
<1>1. Len(s) \in Nat \ {0} /\ DOMAIN s = 1 .. Len(s)
  BY EmptySeq
<1>2. Len(s) \in DOMAIN s /\ \A j \in DOMAIN s : ~ (j > Len(s))
  BY <1>1
<1> QED BY <1>2 DEF ErrorLast

\* buildSub or relay takes frames in hand.
TakesInHand ==
    /\ hand = <<>> /\ hand' \in Seq(Frames) /\ at' \in {"writing", "failing"}
    /\ UNCHANGED <<cache, notify, wire, loaded, table, pending, failed, limited, closed, resync>>

\* What they add to what will arrive.
LEMMA HandFacts ==
    ASSUME FeedTypeOK, TakesInHand
    PROVE  /\ wire \in Seq(Frames) /\ wire \o hand = wire
           /\ (wire \o hand)' = wire \o hand' /\ wire \o hand' \in Seq(Frames)
           /\ Arriving \in Tables
           /\ Arriving' = AllShown(Arriving, hand')
           /\ ErrorArriving' <=> ErrorLast(ErrorArriving, hand')
<1>1. /\ wire \in Seq(Frames) /\ failed \in BOOLEAN /\ hand' \in Seq(Frames) /\ hand = <<>>
      /\ Flushed \in Tables /\ Arriving \in Tables
  BY FlushedType DEF FeedTypeOK, TakesInHand
<1>2. wire \o hand = wire
  BY <1>1, ConcatEmptySeq
<1>3. (wire \o hand)' = wire \o hand' /\ wire \o hand' \in Seq(Frames) /\ Flushed' = Flushed /\ failed' = failed
  BY <1>1, ConcatProperties DEF TakesInHand, Flushed
<1>4. PICK h \in Seq(Frames) : h = hand'
  BY <1>1
<1>5. AllShown(Flushed, wire \o h) = AllShown(AllShown(Flushed, wire), h)
  BY <1>1, AllShownConcat
<1>6. ErrorLast(failed, wire \o h) <=> ErrorLast(ErrorLast(failed, wire), h)
  BY <1>1, ErrorConcat
<1> QED BY <1>1, <1>2, <1>3, <1>4, <1>5, <1>6 DEF Arriving, ErrorArriving

\* What is left to show when the frames in hand bring the rows or an error.
LEMMA HandStep ==
    ASSUME FeedTypeOK, Sound, TakesInHand,
           at' = "writing" /\ ~ closed /\ ~ resync =>
               ErrorArriving' \/ Applied(Applied(Arriving', events'), notify) = cache,
           Serving \/ \A k \in 1 .. Len(hand') : hand'[k].type # "batch",
           at' = "writing" => Serving \/ \E k \in 1 .. Len(hand') : hand'[k].type = "snapshot"
    PROVE  Sound'
<1>1. Ahead'
  BY DEF Ahead, Sound, TakesInHand
<1>2. Covered' /\ SilenceIsTold'
  BY DEF Covered, SilenceIsTold, TakesInHand
<1>3. NothingLost'
  BY DEF NothingLost, TakesInHand
<1>4. SnapshotFirst'
  <2>1. ASSUME ~ loaded PROVE FirstSnapshot(wire \o hand', Serving')
    <3>1. FirstSnapshot(wire, Serving) /\ wire \in Seq(Frames)
      BY <2>1, HandFacts DEF Sound, SnapshotFirst
    <3>2. PICK h \in Seq(Frames) : h = hand'
      BY DEF TakesInHand
    <3>3. PICK p \in BOOLEAN, q \in BOOLEAN : p = Serving /\ q = Serving'
      <4>1. Serving \in BOOLEAN /\ Serving' \in BOOLEAN
        BY DEF Serving
      <4> QED BY <4>1, Zenon
    <3>4. q <=> at' = "writing"
      BY <3>3 DEF Serving, TakesInHand
    <3>5. FirstSnapshot(wire \o h, q)
      BY <3>1, <3>2, <3>3, <3>4, FirstConcat
    <3> QED BY <3>2, <3>3, <3>5
  <2> QED BY <2>1, HandFacts DEF SnapshotFirst, TakesInHand
<1> QED BY <1>1, <1>2, <1>3, <1>4 DEF Sound

\* An error in hand: refused, or not readable.
LEMMA ErrorStep ==
    ASSUME FeedTypeOK, Sound, TakesInHand, hand' = <<Error>>, at' = "writing" => Serving
    PROVE  Sound'
<1>1. PICK h \in Seq(Frames) : h = hand' /\ h = <<Error>>
  BY ErrorFrame
<1>2. h # <<>> /\ Len(h) = 1 /\ h[1].type = "error"
  BY <1>1, ErrorFrame, OneInSeq
<1>3. ErrorLast(ErrorArriving, h)
  BY <1>2, ErrorAtEnd
<1>4. ErrorArriving'
  BY <1>1, <1>3, HandFacts
<1>5. \A k \in 1 .. Len(h) : h[k].type # "batch"
  BY <1>2
<1> QED BY <1>1, <1>4, <1>5, HandStep

\* A snapshot in hand.
LEMMA CaptureStep ==
    ASSUME FeedTypeOK, InHand, Sound, Capture
    PROVE  Sound'
<1>1. PICK msg \in Frames : msg = [type |-> "snapshot", rows |-> cache]
  BY DEF Frames, FeedTypeOK
<1>2. /\ hand' = <<msg>> /\ at' = "writing" /\ hand = <<>> /\ events' = events
      /\ UNCHANGED <<cache, notify, wire, loaded, table, pending, failed, limited, closed, resync>>
      /\ at \in {"registered", "drained"}
  BY <1>1 DEF Capture, InHand, informer, link, browser
<1>3. PICK h \in Seq(Frames) : h = <<msg>> /\ Len(h) = 1 /\ h[1] = msg
  BY OneInSeq
<1>4. TakesInHand
  BY <1>2, <1>3 DEF TakesInHand
<1>5. Arriving' = cache
  <2>1. Arriving \in Tables /\ Arriving' = AllShown(Arriving, <<msg>>)
    BY <1>2, <1>4, HandFacts
  <2>2. AllShown(Arriving, <<msg>>) = Shown(Arriving, msg)
    BY <2>1, AllShownOne
  <2>3. Shown(Arriving, msg) = cache
    BY <1>1 DEF Shown
  <2> QED BY <2>1, <2>2, <2>3
<1>6. ~ closed /\ ~ resync => Applied(Applied(Arriving', events'), notify) = cache
  BY <1>2, <1>5 DEF Sound, Covered
<1>7. msg.type = "snapshot"
  BY <1>1
<1>8. /\ \A k \in 1 .. Len(hand') : hand'[k].type # "batch"
      /\ \E k \in 1 .. Len(hand') : hand'[k].type = "snapshot"
  BY <1>2, <1>3, <1>7
<1> QED BY <1>4, <1>6, <1>8, HandStep

\* A batch in hand: what it took from the channel it brings to the browser.
LEMMA TakeEventsStep ==
    ASSUME FeedTypeOK, InHand, Sound, TakeEvents
    PROVE  Sound'
<1>1. PICK n : n = BatchLength
  OBVIOUS
<1>2. PICK rows \in Seq(Rows) : rows = SubSeq(events, 1, n)
  BY <1>1, BatchOK DEF TakeEvents
<1>3. PICK msg \in Frames : msg = [type |-> "batch", rows |-> rows]
  BY DEF Frames
<1>4. PICK stop \in BOOLEAN : stop <=> n < MaxBatch /\ n < Len(events)
  OBVIOUS
<1>5. PICK batch \in Seq(Frames) : batch = IF n = 0 THEN <<>> ELSE <<msg>>
  <2>1. <<>> \in Seq(Frames) /\ <<msg>> \in Seq(Frames)
    BY EmptySeq, OneInSeq
  <2> QED BY <2>1
<1>6. /\ at = "select" /\ events # <<>> /\ hand = <<>> /\ at' = "writing"
      /\ hand' = IF stop THEN Append(batch, Error) ELSE batch
      /\ events' = SubSeq(events, IF stop THEN n + 2 ELSE n + 1, Len(events))
      /\ UNCHANGED <<cache, notify, wire, loaded, table, pending, failed, limited, closed, resync>>
  BY <1>1, <1>2, <1>3, <1>4, <1>5 DEF TakeEvents, InHand, informer, link, browser
<1>7. /\ n \in 0 .. Len(events) /\ (n = 0 => stop)
      /\ events \in Events /\ Len(events) \in Nat
  BY <1>1, <1>4, <1>6, BatchOK DEF FeedTypeOK, Events
<1>8. TakesInHand
  <2>1. Append(batch, Error) \in Seq(Frames)
    BY ErrorFrame, AppendProperties
  <2> QED BY <1>6, <2>1 DEF TakesInHand
<1>9. ASSUME stop PROVE ErrorArriving'
  <2>1. PICK h \in Seq(Frames) : h = Append(batch, Error)
    BY ErrorFrame, AppendProperties
  <2>2. h # <<>> /\ h[Len(h)].type = "error"
    BY <2>1, ErrorFrame, AppendProperties
  <2>3. ErrorLast(ErrorArriving, h)
    BY <2>2, ErrorAtEnd
  <2> QED BY <1>6, <1>8, <1>9, <2>1, <2>3, HandFacts
<1>10. ASSUME ~ stop, ErrorArriving PROVE ErrorArriving'
  <2>1. ErrorLast(TRUE, <<msg>>)
    BY <1>3, ErrorOne
  <2>2. hand' = <<msg>>
    BY <1>5, <1>6, <1>7, <1>10
  <2>3. ErrorLast(ErrorArriving, <<msg>>)
    <3>1. ErrorArriving \in BOOLEAN
      BY DEF ErrorArriving, ErrorLast
    <3> QED BY <1>3, <1>10, <3>1, ErrorOne
  <2> QED BY <1>8, <2>2, <2>3, HandFacts
<1>11. ASSUME ~ stop PROVE Applied(Arriving', events') = Applied(Arriving, events)
  <2>1. hand' = <<msg>>
    BY <1>5, <1>6, <1>7, <1>11
  <2>2. Arriving \in Tables /\ Arriving' = AllShown(Arriving, <<msg>>)
    BY <1>8, <2>1, HandFacts
  <2>3. AllShown(Arriving, <<msg>>) = Shown(Arriving, msg)
    BY <2>2, AllShownOne
  <2>4. Shown(Arriving, msg) = Applied(Arriving, rows)
    BY <1>3 DEF Shown
  <2>5. PICK rest \in Events : rest = SubSeq(events, n + 1, Len(events))
    <3>1. \A i \in n + 1 .. Len(events) : events[i] \in Rows \cup {Oops}
      BY <1>7 DEF Events
    <3>2. n + 1 \in Int /\ Len(events) \in Int
      BY <1>7
    <3>3. SubSeq(events, n + 1, Len(events)) \in Seq(Rows \cup {Oops})
      BY <3>1, <3>2, SubSeqProperties
    <3> QED BY <3>3 DEF Events
  <2>6. rows \o rest = events
    <3>1. rows \o rest = SubSeq(events, 1, Len(events))
      <4>1. /\ 1 \in 1 .. Len(events) + 1 /\ n \in 1 - 1 .. Len(events)
            /\ Len(events) \in n .. Len(events) /\ events \in Seq(Rows \cup {Oops})
        BY <1>7 DEF Events
      <4>2. SubSeq(events, 1, n) \o SubSeq(events, n + 1, Len(events)) = SubSeq(events, 1, Len(events))
        BY <4>1, ConcatAdjacentSubSeq
      <4> QED BY <1>2, <2>5, <4>2
    <3> QED BY <1>7, <3>1, SubSeqFull DEF Events
  <2>7. Applied(Arriving, rows \o rest) = Applied(Applied(Arriving, rows), rest)
    BY RowsAreEvents, AppliedConcat
  <2>8. events' = rest
    BY <1>6, <1>11, <2>5
  <2> QED BY <2>2, <2>3, <2>4, <2>6, <2>7, <2>8
<1>12. Serving
  BY <1>6 DEF Serving
<1>13. at' = "writing" /\ ~ closed /\ ~ resync =>
               ErrorArriving' \/ Applied(Applied(Arriving', events'), notify) = cache
  BY <1>6, <1>9, <1>10, <1>11 DEF Sound, NothingLost
<1> QED BY <1>8, <1>12, <1>13, HandStep

\* A frame goes from the hand on to the wire.
LEMMA WriteStep ==
    ASSUME FeedTypeOK, InHand, Sound, Write
    PROVE  Sound'
<1>1. /\ wire \in Seq(Frames) /\ hand \in Seq(Frames) /\ hand # <<>>
      /\ wire' = Append(wire, Head(hand)) /\ hand' = Tail(hand)
      /\ UNCHANGED <<cache, notify, events, loaded, table, pending, failed, limited, closed, resync, conn, asked>>
  BY ErrorFrame DEF Write, InHand, FeedTypeOK, informer, browser
<1>2. PICK h \in Frames, w \in Seq(Frames) : h = Head(hand) /\ w = Tail(hand)
  BY <1>1, HeadTailProperties
<1>3. (wire \o hand)' = wire \o hand
  <2>1. hand = <<h>> \o w /\ <<h>> \in Seq(Frames)
    BY <1>1, <1>2, HeadThenTail, OneInSeq
  <2>2. Append(wire, h) = wire \o <<h>>
    BY <1>1, AppendIsConcat
  <2>3. (wire \o <<h>>) \o w = wire \o (<<h>> \o w)
    BY <1>1, <2>1, ConcatAssociative
  <2> QED BY <1>1, <1>2, <2>1, <2>2, <2>3
<1>4. Arriving' = Arriving /\ ErrorArriving' = ErrorArriving
  BY <1>1, <1>3 DEF Arriving, ErrorArriving, Flushed
<1>5. \/ at = "writing" /\ at' \in {"writing", "select"}
      \/ at = "failing" /\ at' = "off" /\ ErrorArriving
  <2>1. CASE at = "writing"
    BY <2>1 DEF Write
  <2>2. CASE at = "failing"
    <3>1. hand = <<Error>>
      BY <2>2 DEF InHand
    <3>2. Tail(hand) = <<>>
      BY <3>1, ErrorFrame, OneTail
    <3>3. PICK c \in Seq(Frames) : c = wire \o hand
      BY <1>1, ConcatProperties
    <3>4. c = Append(wire, Error)
      BY <1>1, <3>1, <3>3, ErrorFrame, AppendIsConcat
    <3>5. c # <<>> /\ c[Len(c)].type = "error"
      BY <1>1, <3>4, ErrorFrame, AppendProperties
    <3>6. ErrorArriving
      BY <3>3, <3>5, ErrorAtEnd DEF ErrorArriving
    <3> QED BY <2>2, <3>2, <3>6 DEF Write
  <2> QED BY <2>1, <2>2 DEF Write
<1>6. Ahead' /\ Covered'
  BY <1>1, <1>5 DEF Ahead, Covered, Sound
<1>7. NothingLost' /\ SilenceIsTold'
  BY <1>1, <1>4, <1>5 DEF NothingLost, SilenceIsTold, Sound
<1>8. SnapshotFirst'
  <2>1. Serving' => Serving
    BY <1>5 DEF Serving
  <2>2. PICK f : f = wire \o hand
    OBVIOUS
  <2>3. ~ loaded => FirstSnapshot(f, Serving)
    BY <2>2 DEF Sound, SnapshotFirst
  <2>4. ~ loaded => FirstSnapshot(f, Serving')
    BY <2>1, <2>3 DEF FirstSnapshot
  <2> QED BY <1>1, <1>3, <2>2, <2>4 DEF SnapshotFirst
<1> QED BY <1>6, <1>7, <1>8 DEF Sound

\* The connection ends.
LEMMA SeverStep ==
    ASSUME FeedTypeOK, Sound, Sever, UNCHANGED <<informer, browser>>
    PROVE  Sound'
<1>1. /\ UNCHANGED <<cache, notify, loaded>> /\ at' = "off" /\ ~ conn'
      /\ wire' = <<>> /\ hand' = <<>>
  BY DEF Sever, informer, browser
<1>2. PICK c \in Seq(Frames) : c = (wire \o hand)' /\ DOMAIN c = {}
  <2>1. <<>> \in Seq(Frames) /\ <<>> \o <<>> = <<>> /\ DOMAIN <<>> = {}
    BY EmptySeq
  <2> QED BY <1>1, <2>1
<1>3. FirstSnapshot(c, Serving')
  BY <1>1, <1>2 DEF FirstSnapshot, Serving
<1>4. SnapshotFirst'
  BY <1>2, <1>3 DEF SnapshotFirst
<1> QED BY <1>1, <1>4 DEF Sound, Ahead, Covered, NothingLost, SilenceIsTold

\* The browser applies the deltas that wait.
LEMMA FlushStep ==
    ASSUME FeedTypeOK, Sound, Flush
    PROVE  Sound'
<1>1. /\ table' = Flushed /\ pending' = <<>> /\ Flushed \in Tables
      /\ UNCHANGED <<cache, notify, events, loaded, failed, closed, resync, conn, asked, at, wire, hand>>
  BY FlushedType DEF Flush, informer, relay, link
<1>2. Flushed' = Flushed
  <2>1. Applied(Flushed, <<>>) = Flushed
    BY <1>1, AppliedEmpty
  <2>2. Flushed' = IF loaded THEN Applied(Flushed, <<>>) ELSE Flushed
    BY <1>1 DEF Flushed
  <2> QED BY <2>1, <2>2
<1>3. Arriving' = Arriving /\ ErrorArriving' = ErrorArriving /\ (wire \o hand)' = wire \o hand
  BY <1>1, <1>2 DEF Arriving, ErrorArriving
<1> QED BY <1>1, <1>3 DEF Sound, Ahead, Covered, NothingLost, SilenceIsTold, SnapshotFirst, FirstSnapshot, Serving

\* The browser receives a frame.
LEMMA ReceiveStep ==
    ASSUME FeedTypeOK, Sound, Receive
    PROVE  Sound'
<1>1. /\ wire \in Seq(Frames) /\ hand \in Seq(Frames) /\ wire # <<>> /\ wire' = Tail(wire)
      /\ UNCHANGED <<cache, notify, events, closed, resync, conn, asked, at, hand>>
      /\ Flushed \in Tables /\ failed \in BOOLEAN /\ table \in Tables /\ pending \in Seq(Rows)
  BY FlushedType DEF Receive, FeedTypeOK, informer, relay
<1>2. PICK m \in Frames, w \in Seq(Frames) : m = Head(wire) /\ w = Tail(wire)
  BY <1>1, HeadTailProperties
<1>3. PICK f \in Seq(Frames) : f = (wire \o hand)'
  BY <1>1, <1>2, ConcatProperties
<1>4. wire \o hand = <<m>> \o f /\ <<m>> \in Seq(Frames)
  <2>1. wire = <<m>> \o w /\ <<m>> \in Seq(Frames)
    BY <1>1, <1>2, HeadThenTail, OneInSeq
  <2>2. (<<m>> \o w) \o hand = <<m>> \o (w \o hand)
    BY <1>1, <2>1, ConcatAssociative
  <2> QED BY <1>1, <1>2, <1>3, <2>1, <2>2
<1>5. ASSUME ~ loaded, m.type # "snapshot" PROVE m.type # "batch" /\ FirstSnapshot(f, Serving)
  <2>1. FirstSnapshot(<<m>> \o f, Serving)
    BY <1>4, <1>5 DEF Sound, SnapshotFirst
  <2>2. PICK p \in BOOLEAN : p = Serving
    <3>1. Serving \in BOOLEAN
      BY DEF Serving
    <3> QED BY <3>1, Zenon
  <2>3. m.type # "batch" /\ FirstSnapshot(f, p)
    BY <1>5, <2>1, <2>2, FirstTail
  <2> QED BY <2>2, <2>3
<1>6. Flushed' = Shown(Flushed, m) /\ (failed' <=> m.type = "error" \/ (failed /\ m.type # "snapshot"))
      /\ (~ loaded' => ~ loaded /\ m.type # "snapshot")
  <2>1. CASE m.type = "snapshot"
    <3>1. m.rows \in Tables /\ loaded' = TRUE /\ table' = m.rows /\ failed' = FALSE /\ pending' = <<>>
      BY <1>2, <2>1, FrameForms DEF Receive, DropPending
    <3>2. Flushed' = Applied(m.rows, <<>>)
      BY <3>1 DEF Flushed
    <3>3. Applied(m.rows, <<>>) = m.rows
      BY <3>1, AppliedEmpty
    <3> QED BY <2>1, <3>1, <3>2, <3>3 DEF Shown
  <2>2. CASE m.type = "batch"
    <3>1. m.rows \in Seq(Rows) /\ loaded' = loaded /\ table' = table /\ failed' = failed /\ pending' = pending \o m.rows
      BY <1>2, <2>2, FrameForms DEF Receive
    <3>2. loaded
      BY <1>5, <2>2
    <3>3. Applied(table, pending \o m.rows) = Applied(Applied(table, pending), m.rows)
      BY <1>1, <3>1, RowsAreEvents, AppliedConcat
    <3> QED BY <1>1, <2>2, <3>1, <3>2, <3>3 DEF Shown, Flushed
  <2>3. CASE m.type = "error"
    <3>1. loaded' = loaded /\ table' = Flushed /\ failed' = TRUE /\ pending' = <<>>
      BY <1>2, <2>3 DEF Receive
    <3>2. Flushed' = IF loaded THEN Applied(Flushed, <<>>) ELSE Flushed
      BY <3>1 DEF Flushed
    <3>3. Applied(Flushed, <<>>) = Flushed
      BY <1>1, AppliedEmpty
    <3> QED BY <2>3, <3>1, <3>2, <3>3 DEF Shown
  <2> QED BY <2>1, <2>2, <2>3, FrameForms
<1>7. Arriving' = Arriving
  <2>1. AllShown(Flushed, <<m>> \o f) = AllShown(AllShown(Flushed, <<m>>), f)
    BY <1>4, AllShownConcat
  <2>2. AllShown(Flushed, <<m>>) = Shown(Flushed, m)
    BY <1>1, AllShownOne
  <2> QED BY <1>3, <1>4, <1>6, <2>1, <2>2 DEF Arriving
<1>8. ErrorArriving' <=> ErrorArriving
  <2>1. ErrorLast(failed, <<m>> \o f) <=> ErrorLast(ErrorLast(failed, <<m>>), f)
    BY <1>1, <1>4, ErrorConcat
  <2>2. ErrorLast(failed, <<m>>) <=> m.type = "error" \/ (failed /\ m.type # "snapshot")
    BY <1>1, ErrorOne
  <2>3. ErrorLast(failed, <<m>>) <=> failed'
    BY <1>6, <2>2
  <2>4. ErrorLast(ErrorLast(failed, <<m>>), f) <=> ErrorLast(failed', f)
    BY <2>3 DEF ErrorLast
  <2> QED BY <1>3, <1>4, <2>1, <2>4 DEF ErrorArriving
<1>9. SnapshotFirst'
  <2>1. Serving' = Serving
    BY <1>1 DEF Serving
  <2> QED BY <1>3, <1>5, <1>6, <2>1 DEF SnapshotFirst
<1> QED BY <1>1, <1>7, <1>8, <1>9 DEF Sound, Ahead, Covered, NothingLost, SilenceIsTold

-----------------------------------------------------------------------------
(* The theorem.                                                            *)

\* Every step loses nothing.
LEMMA FeedStep ==
    ASSUME FeedTypeOK, InHand, Sound, [FeedNext]_feedVars, InHand', FeedTypeOK'
    PROVE  Sound'
<1> USE DEF feedVars, informer, relay, browser, link
<1>1. ASSUME NEW o \in Objects, Change(o) PROVE Sound'
  BY <1>1, ChangeStep
<1>2. CASE WatchRecovered
  <2>1. resync => resync'
    BY <1>2 DEF WatchRecovered
  <2> QED BY <1>2, <2>1, QuietStep DEF WatchRecovered, FramesStay, Serving
<1>3. CASE Publish
  BY <1>3, PublishStep
<1>4. CASE WatchBreaks
  BY <1>4, QuietStep DEF WatchBreaks, FramesStay, Serving
<1>5. CASE TellBroken
  BY <1>5, TellBrokenStep
<1>6. CASE Shutdown
  BY <1>6, QuietStep DEF Shutdown, FramesStay, Serving
<1>7. CASE Register
  BY <1>7, QuietStep DEF Register, FramesStay, Serving
<1>8. CASE BuildFails
  <2>1. TakesInHand /\ hand' = <<Error>> /\ at' = "failing"
    BY <1>8, ErrorFrame DEF BuildFails, TellFailure, TakesInHand, InHand
  <2> QED BY <2>1, ErrorStep
<1>9. CASE Capture
  BY <1>9, CaptureStep
<1>10. CASE SnapshotFails
  <2>1. TakesInHand /\ hand' = <<Error>> /\ (at' = "writing" => Serving)
    BY <1>10, ErrorFrame DEF SnapshotFails, TellFailure, TakesInHand, InHand, Serving
  <2> QED BY <2>1, ErrorStep
<1>11. CASE Write
  BY <1>11, WriteStep
<1>12. CASE TakeResync
  BY <1>12, QuietStep DEF TakeResync, FramesStay, Serving
<1>13. CASE Refused
  <2>1. TakesInHand /\ hand' = <<Error>> /\ (at' = "writing" => Serving)
    BY <1>13, ErrorFrame DEF Refused, TakesInHand, InHand, Serving
  <2> QED BY <2>1, ErrorStep
<1>14. CASE Drain
  BY <1>14, QuietStep DEF Drain, DrainEvents, FramesStay, Serving
<1>15. CASE TakeEvents
  BY <1>15, TakeEventsStep
<1>16. CASE FeedEnds
  BY <1>16, QuietStep DEF FeedEnds, FramesStay, Serving
<1>17. CASE More
  BY <1>17, QuietStep DEF More, SignalResync, FramesStay, Serving
<1>18. CASE MorePanics
  BY <1>18, SeverStep DEF MorePanics
<1>19. CASE Connect
  BY <1>19, QuietStep DEF Connect, FramesStay, Serving
<1>20. CASE Drop
  BY <1>20, SeverStep DEF Drop
<1>21. CASE Flush
  BY <1>21, FlushStep
<1>22. CASE Receive
  BY <1>22, ReceiveStep
<1>23. CASE UNCHANGED feedVars
  BY <1>23, QuietStep DEF FramesStay, Serving
<1> QED BY <1>1, <1>2, <1>3, <1>4, <1>5, <1>6, <1>7, <1>8, <1>9, <1>10, <1>11, <1>12, <1>13,
           <1>14, <1>15, <1>16, <1>17, <1>18, <1>19, <1>20, <1>21, <1>22, <1>23 DEF FeedNext

\* A table that was never asked for.
LEMMA FeedStart ==
    ASSUME FeedInit
    PROVE  FeedIInv
<1>1. Empty \in Tables /\ cache = Empty /\ table = Empty
  BY FeedAssumption DEF FeedInit, Empty, Tables
<1>2. FeedTypeOK
  <2>1. <<>> \in Seq(Rows) /\ <<>> \in Seq(Frames) /\ <<>> \in Seq(Rows \cup {Oops}) /\ Len(<<>>) = 0
    BY EmptySeq
  <2>2. Len(events) <= EventBuffer /\ Len(wire) <= MaxWire
    BY <2>1, FeedAssumption DEF FeedInit
  <2>3. changes \in 0 .. MaxChanges /\ breaks \in 0 .. MaxBreaks /\ drops \in 0 .. MaxDrops
    BY FeedAssumption DEF FeedInit
  <2>4. limited \in BOOLEAN
    BY FeedAssumption DEF FeedInit
  <2>5. /\ notify \in Seq(Rows) /\ pending \in Seq(Rows) /\ hand \in Seq(Frames)
        /\ wire \in Seq(Frames) /\ events \in Seq(Rows \cup {Oops})
    BY <2>1 DEF FeedInit
  <2> QED BY <1>1, <2>2, <2>3, <2>4, <2>5 DEF FeedInit, FeedTypeOK
<1>3. InHand
  BY DEF FeedInit, InHand
<1>4. Ahead
  BY <1>1, AppliedEmpty DEF Ahead, FeedInit
<1>5. Covered /\ NothingLost /\ SilenceIsTold
  BY DEF FeedInit, Covered, NothingLost, SilenceIsTold
<1>6. SnapshotFirst
  <2>1. <<>> \o <<>> = <<>> /\ DOMAIN <<>> = {}
    OBVIOUS
  <2>2. wire \o hand = <<>>
    BY <2>1 DEF FeedInit
  <2> QED BY <2>1, <2>2 DEF FeedInit, SnapshotFirst, FirstSnapshot, Serving
<1> QED BY <1>2, <1>3, <1>4, <1>5, <1>6 DEF FeedIInv, FeedSound

\* No change is lost between the cache and the screen, whatever overflows, is
\* refused, breaks or is reconnected: while no resync is due, the frames under
\* way, the events in the channel and the notifications behind them bring the
\* table to the cache, or the browser is told that it failed (fanout, relay,
\* sendResync and the browser's apply).
THEOREM FeedSafety == FeedSpec => []FeedSound
<1>1. FeedInit => FeedIInv
  BY FeedStart
<1>2. FeedIInv /\ [FeedNext]_feedVars => FeedIInv'
  <2> SUFFICES ASSUME FeedIInv, [FeedNext]_feedVars PROVE FeedIInv'
    OBVIOUS
  <2>1. FeedTypeOK /\ InHand /\ Sound
    BY DEF FeedIInv, FeedSound, Sound
  <2>2. FeedTypeOK'
    BY <2>1, TypeStep
  <2>3. InHand'
    BY <2>1, HandKept
  <2>4. Sound'
    BY <2>1, <2>2, <2>3, FeedStep
  <2> QED BY <2>2, <2>3, <2>4 DEF FeedIInv, FeedSound, Sound
<1>3. FeedIInv => FeedSound
  BY DEF FeedIInv
<1> QED BY <1>1, <1>2, <1>3, PTL DEF FeedSpec

=============================================================================
