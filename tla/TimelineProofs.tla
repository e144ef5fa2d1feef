--------------------------- MODULE TimelineProofs ---------------------------
(***************************************************************************)
(* The safety of a recording, for any queue, batch and number of handlers: *)
(* every change is stored, told of as lost or still in somebody's hands,   *)
(* once.                                                                   *)
(***************************************************************************)
EXTENDS Timeline, FiniteSetTheorems, TLAPS

\* A change about to be noted is its handler's alone.
Stamped ==
    /\ \A h \in Handlers : stamp[h] <= clock /\ (stamp[h] # 0 => stamp[h] \notin noted)
    /\ \A c \in noted : c <= clock
    /\ \A h, i \in Handlers : stamp[h] # 0 /\ stamp[h] = stamp[i] => h = i

\* The batch is empty between writes, and holds something on the way to one.
BatchInHand == batch = <<>> <=> writerAt \in {"prune", "select", "stopped"}

\* A gap reaches to its last loss.  While the writer stores its row, the losses
\* it is about are still in the gap, which only grew.
GapReaches ==
    /\ \A c \in losses : c <= gap.to
    /\ writerAt = "row" =>
        /\ telling \subseteq losses /\ seen.count = Cardinality(telling) /\ seen.count # 0
        /\ \A c \in telling : c <= seen.to

\* The writer is told to stop after the recording is detached, and ends after that.
StopsInOrder ==
    /\ attached <=> closing \in {"recording", "cancelled"}
    /\ writerAt = "stopped" => closing = "stopping"

TimelineIInv == TimelineSound /\ Stamped /\ BatchInHand /\ GapReaches /\ StopsInOrder

-----------------------------------------------------------------------------
(* Finite sets and sequences of changes.                                   *)

\* Sets of changes are finite.
LEMMA ChangesFinite ==
    ASSUME NEW S, S \subseteq Changes
    PROVE  IsFiniteSet(S) /\ Cardinality(S) \in 0 .. MaxChanges
<1>1. IsFiniteSet(Changes) /\ Cardinality(Changes) = MaxChanges
  BY TimelineAssumption, FS_Interval DEF Changes
<1> QED BY <1>1, FS_Subset, FS_CardinalityType, TimelineAssumption

\* The changes of a sequence are no more than it is long.
LEMMA ToSetBound ==
    ASSUME NEW q \in Seq(Changes)
    PROVE  ToSet(q) \subseteq Changes /\ Cardinality(ToSet(q)) <= Len(q)
<1>1. ToSet(q) \subseteq Changes /\ Len(q) \in Nat /\ DOMAIN q = 1 .. Len(q)
  BY DEF ToSet
<1>2. q \in Surjection(1 .. Len(q), ToSet(q))
  BY <1>1 DEF Surjection, ToSet
<1> QED BY <1>1, <1>2, FS_SurjCardinalityBound DEF ExistsSurjection

\* A union is no larger than its parts together.
LEMMA UnionBound ==
    ASSUME NEW S, NEW T, S \subseteq Changes, T \subseteq Changes
    PROVE  /\ Cardinality(S \cup T) <= Cardinality(S) + Cardinality(T)
           /\ S \cup T \subseteq Changes
<1>1. IsFiniteSet(S) /\ IsFiniteSet(T) /\ Cardinality(S) \in Nat /\ Cardinality(T) \in Nat
  BY ChangesFinite
<1>2. Cardinality(S \cap T) \in Nat
  BY ChangesFinite
<1>3. Cardinality(S \cup T) = Cardinality(S) + Cardinality(T) - Cardinality(S \cap T)
  BY <1>1, FS_Union
<1> QED BY <1>1, <1>2, <1>3, ChangesFinite

\* What is left when a part is taken out.
LEMMA Remainder ==
    ASSUME NEW S, NEW T, S \subseteq Changes, T \subseteq S
    PROVE  Cardinality(S) = Cardinality(S \ T) + Cardinality(T)
<1>1. IsFiniteSet(S \ T) /\ IsFiniteSet(T) /\ Cardinality(S \ T) \in Nat /\ Cardinality(T) \in Nat
  BY ChangesFinite
<1>2. (S \ T) \cup T = S /\ (S \ T) \cap T = {}
  OBVIOUS
<1> QED BY <1>1, <1>2, FS_Union, FS_EmptySet

\* One change more.
LEMMA OneMore ==
    ASSUME NEW S, NEW c \in Changes, S \subseteq Changes
    PROVE  Cardinality(S \cup {c}) <= Cardinality(S) + 1 /\ (c \notin S => Cardinality(S \cup {c}) = Cardinality(S) + 1)
BY ChangesFinite, FS_AddElement

\* Among changes there is a last one, and a first.
LEMMA LastAndFirst ==
    ASSUME NEW S, S \subseteq Changes, S # {}
    PROVE  /\ Max(S) \in S /\ \A c \in S : c <= Max(S)
           /\ Min(S) \in S
<1> DEFINE After(x) == {y \in S : y > x}
           Before(x) == {y \in S : y < x}
<1>1. IsWellFoundedOn(StrictSubsetOrdering(S), FiniteSubsetsOf(S))
  BY FS_StrictSubsetOrderingWellFounded
<1>2. S \subseteq Int
  BY TimelineAssumption DEF Changes
<1>3. \E x \in S : \A y \in S : x >= y
  <2> DEFINE T == {After(x) : x \in S}
  <2>1. T \subseteq FiniteSubsetsOf(S) /\ T # {}
    BY ChangesFinite DEF FiniteSubsetsOf
  <2>2. PICK x \in S : \A y \in S : ~ (<<After(y), After(x)>> \in StrictSubsetOrdering(S))
    <3>1. \E X \in T : \A Y \in T : ~ (<<Y, X>> \in StrictSubsetOrdering(S))
      <4> HIDE DEF T
      <4> QED BY <1>1, <2>1, WFMin
    <3> QED BY <3>1
  <2>3. ASSUME NEW y \in S, y > x PROVE FALSE
    <3>1. After(y) \subseteq After(x) /\ y \in After(x) /\ y \notin After(y)
      <4>1. x \in Int /\ y \in Int /\ \A z \in S : z \in Int
        BY <1>2
      <4>2. (\A z \in S : z > y => z > x) /\ ~ (y > y)
        BY <2>3, <4>1
      <4> QED BY <2>3, <4>2, Zenon
    <3>2. <<After(y), After(x)>> \in StrictSubsetOrdering(S)
      BY <3>1 DEF StrictSubsetOrdering
    <3> QED BY <2>2, <3>2
  <2> QED BY <1>2, <2>3
<1>4. \E x \in S : \A y \in S : x <= y
  <2> DEFINE T == {Before(x) : x \in S}
  <2>1. T \subseteq FiniteSubsetsOf(S) /\ T # {}
    BY ChangesFinite DEF FiniteSubsetsOf
  <2>2. PICK x \in S : \A y \in S : ~ (<<Before(y), Before(x)>> \in StrictSubsetOrdering(S))
    <3>1. \E X \in T : \A Y \in T : ~ (<<Y, X>> \in StrictSubsetOrdering(S))
      <4> HIDE DEF T
      <4> QED BY <1>1, <2>1, WFMin
    <3> QED BY <3>1
  <2>3. ASSUME NEW y \in S, y < x PROVE FALSE
    <3>1. Before(y) \subseteq Before(x) /\ y \in Before(x) /\ y \notin Before(y)
      <4>1. x \in Int /\ y \in Int /\ \A z \in S : z \in Int
        BY <1>2
      <4>2. (\A z \in S : z < y => z < x) /\ ~ (y < y)
        BY <2>3, <4>1
      <4> QED BY <2>3, <4>2, Zenon
    <3>2. <<Before(y), Before(x)>> \in StrictSubsetOrdering(S)
      BY <3>1 DEF StrictSubsetOrdering
    <3> QED BY <2>2, <3>2
  <2> QED BY <1>2, <2>3
<1>5. Max(S) \in S /\ \A y \in S : Max(S) >= y
  BY <1>3 DEF Max
<1>6. Min(S) \in S
  BY <1>4 DEF Min
<1> QED BY <1>2, <1>5, <1>6

\* Sequences of changes: what appending does.
LEMMA AppendOne ==
    ASSUME NEW q \in Seq(Changes), NEW c \in Changes
    PROVE  /\ Append(q, c) \in Seq(Changes) /\ Len(Append(q, c)) = Len(q) + 1 /\ Append(q, c) # <<>>
           /\ ToSet(Append(q, c)) = ToSet(q) \cup {c}
<1>1. /\ Append(q, c) \in Seq(Changes) /\ Len(Append(q, c)) = Len(q) + 1 /\ Len(q) \in Nat
      /\ DOMAIN q = 1 .. Len(q) /\ DOMAIN Append(q, c) = 1 .. Len(q) + 1
      /\ Append(q, c)[Len(q) + 1] = c /\ \A i \in 1 .. Len(q) : Append(q, c)[i] = q[i]
  OBVIOUS
<1>2. ToSet(Append(q, c)) \subseteq ToSet(q) \cup {c}
  BY <1>1 DEF ToSet
<1>3. ToSet(q) \cup {c} \subseteq ToSet(Append(q, c))
  BY <1>1 DEF ToSet
<1> QED BY <1>1, <1>2, <1>3

\* Likewise for taking the head.
LEMMA TakeOne ==
    ASSUME NEW q \in Seq(Changes), q # <<>>
    PROVE  /\ Head(q) \in Changes /\ Tail(q) \in Seq(Changes) /\ Len(q) = Len(Tail(q)) + 1 /\ Len(Tail(q)) \in Nat
           /\ ToSet(q) = ToSet(Tail(q)) \cup {Head(q)}
<1>1. /\ Head(q) = q[1] /\ Head(q) \in Changes /\ Tail(q) \in Seq(Changes) /\ Len(q) \in Nat \ {0} /\ Len(Tail(q)) = Len(q) - 1
      /\ DOMAIN q = 1 .. Len(q) /\ DOMAIN Tail(q) = 1 .. Len(q) - 1
      /\ \A i \in 1 .. Len(q) - 1 : Tail(q)[i] = q[i + 1]
  OBVIOUS
<1>2. ToSet(Tail(q)) \cup {Head(q)} \subseteq ToSet(q)
  BY <1>1 DEF ToSet
<1>3. ASSUME NEW j \in 1 .. Len(q) PROVE q[j] \in ToSet(Tail(q)) \cup {Head(q)}
  <2>1. CASE j = 1
    BY <1>1, <2>1
  <2>2. CASE j # 1
    <3>1. j - 1 \in 1 .. Len(q) - 1 /\ Tail(q)[j - 1] = q[j]
      BY <1>1, <2>2
    <3> QED BY <1>1, <3>1 DEF ToSet
  <2> QED BY <2>1, <2>2
<1> QED BY <1>1, <1>2, <1>3 DEF ToSet

\* Short sequences.
LEMMA ShortSequences ==
    /\ ToSet(<<>>) = {} /\ Len(<<>>) = 0 /\ <<>> \in Seq(Changes)
    /\ \A c \in Changes : ToSet(<<c>>) = {c} /\ Len(<<c>>) = 1 /\ <<c>> \in Seq(Changes) /\ <<c>> # <<>>
BY DEF ToSet

-----------------------------------------------------------------------------
(* What is where before a step, and what the steps that move changes do.   *)

Told == UNION {row.losses : row \in rows}

\* The invariant in terms of Told, and the sizes it talks of.
LEMMA Places ==
    ASSUME TimelineIInv
    PROVE  /\ noted = ToSet(queue) \cup ToSet(batch) \cup stored \cup losses \cup Told
           /\ Cardinality(noted) = Len(queue) + Len(batch) + Cardinality(stored) + Cardinality(losses) + Cardinality(Told)
           /\ gap.count = Cardinality(losses)
           /\ noted \subseteq Changes /\ stored \subseteq Changes /\ losses \subseteq Changes /\ Told \subseteq Changes
           /\ queue \in Seq(Changes) /\ batch \in Seq(Changes)
           /\ ToSet(queue) \subseteq Changes /\ ToSet(batch) \subseteq Changes
           /\ Cardinality(ToSet(queue)) <= Len(queue) /\ Cardinality(ToSet(batch)) <= Len(batch)
           /\ Cardinality(noted) \in Nat /\ Cardinality(stored) \in Nat /\ Cardinality(losses) \in Nat
           /\ Cardinality(Told) \in Nat /\ Cardinality(ToSet(queue)) \in Nat /\ Cardinality(ToSet(batch)) \in Nat
           /\ Len(queue) \in Nat /\ Len(batch) \in Nat
<1>1. /\ noted = ToSet(queue) \cup ToSet(batch) \cup stored \cup losses \cup Told
      /\ Cardinality(noted) = Len(queue) + Len(batch) + Cardinality(stored) + Cardinality(losses) + Cardinality(Told)
      /\ gap.count = Cardinality(losses)
  BY DEF TimelineIInv, TimelineSound, Accounted, Told
<1>2. /\ noted \subseteq Changes /\ stored \subseteq Changes /\ losses \subseteq Changes /\ Told \subseteq Changes
      /\ queue \in Seq(Changes) /\ batch \in Seq(Changes)
  BY DEF TimelineIInv, TimelineSound, TimelineTypeOK, Told
<1>3. /\ ToSet(queue) \subseteq Changes /\ ToSet(batch) \subseteq Changes
      /\ Cardinality(ToSet(queue)) <= Len(queue) /\ Cardinality(ToSet(batch)) <= Len(batch)
      /\ Len(queue) \in Nat /\ Len(batch) \in Nat
  BY <1>2, ToSetBound
<1>4. \A S : S \subseteq Changes => Cardinality(S) \in Nat
  BY ChangesFinite, TimelineAssumption
<1> QED BY <1>1, <1>2, <1>3, <1>4

\* Four sets of changes that cover a fifth are together at least as large.
LEMMA FourBound ==
    ASSUME NEW A, NEW B, NEW C, NEW D, NEW N,
           A \subseteq Changes, B \subseteq Changes, C \subseteq Changes, D \subseteq Changes,
           N \subseteq A \cup B \cup C \cup D
    PROVE  Cardinality(N) <= Cardinality(A) + Cardinality(B) + Cardinality(C) + Cardinality(D)
<1>1. /\ Cardinality(A \cup B) <= Cardinality(A) + Cardinality(B)
      /\ Cardinality(A \cup B \cup C) <= Cardinality(A \cup B) + Cardinality(C)
      /\ Cardinality(A \cup B \cup C \cup D) <= Cardinality(A \cup B \cup C) + Cardinality(D)
  BY UnionBound
<1>2. A \cup B \cup C \cup D \subseteq Changes /\ IsFiniteSet(A \cup B \cup C \cup D)
  BY ChangesFinite
<1>3. Cardinality(N) <= Cardinality(A \cup B \cup C \cup D)
  BY <1>2, FS_Subset
<1>4. \A S : S \subseteq Changes => Cardinality(S) \in Nat
  BY ChangesFinite, TimelineAssumption
<1> QED BY <1>1, <1>2, <1>3, <1>4

\* A handler notes a change that is in no other place.
LEMMA Fresh ==
    ASSUME TimelineIInv, NEW h \in Handlers, Record(h)
    PROVE  stamp[h] \in Changes /\ stamp[h] \notin noted
BY TimelineAssumption DEF TimelineIInv, TimelineSound, TimelineTypeOK, Stamped, Record, Changes

\* Record drops a change: one loss more, and the gap reaches to it.
LEMMA Dropping ==
    ASSUME TimelineIInv, NEW h \in Handlers, Record(h), attached, ~ Room
    PROVE  /\ losses' = losses \cup {stamp[h]} /\ noted' = noted \cup {stamp[h]} /\ queue' = queue
           /\ Cardinality(losses') = Cardinality(losses) + 1
           /\ gap' \in Gaps /\ gap'.count = Cardinality(losses')
           /\ \A c \in losses' : c <= gap'.to
<1>1. stamp[h] \in Changes /\ stamp[h] \notin losses
  BY Fresh, Places
<1>2. /\ losses' = losses \cup {stamp[h]} /\ noted' = noted \cup {stamp[h]} /\ queue' = queue
      /\ NoteLoss(1, stamp[h], stamp[h])
  BY DEF Record, hole
<1>3. Cardinality(losses') = Cardinality(losses) + 1
  BY <1>1, <1>2, OneMore, Places
<1>4. gap \in Gaps /\ \A c \in losses : c <= gap.to
  BY DEF TimelineIInv, TimelineSound, TimelineTypeOK, GapReaches
<1>5. gap'.count = Cardinality(losses') /\ gap'.count \in 0 .. MaxChanges
  BY <1>1, <1>2, <1>3, Places, ChangesFinite DEF NoteLoss
<1>6. gap' \in Gaps
  BY <1>1, <1>2, <1>4, <1>5, TimelineAssumption DEF NoteLoss, Gaps, Changes
<1>7. \A c \in losses' : c <= gap'.to
  <2>1. gap.to \in Int /\ stamp[h] \in Int /\ losses \subseteq Int
    BY <1>1, <1>4, Places, TimelineAssumption DEF Gaps, Changes
  <2>2. gap'.to = IF stamp[h] > gap.to THEN stamp[h] ELSE gap.to
    BY <1>2 DEF NoteLoss
  <2>3. gap'.to \in Int /\ stamp[h] <= gap'.to /\ gap.to <= gap'.to
    BY <2>1, <2>2
  <2>4. \A c \in losses : c <= gap'.to
    BY <1>4, <2>1, <2>3
  <2> QED BY <1>2, <2>3, <2>4
<1> QED BY <1>2, <1>3, <1>5, <1>6, <1>7

\* The changes of the batch are in no other place: a set that they join grows by
\* as many as there are in the batch.  The count of all places is exact, so
\* nothing can be in two of them.
LEMMA BatchApart ==
    ASSUME TimelineIInv, NEW R, NEW S, R \subseteq Changes, S \subseteq Changes,
           noted \subseteq ToSet(queue) \cup R \cup (S \cup ToSet(batch)) \cup Told,
           Cardinality(noted) = Len(queue) + Len(batch) + Cardinality(R) + Cardinality(S) + Cardinality(Told)
    PROVE  Cardinality(S \cup ToSet(batch)) = Cardinality(S) + Len(batch)
<1> DEFINE s == Cardinality(S)
           m == Cardinality(S \cup ToSet(batch))
           n == Cardinality(noted)
           b == Len(batch)
           q == Len(queue)
           r == Cardinality(R)
           t == Cardinality(Told)
           x == Cardinality(ToSet(queue))
           y == Cardinality(ToSet(batch))
<1>1. m <= s + y /\ S \cup ToSet(batch) \subseteq Changes
  BY UnionBound, Places
<1>2. n <= x + r + m + t
  BY <1>1, FourBound, Places
<1>3. s \in Nat /\ m \in Nat /\ r \in Nat
  BY <1>1, ChangesFinite
<1>4. /\ n \in Nat /\ b \in Nat /\ q \in Nat /\ t \in Nat /\ x \in Nat /\ y \in Nat
      /\ y <= b /\ x <= q /\ n = q + b + r + s + t
  BY Places
<1>5. m = s + b
  <2> HIDE DEF s, m, n, b, q, r, t, x, y
  <2> QED BY <1>1, <1>2, <1>3, <1>4
<1> QED BY <1>5

\* The store refuses a batch: its changes were in no other place, so the losses
\* grow by as many as it held.
LEMMA Refusing ==
    ASSUME TimelineIInv, WriteRefused
    PROVE  /\ losses' = losses \cup ToSet(batch) /\ batch' = <<>>
           /\ Cardinality(losses') = Cardinality(losses) + Len(batch)
           /\ gap' \in Gaps /\ gap'.count = Cardinality(losses')
           /\ \A c \in losses' : c <= gap'.to
           /\ UNCHANGED <<noted, queue, stored, rows>>
<1>1. /\ losses' = losses \cup ToSet(batch) /\ batch' = <<>> /\ UNCHANGED <<noted, queue, stored, rows>>
      /\ LoseBatch /\ batch # <<>>
  BY DEF WriteRefused, Written, feed, TimelineIInv, BatchInHand
<1>2. Cardinality(losses') = Cardinality(losses) + Len(batch)
  <2>1. noted \subseteq ToSet(queue) \cup stored \cup (losses \cup ToSet(batch)) \cup Told
    BY Places
  <2>2. Cardinality(noted) = Len(queue) + Len(batch) + Cardinality(stored) + Cardinality(losses) + Cardinality(Told)
    BY Places
  <2> QED BY <1>1, <2>1, <2>2, BatchApart, Places
<1>3. gap \in Gaps /\ \A c \in losses : c <= gap.to
  BY DEF TimelineIInv, TimelineSound, TimelineTypeOK, GapReaches
<1>4. ToSet(batch) # {} /\ ToSet(batch) \subseteq Changes
  <2>1. ToSet(batch) = ToSet(Tail(batch)) \cup {Head(batch)}
    BY <1>1, Places, TakeOne
  <2> QED BY <2>1, Places
<1>5. /\ Max(ToSet(batch)) \in Changes /\ \A c \in ToSet(batch) : c <= Max(ToSet(batch))
      /\ Min(ToSet(batch)) \in Changes
  BY <1>4, LastAndFirst
<1>6. NoteLoss(Len(batch), Min(ToSet(batch)), Max(ToSet(batch)))
  BY <1>1 DEF LoseBatch
<1>7. losses' \subseteq Changes
  BY <1>1, Places
<1>8. gap'.count = Cardinality(losses') /\ gap'.count \in 0 .. MaxChanges
  BY <1>2, <1>6, <1>7, Places, ChangesFinite DEF NoteLoss
<1>9. gap' \in Gaps
  BY <1>3, <1>5, <1>6, <1>8, TimelineAssumption DEF NoteLoss, Gaps, Changes
<1>10. \A c \in losses' : c <= gap'.to
  <2>1. gap'.to \in Nat /\ gap'.to >= gap.to /\ gap'.to >= Max(ToSet(batch))
    BY <1>3, <1>5, <1>6, TimelineAssumption DEF NoteLoss, Gaps, Changes
  <2>2. gap.to \in Nat /\ Max(ToSet(batch)) \in Nat /\ losses' \subseteq Nat
    BY <1>3, <1>5, <1>7, TimelineAssumption DEF Gaps, Changes
  <2>3. \A c \in losses' : c <= gap.to \/ c <= Max(ToSet(batch))
    BY <1>1, <1>3, <1>5
  <2> QED BY <2>1, <2>2, <2>3
<1> QED BY <1>1, <1>2, <1>8, <1>9, <1>10

\* A row tells of the losses that were seen: those, and no others, go.
LEMMA Telling ==
    ASSUME TimelineIInv, TellGap
    PROVE  /\ telling \subseteq losses /\ losses' = losses \ telling
           /\ rows' = rows \cup {[gap |-> seen, losses |-> telling]} /\ Told' = Told \cup telling
           /\ Cardinality(losses) = Cardinality(losses') + Cardinality(telling)
           /\ gap' \in Gaps /\ gap'.count = Cardinality(losses')
           /\ \A c \in losses' : c <= gap'.to
           /\ UNCHANGED <<noted, queue, batch, stored>>
<1>1. /\ telling \subseteq losses /\ seen.count = Cardinality(telling)
      /\ losses' = losses \ telling /\ rows' = rows \cup {[gap |-> seen, losses |-> telling]}
      /\ gap' = RestOfGap /\ UNCHANGED <<noted, queue, batch, stored>>
  BY DEF TellGap, TimelineIInv, GapReaches, feed
<1>2. Told' = Told \cup telling
  <2> DEFINE new == [gap |-> seen, losses |-> telling]
  <2>1. new.losses = telling /\ rows' = rows \cup {new}
    BY <1>1
  <2> HIDE DEF new
  <2>2. \A c : c \in Told' <=> \E row \in rows' : c \in row.losses
    BY DEF Told
  <2>3. \A c : c \in Told <=> \E row \in rows : c \in row.losses
    BY DEF Told
  <2> QED BY <2>1, <2>2, <2>3
<1>3. Cardinality(losses) = Cardinality(losses') + Cardinality(telling)
  BY <1>1, Remainder, Places
<1>4. gap \in Gaps /\ seen \in Gaps /\ gap.count = Cardinality(losses) /\ \A c \in losses : c <= gap.to
  BY Places DEF TimelineIInv, TimelineSound, TimelineTypeOK, GapReaches
<1>5. Cardinality(losses') \in 0 .. MaxChanges /\ losses' \subseteq Changes
  BY <1>1, Places, ChangesFinite
<1>6. CASE gap.count <= seen.count
  <2>1. Cardinality(losses') = 0
    BY <1>1, <1>3, <1>4, <1>5, <1>6, TimelineAssumption DEF Gaps
  <2>2. losses' = {}
    BY <1>5, <2>1, ChangesFinite, FS_EmptySet
  <2>3. gap' = NoGap
    BY <1>1, <1>6 DEF RestOfGap
  <2> QED BY <1>1, <1>2, <1>3, <2>1, <2>2, <2>3, TimelineAssumption DEF NoGap, Gaps
<1>7. CASE ~ (gap.count <= seen.count)
  <2>1. gap' = [gap EXCEPT !.count = gap.count - seen.count, !.from = seen.to]
    BY <1>1, <1>7 DEF RestOfGap
  <2>2. gap.count - seen.count = Cardinality(losses')
    BY <1>1, <1>3, <1>4, <1>5, TimelineAssumption DEF Gaps
  <2>3. gap' \in Gaps /\ gap'.count = Cardinality(losses') /\ gap'.to = gap.to
    BY <1>4, <1>5, <2>1, <2>2 DEF Gaps
  <2> QED BY <1>1, <1>2, <1>3, <1>4, <2>3
<1> QED BY <1>6, <1>7

-----------------------------------------------------------------------------
(* Each part of the invariant is kept.                                     *)

\* Changes go from place to place, and none is lost or doubled on the way.
LEMMA AccountedStep ==
    ASSUME TimelineIInv, [TimelineNext]_timelineVars
    PROVE  Accounted'
<1> DEFINE Sum == Len(queue) + Len(batch) + Cardinality(stored) + Cardinality(losses) + Cardinality(Told)
           All == ToSet(queue) \cup ToSet(batch) \cup stored \cup losses \cup Told
<1> SUFFICES noted' = All' /\ Cardinality(noted') = Sum' /\ gap'.count = Cardinality(losses')
  BY DEF Accounted, Told
<1>a. noted = All /\ Cardinality(noted) = Sum /\ gap.count = Cardinality(losses)
  BY Places
<1>1. ASSUME UNCHANGED <<noted, queue, batch, stored, losses, rows, gap>>
      PROVE  noted' = All' /\ Cardinality(noted') = Sum' /\ gap'.count = Cardinality(losses')
  BY <1>1, <1>a DEF Told
<1>2. ASSUME NEW h \in Handlers, Record(h)
      PROVE  noted' = All' /\ Cardinality(noted') = Sum' /\ gap'.count = Cardinality(losses')
  <2>1. stamp[h] \in Changes /\ stamp[h] \notin noted
    BY <1>2, Fresh
  <2>2. UNCHANGED <<batch, stored, rows>> /\ Told' = Told
    BY <1>2 DEF Record, writer, kept, Told
  <2>3. CASE ~ attached
    BY <1>1, <1>2, <2>2, <2>3 DEF Record, hole
  <2>4. CASE attached /\ Room
    <3>1. noted' = noted \cup {stamp[h]} /\ queue' = Append(queue, stamp[h]) /\ UNCHANGED <<gap, losses>>
      BY <1>2, <2>4 DEF Record, hole
    <3>2. ToSet(queue') = ToSet(queue) \cup {stamp[h]} /\ Len(queue') = Len(queue) + 1
      BY <2>1, <3>1, AppendOne, Places
    <3>3. Cardinality(noted') = Cardinality(noted) + 1
      BY <2>1, <3>1, OneMore, Places
    <3>4. noted' = All'
      BY <2>2, <3>1, <3>2, <1>a
    <3>5. Cardinality(noted') = Sum'
      BY <2>2, <3>1, <3>2, <3>3, Places, SMTT(30)
    <3> QED BY <3>1, <3>4, <3>5, <1>a
  <2>5. CASE attached /\ ~ Room
    <3>1. /\ losses' = losses \cup {stamp[h]} /\ noted' = noted \cup {stamp[h]} /\ queue' = queue
          /\ Cardinality(losses') = Cardinality(losses) + 1 /\ gap'.count = Cardinality(losses')
      BY <1>2, <2>5, Dropping
    <3>2. Cardinality(noted') = Cardinality(noted) + 1
      BY <2>1, <3>1, OneMore, Places
    <3>3. noted' = All'
      BY <2>2, <3>1, <1>a
    <3>4. Cardinality(noted') = Sum'
      BY <2>2, <3>1, <3>2, Places
    <3> QED BY <3>1, <3>3, <3>4
  <2> QED BY <2>3, <2>4, <2>5
<1>3. CASE Take
  <2>1. /\ batch' = <<Head(queue)>> /\ queue' = Tail(queue) /\ queue # <<>> /\ batch = <<>>
        /\ UNCHANGED <<noted, stored, losses, rows, gap>> /\ Told' = Told
    BY <1>3 DEF Take, feed, hole, kept, TimelineIInv, BatchInHand, Told
  <2>2. /\ ToSet(queue) = ToSet(queue') \cup {Head(queue)} /\ Len(queue) = Len(queue') + 1 /\ Len(queue') \in Nat
        /\ ToSet(batch') = {Head(queue)} /\ Len(batch') = 1 /\ ToSet(batch) = {} /\ Len(batch) = 0
    BY <2>1, TakeOne, ShortSequences, Places
  <2>3. noted' = All'
    BY <2>1, <2>2, <1>a
  <2>4. Cardinality(noted') = Sum'
    BY <2>1, <2>2, Places
  <2> QED BY <2>1, <2>3, <2>4, <1>a
<1>4. CASE Fill
  <2>1. UNCHANGED <<noted, stored, losses, rows, gap>> /\ Told' = Told
    BY <1>4 DEF Fill, feed, hole, kept, Told
  <2>2. CASE queue # <<>> /\ batch' = Append(batch, Head(queue)) /\ queue' = Tail(queue)
    <3>1. /\ ToSet(queue) = ToSet(queue') \cup {Head(queue)} /\ Len(queue) = Len(queue') + 1 /\ Len(queue') \in Nat
          /\ Head(queue) \in Changes
      BY <2>2, TakeOne, Places
    <3>2. ToSet(batch') = ToSet(batch) \cup {Head(queue)} /\ Len(batch') = Len(batch) + 1
      BY <2>2, <3>1, AppendOne, Places
    <3>3. noted' = All'
      BY <2>1, <3>1, <3>2, <1>a
    <3>4. Cardinality(noted') = Sum'
      BY <2>1, <3>1, <3>2, Places
    <3> QED BY <2>1, <3>3, <3>4, <1>a
  <2>3. CASE UNCHANGED <<batch, queue>>
    BY <1>1, <2>1, <2>3
  <2> QED BY <1>4, <2>2, <2>3 DEF Fill
<1>5. CASE TellGap
  <2>1. /\ telling \subseteq losses /\ losses' = losses \ telling /\ Told' = Told \cup telling
        /\ Cardinality(losses) = Cardinality(losses') + Cardinality(telling)
        /\ gap'.count = Cardinality(losses') /\ UNCHANGED <<noted, queue, batch, stored>>
    BY <1>5, Telling
  <2>2. noted' = All'
    BY <2>1, <1>a
  <2>3. Cardinality(Told') = Cardinality(Told) + Cardinality(telling)
    <3> DEFINE l == Cardinality(losses)
               m == Cardinality(losses')
               k == Cardinality(telling)
               n == Cardinality(noted)
               b == Len(batch)
               q == Len(queue)
               s == Cardinality(stored)
               t == Cardinality(Told)
               u == Cardinality(Told')
               x == Cardinality(ToSet(queue))
               y == Cardinality(ToSet(batch))
               z == Cardinality(ToSet(queue) \cup ToSet(batch))
    <3>1. telling \subseteq Changes /\ losses' \subseteq Changes /\ Told' \subseteq Changes
      BY <2>1, Places
    <3>2. u <= t + k
      BY <2>1, <3>1, UnionBound, Places
    <3>3. ToSet(queue) \cup ToSet(batch) \subseteq Changes /\ z <= x + y
      BY UnionBound, Places
    <3>4. n <= z + s + m + u
      BY <2>1, <2>2, <3>1, <3>3, FourBound, Places
    <3>5. m \in Nat /\ k \in Nat /\ u \in Nat /\ z \in Nat
      BY <3>1, <3>3, ChangesFinite
    <3>6. /\ l \in Nat /\ n \in Nat /\ b \in Nat /\ q \in Nat /\ s \in Nat /\ t \in Nat /\ x \in Nat /\ y \in Nat
          /\ y <= b /\ x <= q /\ n = q + b + s + l + t /\ l = m + k
      BY <2>1, Places
    <3>7. u = t + k
      <4> HIDE DEF l, m, k, n, b, q, s, t, u, x, y, z
      <4> QED BY <3>2, <3>3, <3>4, <3>5, <3>6
    <3> QED BY <3>7
  <2>4. Cardinality(noted') = Sum'
    <3>1. Cardinality(losses') \in Nat /\ Cardinality(telling) \in Nat
      BY <2>1, ChangesFinite, Places
    <3> QED BY <2>1, <2>3, <3>1, Places
  <2> QED BY <2>1, <2>2, <2>4
<1>6. CASE Write
  <2>1. /\ stored' = stored \cup ToSet(batch) /\ batch' = <<>> /\ UNCHANGED <<noted, queue, losses, rows, gap>> /\ Told' = Told
    BY <1>6 DEF Write, Written, feed, hole, Told
  <2>2. noted \subseteq ToSet(queue) \cup losses \cup (stored \cup ToSet(batch)) \cup Told
    BY Places
  <2>3. Cardinality(noted) = Len(queue) + Len(batch) + Cardinality(losses) + Cardinality(stored) + Cardinality(Told)
    BY Places
  <2>4. Cardinality(stored') = Cardinality(stored) + Len(batch)
    BY <2>1, <2>2, <2>3, BatchApart, Places
  <2>5. noted' = All'
    BY <2>1, ShortSequences, <1>a
  <2>6. Cardinality(noted') = Sum'
    BY <2>1, <2>4, ShortSequences, Places
  <2> QED BY <2>1, <2>5, <2>6, <1>a
<1>7. CASE WriteRefused
  <2>1. /\ losses' = losses \cup ToSet(batch) /\ batch' = <<>> /\ Cardinality(losses') = Cardinality(losses) + Len(batch)
        /\ gap'.count = Cardinality(losses') /\ UNCHANGED <<noted, queue, stored, rows>>
    BY <1>7, Refusing
  <2>2. Told' = Told
    BY <2>1 DEF Told
  <2>3. noted' = All'
    BY <2>1, <2>2, ShortSequences, <1>a
  <2>4. Cardinality(noted') = Sum'
    BY <2>1, <2>2, ShortSequences, Places
  <2> QED BY <2>1, <2>3, <2>4
<1>8. ASSUME NEW h \in Handlers, Stamp(h)
      PROVE  noted' = All' /\ Cardinality(noted') = Sum' /\ gap'.count = Cardinality(losses')
  BY <1>1, <1>8 DEF Stamp, hole, writer, kept
<1>9. CASE Prune \/ ReadGap \/ GapRefused \/ Flush
  BY <1>1, <1>9 DEF Prune, ReadGap, GapRefused, Flush, feed, hole, kept
<1>10. CASE StartRecording \/ CancelStart \/ StopBackend \/ RequestStop
  BY <1>1, <1>10 DEF StartRecording, CancelStart, StopBackend, RequestStop, feed, hole, writer, kept
<1>11. CASE UNCHANGED timelineVars
  BY <1>1, <1>11 DEF timelineVars, feed, hole, writer, kept
<1> QED BY <1>2, <1>3, <1>4, <1>5, <1>6, <1>7, <1>8, <1>9, <1>10, <1>11 DEF TimelineNext

\* The state stays well formed.
LEMMA TypeStep ==
    ASSUME TimelineIInv, [TimelineNext]_timelineVars
    PROVE  TimelineTypeOK'
<1> USE DEF TimelineTypeOK, feed, hole, writer, kept
<1>a. TimelineTypeOK
  BY DEF TimelineIInv, TimelineSound
<1>1. ASSUME NEW h \in Handlers, Stamp(h) PROVE TimelineTypeOK'
  <2>1. clock' \in 0 .. MaxChanges
    BY <1>1, <1>a, TimelineAssumption DEF Stamp
  <2> QED BY <1>1, <1>a, <2>1 DEF Stamp
<1>2. ASSUME NEW h \in Handlers, Record(h) PROVE TimelineTypeOK'
  <2>1. stamp[h] \in Changes
    BY <1>2, Fresh
  <2>2. stamp' \in [Handlers -> 0 .. MaxChanges]
    BY <1>2, <1>a, TimelineAssumption DEF Record
  <2>3. UNCHANGED <<clock, attached, writerAt, flushing, batch, seen, telling, stored, rows, closing>>
    BY <1>2 DEF Record
  <2>4. CASE ~ attached
    BY <1>2, <1>a, <2>2, <2>3, <2>4 DEF Record
  <2>5. CASE attached /\ Room
    <3>1. noted' = noted \cup {stamp[h]} /\ queue' = Append(queue, stamp[h]) /\ UNCHANGED <<gap, losses>>
      BY <1>2, <2>5 DEF Record
    <3>2. queue' \in Seq(Changes) /\ Len(queue') <= Queue
      BY <2>1, <2>5, <3>1, AppendOne, Places, TimelineAssumption DEF Room
    <3> QED BY <1>a, <2>1, <2>2, <2>3, <3>1, <3>2
  <2>6. CASE attached /\ ~ Room
    <3>1. losses' = losses \cup {stamp[h]} /\ noted' = noted \cup {stamp[h]} /\ queue' = queue /\ gap' \in Gaps
      BY <1>2, <2>6, Dropping
    <3> QED BY <1>a, <2>1, <2>2, <2>3, <3>1
  <2> QED BY <2>4, <2>5, <2>6
<1>3. CASE Prune \/ GapRefused \/ Flush
  BY <1>3, <1>a DEF Prune, GapRefused, Flush
<1>4. CASE Take
  <2>1. /\ queue' \in Seq(Changes) /\ Len(queue') <= Queue /\ batch' \in Seq(Changes) /\ Len(batch') <= Batch
    BY <1>4, <1>a, TakeOne, ShortSequences, TimelineAssumption DEF Take
  <2> QED BY <1>4, <1>a, <2>1 DEF Take
<1>5. CASE Fill
  <2>1. CASE Len(batch) < Batch /\ queue # <<>> /\ batch' = Append(batch, Head(queue)) /\ queue' = Tail(queue)
    <3>1. queue' \in Seq(Changes) /\ Len(queue') <= Queue /\ Head(queue) \in Changes
      BY <1>a, <2>1, TakeOne, TimelineAssumption
    <3>2. batch' \in Seq(Changes) /\ Len(batch') <= Batch
      BY <1>a, <2>1, <3>1, AppendOne, TimelineAssumption
    <3> QED BY <1>5, <1>a, <3>1, <3>2 DEF Fill
  <2>2. CASE UNCHANGED <<batch, queue>>
    BY <1>5, <1>a, <2>2 DEF Fill
  <2> QED BY <1>5, <2>1, <2>2 DEF Fill
<1>6. CASE ReadGap
  BY <1>6, <1>a DEF ReadGap
<1>7. CASE TellGap
  <2>1. /\ gap' \in Gaps /\ losses' \subseteq losses
        /\ rows' = rows \cup {[gap |-> seen, losses |-> telling]}
    BY <1>7, Telling
  <2> QED BY <1>7, <1>a, <2>1 DEF TellGap
<1>8. CASE Write
  <2>1. stored' \subseteq Changes
    BY <1>8, Places DEF Write
  <2> QED BY <1>8, <1>a, <2>1, ShortSequences, TimelineAssumption DEF Write, Written
<1>9. CASE WriteRefused
  <2>1. losses' \subseteq Changes /\ gap' \in Gaps
    BY <1>9, Refusing, Places
  <2> QED BY <1>9, <1>a, <2>1, ShortSequences, TimelineAssumption DEF WriteRefused, Written
<1>10. CASE StartRecording \/ CancelStart \/ StopBackend \/ RequestStop
  BY <1>10, <1>a DEF StartRecording, CancelStart, StopBackend, RequestStop, Detach
<1>11. CASE UNCHANGED timelineVars
  BY <1>11, <1>a DEF timelineVars
<1> QED BY <1>1, <1>2, <1>3, <1>4, <1>5, <1>6, <1>7, <1>8, <1>9, <1>10, <1>11 DEF TimelineNext

\* Stamps are new, and noted once.
LEMMA StampedStep ==
    ASSUME TimelineIInv, [TimelineNext]_timelineVars
    PROVE  Stamped'
<1> USE DEF Stamped, feed, hole, writer, kept
<1>a. /\ clock \in Nat /\ stamp \in [Handlers -> Nat] /\ noted \subseteq Nat /\ Stamped
  <2>1. 0 .. MaxChanges \subseteq Nat /\ Changes \subseteq Nat
    BY TimelineAssumption DEF Changes
  <2> QED BY <2>1 DEF TimelineIInv, TimelineSound, TimelineTypeOK
<1>1. ASSUME NEW h \in Handlers, Stamp(h) PROVE Stamped'
  <2>1. clock' = clock + 1 /\ stamp' = [stamp EXCEPT ![h] = clock + 1] /\ noted' = noted
    BY <1>1 DEF Stamp
  <2> QED BY <1>a, <2>1
<1>2. ASSUME NEW h \in Handlers, Record(h) PROVE Stamped'
  <2>1. clock' = clock /\ stamp' = [stamp EXCEPT ![h] = 0] /\ (noted' = noted \/ noted' = noted \cup {stamp[h]})
    BY <1>2 DEF Record
  <2>2. stamp[h] # 0
    BY <1>2 DEF Record
  <2>3. \A i \in Handlers : stamp'[i] = (IF i = h THEN 0 ELSE stamp[i]) /\ (i # h => stamp[i] # stamp[h])
    BY <1>a, <2>1, <2>2
  <2>4. stamp[h] \in Nat /\ stamp[h] <= clock /\ 0 <= clock
    BY <1>a
  <2>5. \A i \in Handlers : stamp'[i] <= clock' /\ (stamp'[i] # 0 => stamp'[i] \notin noted')
    BY <1>a, <2>1, <2>3, <2>4
  <2>6. \A c \in noted' : c <= clock'
    BY <1>a, <2>1, <2>4
  <2>7. \A i, j \in Handlers : stamp'[i] # 0 /\ stamp'[i] = stamp'[j] => i = j
    BY <1>a, <2>3
  <2> QED BY <2>5, <2>6, <2>7
<1>3. CASE Prune \/ Take \/ Fill \/ ReadGap \/ TellGap \/ GapRefused \/ Write \/ WriteRefused \/ Flush
           \/ StartRecording \/ CancelStart \/ StopBackend \/ RequestStop
  <2>1. UNCHANGED <<clock, stamp, noted>>
    BY <1>3 DEF Prune, Take, Fill, ReadGap, TellGap, GapRefused, Write, WriteRefused, Written, Flush, StartRecording,
                CancelStart, StopBackend, RequestStop
  <2> QED BY <1>a, <2>1
<1>4. CASE UNCHANGED timelineVars
  BY <1>4, <1>a DEF timelineVars
<1> QED BY <1>1, <1>2, <1>3, <1>4 DEF TimelineNext

\* The gap reaches to the losses, and the row to those it tells of.
LEMMA GapStep ==
    ASSUME TimelineIInv, [TimelineNext]_timelineVars
    PROVE  GapReaches' /\ RowsTell'
<1> USE DEF GapReaches, RowsTell, feed, hole, writer, kept
<1>a. GapReaches /\ RowsTell
  BY DEF TimelineIInv, TimelineSound
<1>1. ASSUME NEW h \in Handlers, Stamp(h) PROVE GapReaches' /\ RowsTell'
  BY <1>1, <1>a DEF Stamp
<1>2. ASSUME NEW h \in Handlers, Record(h) PROVE GapReaches' /\ RowsTell'
  <2>1. UNCHANGED <<writerAt, telling, seen, rows>>
    BY <1>2 DEF Record
  <2>2. CASE UNCHANGED hole
    BY <2>1, <2>2, <1>a
  <2>3. CASE attached /\ ~ Room
    BY <1>2, <2>1, <2>3, Dropping, <1>a
  <2> QED BY <1>2, <2>2, <2>3 DEF Record
<1>3. CASE Prune \/ Take \/ Fill \/ GapRefused \/ Flush
  BY <1>3, <1>a DEF Prune, Take, Fill, GapRefused, Flush
<1>4. CASE ReadGap
  BY <1>4, <1>a, Places DEF ReadGap
<1>5. CASE TellGap
  <2>1. /\ rows' = rows \cup {[gap |-> seen, losses |-> telling]} /\ \A c \in losses' : c <= gap'.to
    BY <1>5, Telling
  <2>2. Cardinality(telling) = seen.count /\ \A c \in telling : c <= seen.to
    BY <1>5, <1>a DEF TellGap
  <2>3. RowsTell'
    BY <2>1, <2>2, <1>a
  <2> QED BY <1>5, <2>1, <2>3 DEF TellGap
<1>6. CASE Write
  BY <1>6, <1>a DEF Write, Written
<1>7. CASE WriteRefused
  BY <1>7, <1>a, Refusing DEF WriteRefused, Written
<1>8. CASE StartRecording \/ CancelStart \/ StopBackend \/ RequestStop
  BY <1>8, <1>a DEF StartRecording, CancelStart, StopBackend, RequestStop
<1>9. CASE UNCHANGED timelineVars
  BY <1>9, <1>a DEF timelineVars
<1> QED BY <1>1, <1>2, <1>3, <1>4, <1>5, <1>6, <1>7, <1>8, <1>9 DEF TimelineNext

\* The writer's hands are empty when it ends, and nothing is queued afterwards.
LEMMA EndStep ==
    ASSUME TimelineIInv, [TimelineNext]_timelineVars
    PROVE  BatchInHand' /\ StopsInOrder' /\ NothingLeft'
<1> USE DEF BatchInHand, StopsInOrder, NothingLeft, feed, hole, writer, kept
<1>a. BatchInHand /\ StopsInOrder /\ NothingLeft
  BY DEF TimelineIInv, TimelineSound
<1>1. ASSUME NEW h \in Handlers, Stamp(h) \/ Record(h) PROVE BatchInHand' /\ StopsInOrder' /\ NothingLeft'
  BY <1>1, <1>a DEF Stamp, Record
<1>2. CASE Prune \/ ReadGap \/ TellGap \/ GapRefused \/ Flush
  BY <1>2, <1>a DEF Prune, ReadGap, TellGap, GapRefused, Flush
<1>3. CASE Take
  BY <1>3, <1>a DEF Take
<1>4. CASE Fill
  <2>1. writerAt' \in {"fill", "gap"} /\ writerAt = "fill" /\ UNCHANGED <<attached, closing>>
    BY <1>4 DEF Fill
  <2>2. batch' # <<>>
    <3>1. CASE queue # <<>> /\ batch' = Append(batch, Head(queue))
      BY <3>1, AppendOne, TakeOne, Places
    <3> QED BY <1>4, <1>a, <3>1 DEF Fill
  <2> QED BY <1>a, <2>1, <2>2
<1>5. CASE Write \/ WriteRefused
  BY <1>5, <1>a DEF Write, WriteRefused, Written
<1>6. CASE StartRecording \/ CancelStart \/ StopBackend \/ RequestStop
  BY <1>6, <1>a DEF StartRecording, CancelStart, StopBackend, RequestStop, Detach
<1>7. CASE UNCHANGED timelineVars
  BY <1>7, <1>a DEF timelineVars
<1> QED BY <1>1, <1>2, <1>3, <1>4, <1>5, <1>6, <1>7 DEF TimelineNext

-----------------------------------------------------------------------------
(* The invariant holds, and with it what a recording promises.             *)

\* The invariant holds of a recording that starts.
LEMMA TimelineInitially == TimelineInit => TimelineIInv
<1> SUFFICES ASSUME TimelineInit PROVE TimelineIInv
  OBVIOUS
<1>1. TimelineTypeOK
  <2>1. NoGap \in Gaps /\ 0 \in 0 .. MaxChanges
    BY TimelineAssumption DEF Gaps, NoGap
  <2>2. queue \in Seq(Changes) /\ batch \in Seq(Changes) /\ Len(queue) <= Queue /\ Len(batch) <= Batch
    BY ShortSequences, TimelineAssumption DEF TimelineInit
  <2> QED BY <2>1, <2>2 DEF TimelineInit, TimelineTypeOK
<1>2. Told = {}
  BY DEF TimelineInit, Told
<1>3. Accounted
  <2>1. noted = {} /\ ToSet(queue) = {} /\ ToSet(batch) = {} /\ stored = {} /\ losses = {}
    BY ShortSequences DEF TimelineInit
  <2>2. Len(queue) = 0 /\ Len(batch) = 0 /\ gap.count = 0
    BY ShortSequences DEF TimelineInit, NoGap
  <2>3. Cardinality(noted) = Len(queue) + Len(batch) + Cardinality(stored) + Cardinality(losses) + Cardinality(Told)
    BY <1>2, <2>1, <2>2, FS_EmptySet
  <2> QED BY <1>2, <2>1, <2>2, <2>3, FS_EmptySet DEF Accounted, Told
<1>4. RowsTell /\ NothingLeft /\ Stamped /\ BatchInHand /\ GapReaches /\ StopsInOrder
  BY DEF TimelineInit, RowsTell, NothingLeft, Stamped, BatchInHand, GapReaches, StopsInOrder
<1> QED BY <1>1, <1>3, <1>4 DEF TimelineIInv, TimelineSound

\* Every change that was noted is stored, told of as lost or in somebody's hands,
\* once; rows tell what was lost; and nothing is left when the writer has ended,
\* for any queue, batch, handlers and refusals of the store (Note, write,
\* closeGap, flush).
THEOREM TimelineSafety == TimelineSpec => []TimelineSound
<1>1. ASSUME TimelineIInv, [TimelineNext]_timelineVars PROVE TimelineIInv'
  BY <1>1, TypeStep, AccountedStep, StampedStep, GapStep, EndStep DEF TimelineIInv, TimelineSound
<1>2. TimelineIInv => TimelineSound
  BY DEF TimelineIInv
<1> QED BY <1>1, <1>2, TimelineInitially, PTL DEF TimelineSpec

=============================================================================
