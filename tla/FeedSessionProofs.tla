------------------------- MODULE FeedSessionProofs -------------------------
(***************************************************************************)
(* The safety of one feed websocket, for any names, clusters, limits and   *)
(* number of subscribe messages: nothing that was opened is lost, no unit  *)
(* of the log budget either, and frames reach the browser in order.        *)
(***************************************************************************)
EXTENDS FeedSession, FiniteSetTheorems, TLAPS

\* Generations are given out in order, each for one slot; the reader and
\* closeCluster finish with what they took out before they take out more.
Claimed ==
    /\ \A g \in Gens : (g <= nextGen <=> slot[g] # None) /\ (g <= nextGen <=> pc[g] # "none")
    /\ \A s \in Slots : entry[s] # 0 => entry[s] <= nextGen /\ slot[entry[s]] = s
    /\ \A a \in {"reader", "closer"} : \A g \in doomed[a] : g <= nextGen
    /\ asking # None => doomed["reader"] = {} /\ nextGen < MaxGen
    /\ closing = None => doomed["closer"] = {}

\* The slots in use are finitely many, whatever names the browser uses.
FewHeld == IsFiniteSet({s \in Slots : entry[s] # 0})

\* A builder opens one thing, and its entry holds it once it was adopted.
Stages ==
    \A g \in Gens :
        /\ pc[g] = "opened" => g \in open /\ g \notin adopted
        /\ g \in adopted => pc[g] \in {"relaying", "writing", "ending", "done"}
        /\ g \in open => pc[g] \notin {"none", "claimed", "spawned", "building", "failing", "telling"}

\* writeMu has one holder, the builder that is writing.
OneWriter ==
    /\ \A g, h \in writing : g = h
    /\ \A g \in Gens : g \in writing <=> pc[g] \in {"writing", "ending", "telling"}

\* The entry is the newest claim on its name, and no frame is newer than it or
\* than the one being written.
Newest ==
    /\ \A s \in Slots : last[s] <= nextGen
    /\ \A s \in Slots : entry[s] # 0 => last[s] <= entry[s] /\ \A g \in Gens : slot[g] = s => g <= entry[s]
    /\ \A g \in writing : last[slot[g]] <= g

SessionIInv == SessionSound /\ Claimed /\ FewHeld /\ Stages /\ OneWriter /\ Newest

-----------------------------------------------------------------------------
(* What the invariant says of generations before a step.                   *)

\* Generations are numbered from one; zero stands for none.
LEMMA GensType ==
    /\ 0 \in 0 .. MaxGen /\ Gens \subseteq 0 .. MaxGen /\ \A g \in 0 .. MaxGen : g # 0 => g \in Gens
    /\ None \notin Slots
BY SessionAssumption DEF Gens, Slots, Feeds

\* Whoever claimed, builds, writes or is to be stopped has a slot.
LEMMA Slotted ==
    ASSUME SessionIInv
    PROVE  /\ \A g \in Gens : pc[g] # "none" => slot[g] \in Slots /\ g <= nextGen
           /\ \A g \in Gens : slot[g] # None => slot[g] \in Slots /\ g <= nextGen
           /\ \A g \in writing : g \in Gens /\ pc[g] \in {"writing", "ending", "telling"} /\ slot[g] \in Slots
BY GensType DEF SessionIInv, SessionSound, SessionTypeOK, Claimed, OneWriter

\* tryClaim gives a name a generation that nothing refers to.
LEMMA Claiming ==
    ASSUME SessionIInv, TryClaim
    PROVE  \E g \in Gens, s \in Slots :
             /\ g = nextGen + 1 /\ g \in 0 .. MaxGen /\ nextGen' = g
             /\ slot[g] = None /\ pc[g] = "none"
             /\ g \notin open \cup adopted \cup writing \cup reserved
             /\ \A t \in Slots : entry[t] # g
             /\ entry[s] # 0 \/ Held < MaxSubscriptions
             /\ entry' = [entry EXCEPT ![s] = g] /\ slot' = [slot EXCEPT ![g] = s]
             /\ \E c \in Clusters : on' = [on EXCEPT ![g] = c]
             /\ \E place \in {"claimed", "failing"} : pc' = [pc EXCEPT ![g] = place]
             /\ claimed' = g /\ asking' = None
             /\ doomed["reader"] = {}
             /\ doomed' = [doomed EXCEPT !["reader"] = IF entry[s] = 0 THEN {} ELSE {entry[s]}]
             /\ UNCHANGED <<open, adopted, reserved, writing, last, alive, opened, closing>>
<1> DEFINE g == nextGen + 1
           s == asking.slot
<1>1. asking \in Requests /\ nextGen < MaxGen /\ nextGen \in 0 .. MaxGen /\ doomed["reader"] = {}
  BY DEF SessionIInv, SessionSound, SessionTypeOK, Claimed, TryClaim
<1>2. g \in Gens /\ g \in 0 .. MaxGen /\ ~ (g <= nextGen) /\ s \in Slots /\ asking.on \in Clusters /\ asking.found \in BOOLEAN
  BY <1>1, SessionAssumption DEF Gens, Requests
<1>3. slot[g] = None /\ pc[g] = "none"
  BY <1>2 DEF SessionIInv, Claimed
<1>4. g \notin open \cup adopted \cup writing \cup reserved
  BY <1>2, <1>3 DEF SessionIInv, SessionSound, UnitsAccounted, Stages, OneWriter
<1>5. \A t \in Slots : entry[t] # g
  BY <1>1, <1>2, SessionAssumption DEF SessionIInv, SessionSound, SessionTypeOK, Claimed, Gens
<1>6. entry[s] # 0 \/ Held < MaxSubscriptions
  <2>1. ~ Full(s)
    BY DEF TryClaim
  <2>2. Held <= MaxSubscriptions /\ Held \in Nat
    BY FS_CardinalityType DEF SessionIInv, SessionSound, SessionTypeOK, FewHeld, Held
  <2> QED BY <2>1, <2>2, SessionAssumption DEF Full
<1>7. /\ nextGen' = g /\ entry' = [entry EXCEPT ![s] = g] /\ slot' = [slot EXCEPT ![g] = s]
      /\ on' = [on EXCEPT ![g] = asking.on]
      /\ pc' = [pc EXCEPT ![g] = IF asking.found THEN "claimed" ELSE "failing"]
      /\ claimed' = g /\ asking' = None
      /\ doomed' = [doomed EXCEPT !["reader"] = IF entry[s] = 0 THEN {} ELSE {entry[s]}]
      /\ UNCHANGED <<open, adopted, reserved, writing, last, alive, opened, closing>>
  BY DEF TryClaim, Goto
<1> HIDE DEF s
<1> QED BY <1>1, <1>2, <1>3, <1>4, <1>5, <1>6, <1>7

-----------------------------------------------------------------------------
(* Each part of the invariant is kept.                                     *)

\* The limits are kept: a claim and a reservation look first.
LEMMA Limits ==
    ASSUME SessionIInv, [SessionNext]_sessionVars
    PROVE  Cardinality(reserved') <= LogLimit /\ Held' <= MaxSubscriptions /\ FewHeld'
<1> DEFINE taken == {s \in Slots : entry[s] # 0}
<1>1. IsFiniteSet(reserved) /\ Cardinality(reserved) <= LogLimit /\ LogLimit \in Nat
  <2>1. reserved \subseteq Gens /\ IsFiniteSet(Gens)
    BY SessionAssumption, FS_Interval DEF SessionIInv, SessionSound, SessionTypeOK, Gens
  <2> QED BY <2>1, FS_Subset, SessionAssumption DEF SessionIInv, SessionSound, SessionTypeOK
<1>2. reserved' \subseteq reserved \/ \E g : reserved' = reserved \cup {g} /\ Cardinality(reserved) < LogLimit
  BY
     DEF SessionNext, Build, sessionVars, claims, builder, reader, Lookup, Refuse, TryClaim, Spawn, Cancel,
         CloseAll, Unsubscribe, Stop,
         HoldCancel, Reserve, Opened, OpenFails, Adopt, FailAndForget, CheckCurrent, WriteFrame, RelayEnds, DropOn,
         CloseCluster, Release
<1>3. Cardinality(reserved') <= LogLimit
  <2>1. CASE reserved' \subseteq reserved
    <3>1. Cardinality(reserved') <= Cardinality(reserved) /\ IsFiniteSet(reserved')
      BY <1>1, <2>1, FS_Subset
    <3> QED BY <1>1, <3>1, FS_CardinalityType
  <2>2. ASSUME NEW g, reserved' = reserved \cup {g}, Cardinality(reserved) < LogLimit PROVE Cardinality(reserved') <= LogLimit
    <3>1. Cardinality(reserved \cup {g}) = IF g \in reserved THEN Cardinality(reserved) ELSE Cardinality(reserved) + 1
      BY <1>1, FS_AddElement
    <3> QED BY <1>1, <2>2, <3>1, FS_CardinalityType
  <2> QED BY <1>2, <2>1, <2>2
<1>4. IsFiniteSet(taken) /\ Cardinality(taken) <= MaxSubscriptions /\ Cardinality(taken) \in Nat
  BY FS_CardinalityType DEF SessionIInv, SessionSound, SessionTypeOK, FewHeld, Held
<1>5. taken' \subseteq taken \/ \E s \in Slots : taken' = taken \cup {s} /\ (s \in taken \/ Cardinality(taken) < MaxSubscriptions)
  <2>1. CASE TryClaim
    <3>1. PICK g \in Gens, s \in Slots : entry' = [entry EXCEPT ![s] = g] /\ (entry[s] # 0 \/ Held < MaxSubscriptions)
      BY <2>1, Claiming
    <3>2. taken' = taken \cup {s}
      BY <3>1, SessionAssumption DEF SessionIInv, SessionSound, SessionTypeOK, Gens
    <3> QED BY <3>1, <3>2 DEF Held
  <2>2. CASE ~ TryClaim
    <3>1. \A s \in Slots : entry[s] = 0 => entry'[s] = 0
      BY <2>2
         DEF SessionIInv, SessionSound, SessionTypeOK, SessionNext, Build, sessionVars, claims, builder, reader,
             Lookup, Refuse,
         Spawn, Cancel, CloseAll, Unsubscribe, Stop,
         HoldCancel, Reserve, Opened, OpenFails, Adopt, FailAndForget, CheckCurrent, WriteFrame, RelayEnds, DropOn,
         CloseCluster
    <3> QED BY <3>1
  <2> QED BY <2>1, <2>2
<1>6. IsFiniteSet(taken') /\ Cardinality(taken') <= MaxSubscriptions
  <2> HIDE DEF taken
  <2>1. CASE taken' \subseteq taken
    <3>1. Cardinality(taken') <= Cardinality(taken) /\ IsFiniteSet(taken')
      BY <1>4, <2>1, FS_Subset
    <3> QED BY <1>4, <3>1, FS_CardinalityType, SessionAssumption
  <2>2. ASSUME NEW s \in Slots, taken' = taken \cup {s}, s \in taken \/ Cardinality(taken) < MaxSubscriptions
        PROVE  IsFiniteSet(taken') /\ Cardinality(taken') <= MaxSubscriptions
    <3>1. /\ IsFiniteSet(taken \cup {s})
          /\ Cardinality(taken \cup {s}) = IF s \in taken THEN Cardinality(taken) ELSE Cardinality(taken) + 1
      BY <1>4, FS_AddElement
    <3> QED BY <1>4, <2>2, <3>1, SessionAssumption
  <2> QED BY <1>5, <2>1, <2>2
<1> QED BY <1>3, <1>6 DEF FewHeld, Held

\* The state stays well formed.
LEMMA TypeStep ==
    ASSUME SessionIInv, [SessionNext]_sessionVars
    PROVE  SessionTypeOK'
<1> USE GensType, Slotted, Limits DEF SessionIInv, SessionSound, SessionTypeOK, claims, builder, reader, Goto
<1>1. ASSUME NEW s \in Slots, NEW c \in Clusters, Lookup(s, c) PROVE SessionTypeOK'
  BY <1>1 DEF Lookup, Requests
<1>2. CASE Refuse
  BY <1>2 DEF Refuse
<1>3. CASE TryClaim
  <2>1. PICK g \in Gens, s \in Slots :
          /\ g \in 0 .. MaxGen /\ nextGen' = g
          /\ entry' = [entry EXCEPT ![s] = g] /\ slot' = [slot EXCEPT ![g] = s]
          /\ \E c \in Clusters : on' = [on EXCEPT ![g] = c]
          /\ \E place \in {"claimed", "failing"} : pc' = [pc EXCEPT ![g] = place]
          /\ claimed' = g /\ asking' = None
          /\ doomed' = [doomed EXCEPT !["reader"] = IF entry[s] = 0 THEN {} ELSE {entry[s]}]
          /\ UNCHANGED <<open, adopted, reserved, writing, last, alive, opened, closing>>
    BY <1>3, Claiming
  <2> QED BY <2>1 DEF Places
<1>4. CASE Spawn
  BY <1>4 DEF Spawn, Places
<1>5. CASE Cancel
  BY <1>5 DEF Cancel
<1>6. CASE CloseAll
  BY <1>6 DEF CloseAll, Everything
<1>7. ASSUME NEW s \in Slots, Unsubscribe(s) PROVE SessionTypeOK'
  BY <1>7 DEF Unsubscribe
<1>8. ASSUME NEW a \in {"reader", "closer"}, NEW g \in Gens, Stop(a, g) PROVE SessionTypeOK'
  BY <1>8 DEF Stop
<1>9. ASSUME NEW g \in Gens, HoldCancel(g) PROVE SessionTypeOK'
  BY <1>9 DEF HoldCancel, Places
<1>10. ASSUME NEW g \in Gens, Reserve(g) PROVE SessionTypeOK'
  BY <1>10 DEF Reserve, Places
<1>11. ASSUME NEW g \in Gens, Opened(g) PROVE SessionTypeOK'
  BY <1>11 DEF Opened, Places
<1>12. ASSUME NEW g \in Gens, OpenFails(g) PROVE SessionTypeOK'
  BY <1>12 DEF OpenFails, Places, Release
<1>13. ASSUME NEW g \in Gens, Adopt(g) PROVE SessionTypeOK'
  BY <1>13 DEF Adopt, Places, Release
<1>14. ASSUME NEW g \in Gens, FailAndForget(g) PROVE SessionTypeOK'
  <2>1. slot[g] \in Slots
    BY <1>14 DEF FailAndForget
  <2>2. /\ pc' \in [Gens -> Places] /\ entry' \in [Slots -> 0 .. MaxGen]
        /\ writing' \subseteq Gens /\ claimed' \in 0 .. MaxGen
    <3>1. pc' \in [Gens -> Places]
      BY <1>14 DEF FailAndForget, Places
    <3>2. entry' \in [Slots -> 0 .. MaxGen]
      BY <1>14, <2>1 DEF FailAndForget
    <3>3. writing' \subseteq Gens /\ claimed' \in 0 .. MaxGen
      BY <1>14 DEF FailAndForget
    <3> QED BY <3>1, <3>2, <3>3
  <2> QED BY <1>14, <2>2 DEF FailAndForget
<1>15. ASSUME NEW g \in Gens, CheckCurrent(g) PROVE SessionTypeOK'
  BY <1>15 DEF CheckCurrent, Places
<1>16. ASSUME NEW g \in Gens, WriteFrame(g) PROVE SessionTypeOK'
  BY <1>16 DEF WriteFrame, Places
<1>17. ASSUME NEW g \in Gens, RelayEnds(g) PROVE SessionTypeOK'
  BY <1>17 DEF RelayEnds, Places
<1>18. ASSUME NEW c \in Clusters, DropOn(c) PROVE SessionTypeOK'
  BY <1>18 DEF DropOn, Everything
<1>19. CASE CloseCluster
  BY <1>19 DEF CloseCluster
<1>20. CASE UNCHANGED sessionVars
  BY <1>20 DEF sessionVars
<1> QED BY <1>1, <1>2, <1>3, <1>4, <1>5, <1>6, <1>7, <1>8, <1>9, <1>10, <1>11, <1>12, <1>13, <1>14, <1>15,
       <1>16, <1>17, <1>18, <1>19, <1>20 DEF SessionNext, Build

\* Generations are claimed in order.
LEMMA ClaimedStep ==
    ASSUME SessionIInv, [SessionNext]_sessionVars
    PROVE  Claimed'
<1> USE GensType, Slotted DEF SessionIInv, SessionSound, SessionTypeOK, Claimed, claims, builder, reader, Goto
<1>1. ASSUME NEW s \in Slots, NEW c \in Clusters, Lookup(s, c) PROVE Claimed'
  BY <1>1 DEF Lookup, ReaderFree, Gens
<1>2. CASE Refuse
  BY <1>2 DEF Refuse
<1>3. CASE TryClaim
  <2>1. PICK g \in Gens, s \in Slots :
          /\ g = nextGen + 1 /\ nextGen' = g /\ g \in 0 .. MaxGen
          /\ slot[g] = None /\ pc[g] = "none"
          /\ \A t \in Slots : entry[t] # g
          /\ entry' = [entry EXCEPT ![s] = g] /\ slot' = [slot EXCEPT ![g] = s]
          /\ \E place \in {"claimed", "failing"} : pc' = [pc EXCEPT ![g] = place]
          /\ asking' = None
          /\ doomed["reader"] = {} /\ doomed' = [doomed EXCEPT !["reader"] = IF entry[s] = 0 THEN {} ELSE {entry[s]}]
          /\ UNCHANGED <<open, adopted, reserved, writing, last, alive, opened, closing>>
    BY <1>3, Claiming
  <2>2. nextGen \in Nat /\ \A h \in Gens : h <= nextGen' <=> h <= nextGen \/ h = g
    BY <2>1, SessionAssumption DEF Gens
  <2>3. \A h \in Gens : (h <= nextGen' <=> slot'[h] # None) /\ (h <= nextGen' <=> pc'[h] # "none")
    BY <2>1, <2>2
  <2>4. \A t \in Slots : entry'[t] # 0 => entry'[t] <= nextGen' /\ slot'[entry'[t]] = t
    BY <2>1, <2>2, SessionAssumption
  <2>5. \A a \in {"reader", "closer"} : \A h \in doomed'[a] : h \in Gens /\ h <= nextGen
    BY <2>1
  <2>6. \A a \in {"reader", "closer"} : \A h \in doomed'[a] : h <= nextGen'
    BY <2>2, <2>5
  <2> QED BY <2>1, <2>3, <2>4, <2>6
<1>4. CASE Spawn
  BY <1>4 DEF Spawn
<1>5. CASE Cancel
  BY <1>5 DEF Cancel
<1>6. CASE CloseAll
  BY <1>6 DEF CloseAll, Everything
<1>7. ASSUME NEW s \in Slots, Unsubscribe(s) PROVE Claimed'
  BY <1>7 DEF Unsubscribe, ReaderFree
<1>8. ASSUME NEW a \in {"reader", "closer"}, NEW g \in Gens, Stop(a, g) PROVE Claimed'
  BY <1>8 DEF Stop
<1>9. ASSUME NEW g \in Gens, HoldCancel(g) PROVE Claimed'
  BY <1>9 DEF HoldCancel
<1>10. ASSUME NEW g \in Gens, Reserve(g) PROVE Claimed'
  BY <1>10 DEF Reserve
<1>11. ASSUME NEW g \in Gens, Opened(g) PROVE Claimed'
  BY <1>11 DEF Opened
<1>12. ASSUME NEW g \in Gens, OpenFails(g) PROVE Claimed'
  BY <1>12 DEF OpenFails
<1>13. ASSUME NEW g \in Gens, Adopt(g) PROVE Claimed'
  BY <1>13 DEF Adopt
<1>14. ASSUME NEW g \in Gens, FailAndForget(g) PROVE Claimed'
  BY <1>14 DEF FailAndForget
<1>15. ASSUME NEW g \in Gens, CheckCurrent(g) PROVE Claimed'
  BY <1>15 DEF CheckCurrent
<1>16. ASSUME NEW g \in Gens, WriteFrame(g) PROVE Claimed'
  BY <1>16 DEF WriteFrame
<1>17. ASSUME NEW g \in Gens, RelayEnds(g) PROVE Claimed'
  BY <1>17 DEF RelayEnds
<1>18. ASSUME NEW c \in Clusters, DropOn(c) PROVE Claimed'
  <2>1. /\ \A s \in Slots : entry'[s] = 0 \/ entry'[s] = entry[s]
        /\ closing' = c /\ UNCHANGED <<nextGen, slot, pc, asking>>
    BY <1>18 DEF DropOn
  <2>2. doomed'["reader"] = doomed["reader"] /\ \A g \in doomed'["closer"] : g \in Gens /\ slot[g] # None
    BY <1>18 DEF DropOn, Everything
  <2> QED BY <2>1, <2>2, SessionAssumption
<1>19. CASE CloseCluster
  BY <1>19 DEF CloseCluster
<1>20. CASE UNCHANGED sessionVars
  BY <1>20 DEF sessionVars
<1> QED BY <1>1, <1>2, <1>3, <1>4, <1>5, <1>6, <1>7, <1>8, <1>9, <1>10, <1>11, <1>12, <1>13, <1>14, <1>15,
       <1>16, <1>17, <1>18, <1>19, <1>20 DEF SessionNext, Build

\* A builder goes through its stages.
LEMMA StagesStep ==
    ASSUME SessionIInv, [SessionNext]_sessionVars
    PROVE  Stages'
<1> USE DEF SessionIInv, SessionSound, SessionTypeOK, Stages, OneWriter, claims, builder, reader, Goto
<1>1. ASSUME NEW s \in Slots, NEW c \in Clusters, Lookup(s, c) PROVE Stages'
  BY <1>1 DEF Lookup
<1>2. CASE Refuse
  BY <1>2 DEF Refuse
<1>3. CASE TryClaim
  <2>1. PICK g \in Gens, s \in Slots :
          /\ g \notin open \cup adopted \cup writing \cup reserved
          /\ \E place \in {"claimed", "failing"} : pc' = [pc EXCEPT ![g] = place]
          /\ UNCHANGED <<open, adopted, reserved, writing, last, alive, opened, closing>>
    BY <1>3, Claiming
  <2> QED BY <2>1
<1>4. CASE Spawn
  BY <1>4 DEF Spawn
<1>5. CASE Cancel
  BY <1>5 DEF Cancel
<1>6. CASE CloseAll
  BY <1>6 DEF CloseAll
<1>7. ASSUME NEW s \in Slots, Unsubscribe(s) PROVE Stages'
  BY <1>7 DEF Unsubscribe
<1>8. ASSUME NEW a \in {"reader", "closer"}, NEW g \in Gens, Stop(a, g) PROVE Stages'
  BY <1>8 DEF Stop
<1>9. ASSUME NEW g \in Gens, HoldCancel(g) PROVE Stages'
  BY <1>9 DEF HoldCancel
<1>10. ASSUME NEW g \in Gens, Reserve(g) PROVE Stages'
  BY <1>10 DEF Reserve
<1>11. ASSUME NEW g \in Gens, Opened(g) PROVE Stages'
  BY <1>11 DEF Opened
<1>12. ASSUME NEW g \in Gens, OpenFails(g) PROVE Stages'
  BY <1>12 DEF OpenFails, Release
<1>13. ASSUME NEW g \in Gens, Adopt(g) PROVE Stages'
  BY <1>13 DEF Adopt, Release
<1>14. ASSUME NEW g \in Gens, FailAndForget(g) PROVE Stages'
  BY <1>14 DEF FailAndForget
<1>15. ASSUME NEW g \in Gens, CheckCurrent(g) PROVE Stages'
  BY <1>15 DEF CheckCurrent
<1>16. ASSUME NEW g \in Gens, WriteFrame(g) PROVE Stages'
  BY <1>16 DEF WriteFrame, Places
<1>17. ASSUME NEW g \in Gens, RelayEnds(g) PROVE Stages'
  BY <1>17 DEF RelayEnds
<1>18. ASSUME NEW c \in Clusters, DropOn(c) PROVE Stages'
  BY <1>18 DEF DropOn
<1>19. CASE CloseCluster
  BY <1>19 DEF CloseCluster
<1>20. CASE UNCHANGED sessionVars
  BY <1>20 DEF sessionVars
<1> QED BY <1>1, <1>2, <1>3, <1>4, <1>5, <1>6, <1>7, <1>8, <1>9, <1>10, <1>11, <1>12, <1>13, <1>14, <1>15,
       <1>16, <1>17, <1>18, <1>19, <1>20 DEF SessionNext, Build

\* writeMu has one holder.
LEMMA OneWriterStep ==
    ASSUME SessionIInv, [SessionNext]_sessionVars
    PROVE  OneWriter'
<1> USE DEF SessionIInv, SessionSound, SessionTypeOK, Stages, OneWriter, claims, builder, reader, Goto
<1>1. ASSUME NEW s \in Slots, NEW c \in Clusters, Lookup(s, c) PROVE OneWriter'
  BY <1>1 DEF Lookup
<1>2. CASE Refuse
  BY <1>2 DEF Refuse
<1>3. CASE TryClaim
  <2>1. PICK g \in Gens, s \in Slots :
          /\ g \notin open \cup adopted \cup writing \cup reserved
          /\ \E place \in {"claimed", "failing"} : pc' = [pc EXCEPT ![g] = place]
          /\ UNCHANGED <<open, adopted, reserved, writing, last, alive, opened, closing>>
    BY <1>3, Claiming
  <2> QED BY <2>1
<1>4. CASE Spawn
  BY <1>4 DEF Spawn
<1>5. CASE Cancel
  BY <1>5 DEF Cancel
<1>6. CASE CloseAll
  BY <1>6 DEF CloseAll
<1>7. ASSUME NEW s \in Slots, Unsubscribe(s) PROVE OneWriter'
  BY <1>7 DEF Unsubscribe
<1>8. ASSUME NEW a \in {"reader", "closer"}, NEW g \in Gens, Stop(a, g) PROVE OneWriter'
  BY <1>8 DEF Stop
<1>9. ASSUME NEW g \in Gens, HoldCancel(g) PROVE OneWriter'
  BY <1>9 DEF HoldCancel
<1>10. ASSUME NEW g \in Gens, Reserve(g) PROVE OneWriter'
  BY <1>10 DEF Reserve
<1>11. ASSUME NEW g \in Gens, Opened(g) PROVE OneWriter'
  BY <1>11 DEF Opened
<1>12. ASSUME NEW g \in Gens, OpenFails(g) PROVE OneWriter'
  BY <1>12 DEF OpenFails
<1>13. ASSUME NEW g \in Gens, Adopt(g) PROVE OneWriter'
  BY <1>13 DEF Adopt
<1>14. ASSUME NEW g \in Gens, FailAndForget(g) PROVE OneWriter'
  BY <1>14 DEF FailAndForget, WriteMu
<1>15. ASSUME NEW g \in Gens, CheckCurrent(g) PROVE OneWriter'
  BY <1>15 DEF CheckCurrent, WriteMu
<1>16. ASSUME NEW g \in Gens, WriteFrame(g) PROVE OneWriter'
  BY <1>16 DEF WriteFrame
<1>17. ASSUME NEW g \in Gens, RelayEnds(g) PROVE OneWriter'
  BY <1>17 DEF RelayEnds
<1>18. ASSUME NEW c \in Clusters, DropOn(c) PROVE OneWriter'
  BY <1>18 DEF DropOn
<1>19. CASE CloseCluster
  BY <1>19 DEF CloseCluster
<1>20. CASE UNCHANGED sessionVars
  BY <1>20 DEF sessionVars
<1> QED BY <1>1, <1>2, <1>3, <1>4, <1>5, <1>6, <1>7, <1>8, <1>9, <1>10, <1>11, <1>12, <1>13, <1>14, <1>15,
       <1>16, <1>17, <1>18, <1>19, <1>20 DEF SessionNext, Build

\* Frames are no newer than the claim they belong to.
LEMMA NewestStep ==
    ASSUME SessionIInv, [SessionNext]_sessionVars
    PROVE  Newest'
<1> USE GensType, Slotted, SessionAssumption DEF SessionIInv, SessionSound, SessionTypeOK, Claimed, OneWriter, Newest, Gens, claims, builder, reader, Goto
<1>1. ASSUME NEW s \in Slots, NEW c \in Clusters, Lookup(s, c) PROVE Newest'
  BY <1>1 DEF Lookup
<1>2. CASE Refuse
  BY <1>2 DEF Refuse
<1>3. CASE TryClaim
  <2>1. PICK g \in Gens, s \in Slots :
          /\ g = nextGen + 1 /\ nextGen' = g /\ g \in 0 .. MaxGen
          /\ slot[g] = None /\ pc[g] = "none"
          /\ g \notin open \cup adopted \cup writing \cup reserved
          /\ entry' = [entry EXCEPT ![s] = g] /\ slot' = [slot EXCEPT ![g] = s]
          /\ UNCHANGED <<open, adopted, reserved, writing, last, alive, opened, closing>>
    BY <1>3, Claiming
  <2> QED BY <2>1
<1>4. CASE Spawn
  BY <1>4 DEF Spawn
<1>5. CASE Cancel
  BY <1>5 DEF Cancel
<1>6. CASE CloseAll
  BY <1>6 DEF CloseAll
<1>7. ASSUME NEW s \in Slots, Unsubscribe(s) PROVE Newest'
  BY <1>7 DEF Unsubscribe
<1>8. ASSUME NEW a \in {"reader", "closer"}, NEW g \in Gens, Stop(a, g) PROVE Newest'
  BY <1>8 DEF Stop
<1>9. ASSUME NEW g \in Gens, HoldCancel(g) PROVE Newest'
  BY <1>9 DEF HoldCancel
<1>10. ASSUME NEW g \in Gens, Reserve(g) PROVE Newest'
  BY <1>10 DEF Reserve
<1>11. ASSUME NEW g \in Gens, Opened(g) PROVE Newest'
  BY <1>11 DEF Opened
<1>12. ASSUME NEW g \in Gens, OpenFails(g) PROVE Newest'
  BY <1>12 DEF OpenFails
<1>13. ASSUME NEW g \in Gens, Adopt(g) PROVE Newest'
  BY <1>13 DEF Adopt
<1>14. ASSUME NEW g \in Gens, FailAndForget(g) PROVE Newest'
  <2>1. slot[g] \in Slots /\ UNCHANGED <<last, nextGen, slot>>
    BY <1>14 DEF FailAndForget
  <2>2. \A s \in Slots : entry'[s] = 0 \/ entry'[s] = entry[s]
    BY <1>14, <2>1 DEF FailAndForget
  <2>3. \A h \in writing' : last[slot[h]] <= h
    BY <1>14, <2>1 DEF FailAndForget, WriteMu, Current
  <2> QED BY <2>1, <2>2, <2>3
<1>15. ASSUME NEW g \in Gens, CheckCurrent(g) PROVE Newest'
  BY <1>15 DEF CheckCurrent, WriteMu, Current
<1>16. ASSUME NEW g \in Gens, WriteFrame(g) PROVE Newest'
  BY <1>16 DEF WriteFrame
<1>17. ASSUME NEW g \in Gens, RelayEnds(g) PROVE Newest'
  BY <1>17 DEF RelayEnds
<1>18. ASSUME NEW c \in Clusters, DropOn(c) PROVE Newest'
  BY <1>18 DEF DropOn
<1>19. CASE CloseCluster
  BY <1>19 DEF CloseCluster
<1>20. CASE UNCHANGED sessionVars
  BY <1>20 DEF sessionVars
<1> QED BY <1>1, <1>2, <1>3, <1>4, <1>5, <1>6, <1>7, <1>8, <1>9, <1>10, <1>11, <1>12, <1>13, <1>14, <1>15,
       <1>16, <1>17, <1>18, <1>19, <1>20 DEF SessionNext, Build

\* What an entry held is doomed when the entry goes.
LEMMA LeaksStep ==
    ASSUME SessionIInv, [SessionNext]_sessionVars
    PROVE  NothingLeaks'
<1> USE Slotted DEF SessionIInv, SessionSound, SessionTypeOK, Claimed, Stages, NothingLeaks, Current, claims, builder, reader, Goto
<1>1. ASSUME NEW s \in Slots, NEW c \in Clusters, Lookup(s, c) PROVE NothingLeaks'
  BY <1>1 DEF Lookup
<1>2. CASE Refuse
  BY <1>2 DEF Refuse
<1>3. CASE TryClaim
  <2>1. PICK g \in Gens, s \in Slots :
          /\ slot[g] = None /\ pc[g] = "none"
          /\ g \notin open \cup adopted \cup writing \cup reserved
          /\ entry' = [entry EXCEPT ![s] = g] /\ slot' = [slot EXCEPT ![g] = s]
          /\ \E place \in {"claimed", "failing"} : pc' = [pc EXCEPT ![g] = place]
          /\ doomed["reader"] = {} /\ doomed' = [doomed EXCEPT !["reader"] = IF entry[s] = 0 THEN {} ELSE {entry[s]}]
          /\ UNCHANGED <<open, adopted, reserved, writing, last, alive, opened, closing>>
    BY <1>3, Claiming
  <2>2. \A h \in open : h # g /\ h \in Gens /\ slot'[h] = slot[h] /\ pc'[h] = pc[h]
    BY <2>1
  <2>3. \A h \in open : h \in doomed["closer"] => h \in doomed'["closer"]
    BY <2>1
  <2>4. \A h \in open : entry[slot[h]] = h => entry'[slot[h]] = h \/ h \in doomed'["reader"]
    BY <2>1, <2>2, GensType, SessionAssumption DEF Gens
  <2>5. DOMAIN doomed = {"reader", "closer"} /\ DOMAIN doomed' = {"reader", "closer"}
    BY <2>1
  <2> QED BY <2>1, <2>2, <2>3, <2>4, <2>5
<1>4. CASE Spawn
  BY <1>4 DEF Spawn
<1>5. CASE Cancel
  BY <1>5 DEF Cancel
<1>6. CASE CloseAll
  BY <1>6 DEF CloseAll, Everything
<1>7. ASSUME NEW s \in Slots, Unsubscribe(s) PROVE NothingLeaks'
  BY <1>7 DEF Unsubscribe, ReaderFree
<1>8. ASSUME NEW a \in {"reader", "closer"}, NEW g \in Gens, Stop(a, g) PROVE NothingLeaks'
  BY <1>8 DEF Stop
<1>9. ASSUME NEW g \in Gens, HoldCancel(g) PROVE NothingLeaks'
  BY <1>9 DEF HoldCancel
<1>10. ASSUME NEW g \in Gens, Reserve(g) PROVE NothingLeaks'
  BY <1>10 DEF Reserve
<1>11. ASSUME NEW g \in Gens, Opened(g) PROVE NothingLeaks'
  BY <1>11 DEF Opened
<1>12. ASSUME NEW g \in Gens, OpenFails(g) PROVE NothingLeaks'
  BY <1>12 DEF OpenFails
<1>13. ASSUME NEW g \in Gens, Adopt(g) PROVE NothingLeaks'
  BY <1>13 DEF Adopt, Adopts, Release
<1>14. ASSUME NEW g \in Gens, FailAndForget(g) PROVE NothingLeaks'
  BY <1>14 DEF FailAndForget
<1>15. ASSUME NEW g \in Gens, CheckCurrent(g) PROVE NothingLeaks'
  BY <1>15 DEF CheckCurrent
<1>16. ASSUME NEW g \in Gens, WriteFrame(g) PROVE NothingLeaks'
  BY <1>16 DEF WriteFrame
<1>17. ASSUME NEW g \in Gens, RelayEnds(g) PROVE NothingLeaks'
  BY <1>17 DEF RelayEnds
<1>18. ASSUME NEW c \in Clusters, DropOn(c) PROVE NothingLeaks'
  BY <1>18 DEF DropOn, Everything
<1>19. CASE CloseCluster
  BY <1>19 DEF CloseCluster
<1>20. CASE UNCHANGED sessionVars
  BY <1>20 DEF sessionVars
<1> QED BY <1>1, <1>2, <1>3, <1>4, <1>5, <1>6, <1>7, <1>8, <1>9, <1>10, <1>11, <1>12, <1>13, <1>14, <1>15,
       <1>16, <1>17, <1>18, <1>19, <1>20 DEF SessionNext, Build

\* Units are taken and given back with the stream.
LEMMA UnitsStep ==
    ASSUME SessionIInv, [SessionNext]_sessionVars
    PROVE  UnitsAccounted'
<1> USE Slotted DEF SessionIInv, SessionSound, SessionTypeOK, Claimed, Stages, UnitsAccounted, claims, builder, reader, Goto
<1>1. ASSUME NEW s \in Slots, NEW c \in Clusters, Lookup(s, c) PROVE UnitsAccounted'
  BY <1>1 DEF Lookup
<1>2. CASE Refuse
  BY <1>2 DEF Refuse
<1>3. CASE TryClaim
  BY <1>3 DEF TryClaim
<1>4. CASE Spawn
  BY <1>4 DEF Spawn
<1>5. CASE Cancel
  BY <1>5 DEF Cancel
<1>6. CASE CloseAll
  BY <1>6 DEF CloseAll
<1>7. ASSUME NEW s \in Slots, Unsubscribe(s) PROVE UnitsAccounted'
  BY <1>7 DEF Unsubscribe
<1>8. ASSUME NEW a \in {"reader", "closer"}, NEW g \in Gens, Stop(a, g) PROVE UnitsAccounted'
  BY <1>8 DEF Stop
<1>9. ASSUME NEW g \in Gens, HoldCancel(g) PROVE UnitsAccounted'
  BY <1>9 DEF HoldCancel
<1>10. ASSUME NEW g \in Gens, Reserve(g) PROVE UnitsAccounted'
  BY <1>10 DEF Reserve
<1>11. ASSUME NEW g \in Gens, Opened(g) PROVE UnitsAccounted'
  BY <1>11 DEF Opened
<1>12. ASSUME NEW g \in Gens, OpenFails(g) PROVE UnitsAccounted'
  BY <1>12 DEF OpenFails, Release
<1>13. ASSUME NEW g \in Gens, Adopt(g) PROVE UnitsAccounted'
  BY <1>13 DEF Adopt, Adopts, Release
<1>14. ASSUME NEW g \in Gens, FailAndForget(g) PROVE UnitsAccounted'
  BY <1>14 DEF FailAndForget
<1>15. ASSUME NEW g \in Gens, CheckCurrent(g) PROVE UnitsAccounted'
  BY <1>15 DEF CheckCurrent
<1>16. ASSUME NEW g \in Gens, WriteFrame(g) PROVE UnitsAccounted'
  BY <1>16 DEF WriteFrame
<1>17. ASSUME NEW g \in Gens, RelayEnds(g) PROVE UnitsAccounted'
  BY <1>17 DEF RelayEnds
<1>18. ASSUME NEW c \in Clusters, DropOn(c) PROVE UnitsAccounted'
  BY <1>18 DEF DropOn
<1>19. CASE CloseCluster
  BY <1>19 DEF CloseCluster
<1>20. CASE UNCHANGED sessionVars
  BY <1>20 DEF sessionVars
<1> QED BY <1>1, <1>2, <1>3, <1>4, <1>5, <1>6, <1>7, <1>8, <1>9, <1>10, <1>11, <1>12, <1>13, <1>14, <1>15,
       <1>16, <1>17, <1>18, <1>19, <1>20 DEF SessionNext, Build

-----------------------------------------------------------------------------
(* The invariant holds, and with it what the session promises.             *)

\* The invariant holds of a session that starts.
LEMMA SessionInitially == SessionInit => SessionIInv
<1> SUFFICES ASSUME SessionInit PROVE SessionIInv
  OBVIOUS
<1>1. {s \in Slots : entry[s] # 0} = {} /\ reserved = {}
  BY DEF SessionInit
<1>2. Held <= MaxSubscriptions /\ FewHeld /\ Cardinality(reserved) <= LogLimit
  BY <1>1, FS_EmptySet, SessionAssumption DEF Held, FewHeld
<1>3. SessionTypeOK
  BY <1>2, GensType DEF SessionInit, SessionTypeOK, Places
<1>4. Claimed /\ Stages /\ OneWriter /\ Newest
  BY SessionAssumption DEF SessionInit, Claimed, Stages, OneWriter, Newest, Gens
<1>5. NothingLeaks /\ UnitsAccounted
  BY DEF SessionInit, NothingLeaks, UnitsAccounted
<1> QED BY <1>2, <1>3, <1>4, <1>5 DEF SessionIInv, SessionSound

\* Every step keeps the invariant.
LEMMA SessionStep ==
    ASSUME SessionIInv, [SessionNext]_sessionVars
    PROVE  SessionIInv'
BY TypeStep, Limits, ClaimedStep, StagesStep, OneWriterStep, NewestStep, LeaksStep, UnitsStep
   DEF SessionIInv, SessionSound

\* Claims, cancellations, dropped clusters and builders that fail, in any order,
\* lose no subscription and no unit of the log budget (tryClaim, adoptAuthorized,
\* drop, dropSubscriptionsOn, closeAll).
THEOREM SessionSafety == SessionSpec => []SessionSound
<1>1. SessionIInv => SessionSound
  BY DEF SessionIInv
<1> QED BY <1>1, SessionInitially, SessionStep, PTL DEF SessionSpec

\* A frame of an older claim on a name never follows one of a newer claim
\* (writeCurrent checks the generation under writeMu).
THEOREM FrameOrder == SessionSpec => FramesInOrder
<1>1. ASSUME SessionIInv, [SessionNext]_sessionVars
      PROVE  [\A s \in Slots : last'[s] >= last[s]]_sessionVars
  <2> SUFFICES ASSUME NEW s \in Slots PROVE last'[s] >= last[s]
    OBVIOUS
  <2>1. last \in [Slots -> 0 .. MaxGen]
    BY <1>1 DEF SessionIInv, SessionSound, SessionTypeOK
  <2>2. ASSUME NEW g \in Gens, WriteFrame(g) PROVE last'[s] >= last[s]
    BY <1>1, <2>1, <2>2, Slotted, SessionAssumption DEF WriteFrame, SessionIInv, Newest, Gens
  <2>3. CASE last' = last
    BY <2>1, <2>3, SessionAssumption
  <2> QED BY <1>1, <2>2, <2>3
         DEF SessionNext, Build, sessionVars, Lookup, Refuse, TryClaim, Spawn, Cancel, CloseAll, Unsubscribe,
        Stop, HoldCancel, Reserve, Opened, OpenFails, Adopt, FailAndForget, CheckCurrent, RelayEnds, DropOn, CloseCluster
<1> QED BY <1>1, SessionInitially, SessionStep, PTL DEF SessionSpec, FramesInOrder

=============================================================================
