------------------------ MODULE StreamRegistryProofs ------------------------
(***************************************************************************)
(* Theorems about StreamRegistry for any set of callers, resource types    *)
(* and streams.                                                            *)
(***************************************************************************)
EXTENDS StreamRegistry, FiniteSetTheorems, TLAPS

\* The wait recordFailure stores stays within maxBuildBackoff.
LEMMA NextWaitType ==
    ASSUME NEW w \in 0 .. MaxWait
    PROVE  NextWait(w) \in 0 .. MaxWait
BY BoundAssumption DEF NextWait

\* Keys are records of two fields.
LEMMA KeyType ==
    ASSUME NEW kind \in Kinds, NEW ns \in {"all", "one"}
    PROVE  /\ [kind |-> kind, ns |-> ns] \in Keys
           /\ \A k \in Keys : k.kind \in Kinds /\ k.ns \in {"all", "one"}
BY DEF Keys

\* A caller under way has a key, and from the moment it builds or joins a
\* stream it holds one.
CallerOK ==
    \A c \in Callers :
        /\ pc[c] # "idle" => key[c] \in Keys /\ op[c] \in Ops
        /\ pc[c] \in {"building", "built", "join", "attached"} => got[c] \in Streams
        /\ pc[c] \in {"idle", "attach", "gate", "locked", "cool", "failed"} => got[c] = None

TypeInv == TypeOK /\ CallerOK

\* The registry is well typed initially.
LEMMA TypeInit == Init => TypeInv
<1> SUFFICES ASSUME Init PROVE TypeInv
  OBVIOUS
<1>1. TypeOK
  <2>1. 0 \in 0 .. MaxWait /\ 1 \in 1 .. AttachAttempts
    BY BoundAssumption
  <2>2. root \in BOOLEAN /\ refreshing \in BOOLEAN
    BY DEF Init
  <2> QED BY <2>1, <2>2 DEF Init, TypeOK, Locations
<1>2. CallerOK
  BY NoneAssumption DEF Init, CallerOK
<1> QED BY <1>1, <1>2 DEF TypeInv

\* Every step of Next keeps the types.
LEMMA TypeStep == TypeInv /\ [Next]_vars => TypeInv'
<1> SUFFICES ASSUME TypeInv, [Next]_vars PROVE TypeInv'
  OBVIOUS
<1> USE NoneAssumption, BoundAssumption, OpsAssumption
<1>1. ASSUME NEW c \in Callers, Begin(c) PROVE TypeInv'
  <2> PICK o \in Ops, kind \in catalog :
        /\ op' = [op EXCEPT ![c] = o]
        /\ key' = [key EXCEPT ![c] = [kind |-> kind, ns |-> "all"]]
    BY <1>1 DEF Begin
  <2>1. [kind |-> kind, ns |-> "all"] \in Keys
    BY KeyType DEF TypeInv, TypeOK
  <2> QED BY <1>1, <2>1 DEF TypeInv, TypeOK, CallerOK, Locations, Begin,
        managerVars, refreshVars, streamVars
<1>2. ASSUME NEW c \in Callers, AcquireGate(c) PROVE TypeInv'
  BY <1>2, SMTT(30) DEF TypeInv, TypeOK, CallerOK, Locations, AcquireGate,
        refreshVars, streamVars
<1>3. ASSUME NEW c \in Callers, LockGate(c) PROVE TypeInv'
  BY <1>3 DEF TypeInv, TypeOK, CallerOK, Locations, LockGate,
        managerVars, refreshVars, streamVars
<1>4. ASSUME NEW c \in Callers, LookupStream(c) PROVE TypeInv'
  BY <1>4 DEF TypeInv, TypeOK, CallerOK, Locations, LookupStream,
        managerVars, refreshVars, streamVars
<1>5. ASSUME NEW c \in Callers, CoolingOff(c) PROVE TypeInv'
  BY <1>5, SMTT(30) DEF TypeInv, TypeOK, CallerOK, Locations, CoolingOff,
        managerVars, refreshVars, streamVars
<1>6. ASSUME NEW c \in Callers, Synced(c) PROVE TypeInv'
  BY <1>6 DEF TypeInv, TypeOK, CallerOK, Locations, Synced,
        managerVars, refreshVars, streamVars
<1>7. ASSUME NEW c \in Callers, SyncFails(c) PROVE TypeInv'
  BY <1>7 DEF TypeInv, TypeOK, CallerOK, Locations, SyncFails, CancelBuild,
        managerVars, refreshVars, streamVars
<1>8. ASSUME NEW c \in Callers, RecordFailure(c) PROVE TypeInv'
  BY <1>8, NextWaitType DEF TypeInv, TypeOK, CallerOK, Locations, RecordFailure,
        managerVars, refreshVars, streamVars
<1>9. ASSUME NEW c \in Callers, Install(c) PROVE TypeInv'
  BY <1>9 DEF TypeInv, TypeOK, CallerOK, Locations, Install,
        managerVars, refreshVars, streamVars
<1>10. ASSUME NEW c \in Callers, ReleaseGate(c) PROVE TypeInv'
  <2>1. building' \in [Keys -> Callers \cup {None}] /\ gateRefs' \in [Keys -> Int]
    BY <1>10 DEF TypeInv, TypeOK, ReleaseGate, DropGate
  <2>2. CASE got[c] # None
    BY <1>10, <2>1, <2>2 DEF TypeInv, TypeOK, CallerOK, Locations, ReleaseGate,
        refreshVars, streamVars
  <2>3. CASE got[c] = None /\ ~ Return(c)
    <3> DEFINE own == [kind |-> key[c].kind, ns |-> "one"]
    <3>1. own \in Keys
      BY <1>10 DEF TypeInv, TypeOK, CallerOK, ReleaseGate, Keys
    <3>2. /\ pc' = [pc EXCEPT ![c] = "attach"] /\ key' = [key EXCEPT ![c] = own]
          /\ tries' = [tries EXCEPT ![c] = 1] /\ err' = [err EXCEPT ![c] = "none"]
          /\ mine' = [mine EXCEPT ![c] = None] /\ op[c] \in Ops
          /\ UNCHANGED <<op, got, streams, failure, failErr, cooling, refreshVars,
                         unpinned, root, streamVars, open>>
      BY <1>10, <2>3 DEF TypeInv, CallerOK, ReleaseGate
    <3> HIDE DEF own
    <3> QED BY <2>1, <2>3, <3>1, <3>2 DEF TypeInv, TypeOK, CallerOK, Locations,
        refreshVars, streamVars
  <2>4. CASE got[c] = None /\ Return(c)
    BY <1>10, <2>1, <2>4 DEF TypeInv, TypeOK, CallerOK, Locations,
        ReleaseGate, Return, refreshVars, streamVars
  <2> QED BY <2>2, <2>3, <2>4
<1>11. ASSUME NEW c \in Callers, TornDown(c) PROVE TypeInv'
  <2>1. CASE Return(c)
    BY <1>11, <2>1 DEF TypeInv, TypeOK, CallerOK, Locations, TornDown, Return,
        managerVars, refreshVars, streamVars
  <2>2. CASE ~ Return(c)
    <3>1. tries[c] + 1 \in 1 .. AttachAttempts /\ tries' = [tries EXCEPT ![c] = @ + 1]
      BY <1>11, <2>2 DEF TypeInv, TypeOK, TornDown
    <3> QED BY <1>11, <2>2, <3>1 DEF TypeInv, TypeOK, CallerOK, Locations, TornDown,
        managerVars, refreshVars, streamVars
  <2> QED BY <2>1, <2>2
<1>12. ASSUME NEW c \in Callers, Register(c) PROVE TypeInv'
  BY <1>12 DEF TypeInv, TypeOK, CallerOK, Locations, Register, StopIdle,
        managerVars, refreshVars, streamVars
<1>13. ASSUME NEW c \in Callers, Pin(c) PROVE TypeInv'
  BY <1>13 DEF TypeInv, TypeOK, CallerOK, Locations, Pin, Return,
        managerVars, refreshVars, streamVars
<1>14. ASSUME NEW c \in Callers, Detach(c) PROVE TypeInv'
  BY <1>14 DEF TypeInv, TypeOK, CallerOK, Locations, Detach, Return, ArmIdle, Left,
        managerVars, refreshVars, streamVars
<1>15. ASSUME NEW s \in Streams, FireIdle(s) PROVE TypeInv'
  BY <1>15 DEF TypeInv, TypeOK, CallerOK, FireIdle,
        managerVars, refreshVars, callerVars
<1>16. ASSUME NEW s \in Streams, Retire(s) PROVE TypeInv'
  BY <1>16 DEF TypeInv, TypeOK, CallerOK, Retire, Forget,
        refreshVars, callerVars
<1>17. ASSUME NEW s \in Streams, CancelUnpinned(s) PROVE TypeInv'
  BY <1>17 DEF TypeInv, TypeOK, CallerOK, CancelUnpinned,
        managerVars, refreshVars, callerVars
<1>18. ASSUME NEW s \in Streams, Shutdown(s) PROVE TypeInv'
  BY <1>18 DEF TypeInv, TypeOK, CallerOK, Shutdown, CloseSubscribers, managerVars
<1>19. ASSUME NEW k \in Keys, Unpin(k) PROVE TypeInv'
  BY <1>19 DEF TypeInv, TypeOK, CallerOK, Unpin, refreshVars, callerVars
<1>20. ASSUME NEW k \in Keys, WaitElapses(k) PROVE TypeInv'
  BY <1>20 DEF TypeInv, TypeOK, CallerOK, WaitElapses, refreshVars, streamVars, callerVars
<1>21. CASE SetCatalog
  BY <1>21 DEF TypeInv, TypeOK, CallerOK, SetCatalog, managerVars, streamVars, callerVars
<1>22. CASE DropVanished
  <2>1. dropped' \in SUBSET Streams /\ streams' \in [Keys -> Streams \cup {None}]
    BY <1>22 DEF TypeInv, TypeOK, DropVanished
  <2>2. refreshing' \in BOOLEAN
    BY <1>22 DEF DropVanished
  <2> QED BY <1>22, <2>1, <2>2 DEF TypeInv, TypeOK, CallerOK, DropVanished,
        streamVars, callerVars
<1>23. CASE CloseRoot
  BY <1>23 DEF TypeInv, TypeOK, CallerOK, CloseRoot, managerVars, refreshVars, callerVars
<1>24. CASE UNCHANGED vars
  BY <1>24 DEF TypeInv, TypeOK, CallerOK, vars, managerVars, refreshVars, streamVars, callerVars
<1> QED
  BY <1>1, <1>2, <1>3, <1>4, <1>5, <1>6, <1>7, <1>8, <1>9, <1>10, <1>11, <1>12,
     <1>13, <1>14, <1>15, <1>16, <1>17, <1>18, <1>19, <1>20, <1>21, <1>22, <1>23,
     <1>24 DEF Next, CallerStep

\* The state of the manager, its streams and its callers is well typed, the
\* back-off of every key within its bound.
THEOREM TypeCorrect == Spec => []TypeOK
<1>1. Spec => []TypeInv
  BY TypeInit, TypeStep, PTL DEF Spec
<1>2. TypeInv => TypeOK
  BY DEF TypeInv
<1> QED BY <1>1, <1>2, PTL

-----------------------------------------------------------------------------
(* Safety: who is subscribed is served, and nothing is watched for nobody. *)

\* The callers that hold a reference to the gate of k.
AtGate(k) == {c \in Callers : pc[c] \in Inside \cup {"gate", "release"} /\ key[c] = k}

\* buildGate.refs counts them, and all of them hold the gate the map has.
GateCounted ==
    \A k \in Keys :
        /\ gateRefs[k] = Cardinality(AtGate(k))
        /\ \A c \in AtGate(k) : building[k] # None /\ mine[c] = building[k]

\* While a caller builds the stream of a key the map has none.
NoneWhileBuilding ==
    \A c \in Callers : pc[c] \in Inside \ {"locked"} => streams[key[c]] = None

\* The stream a caller builds is its own.
BuildsItsOwn ==
    \A c \in Callers : pc[c] \in {"building", "built"} =>
        /\ got[c] \notin dropped \cup unpinned
        /\ \A k \in Keys : streams[k] # got[c]
        /\ \A d \in Callers \ {c} : got[d] # got[c]
        /\ root => got[c] \in live

\* A stream is in the map once, or dropped, or unpinned, and runs until it is
\* cancelled.
Parted ==
    /\ \A k, l \in Keys : streams[k] # None /\ streams[k] = streams[l] => k = l
    /\ \A k \in Keys : streams[k] # None =>
           /\ streams[k] \notin dropped \cup unpinned
           /\ root => streams[k] \in live
    /\ \A s \in dropped : s \notin unpinned /\ (root => s \in live)

\* Only a caller that is attached has open channels.
OpenAttached == \A c \in open : pc[c] = "attached"

\* dropVanished starts with nothing left from the refresh before.
RefreshAlone == refreshing => dropped = {}

\* A build runs, and its failure is recorded, while its key is not cooling off.
BuildsWarm ==
    \A c \in Callers : pc[c] \in {"building", "built", "failed"} => ~ Cooling(key[c])

\* A stream that a caller found, if it is in the map, is there under its key.
FoundUnderKey ==
    \A c \in Callers, k \in Keys :
        pc[c] \in {"release", "join"} /\ got[c] # None /\ streams[k] = got[c] => k = key[c]

IInv ==
    /\ TypeInv /\ GateCounted /\ OneBuilder /\ NoneWhileBuilding /\ BuildsItsOwn /\ Parted
    /\ RefreshAlone /\ BuildsWarm /\ FoundUnderKey
    /\ OpenAttached /\ SubscribersOpen /\ RefsCountSubscribers /\ SubscribersServed
    /\ NoOrphanInformer /\ PinnedStays /\ IdleIsTimed

-----------------------------------------------------------------------------
(* Steps that leave the callers alone.                                     *)

\* What the code outside the callers' own goroutines leaves alone.
Quiet == UNCHANGED <<building, gateRefs, pc, op, key, got, mine, tries, err>>

\* A step is a caller's, or leaves callers and gates as they are.
LEMMA CallersOrQuiet ==
    ASSUME [Next]_vars
    PROVE  (\E c \in Callers : Begin(c) \/ CallerStep(c) \/ Detach(c)) \/ Quiet
<1>1. ASSUME NEW s \in Streams, FireIdle(s) \/ Retire(s) \/ CancelUnpinned(s) \/ Shutdown(s) PROVE Quiet
  BY <1>1 DEF Quiet, FireIdle, Retire, CancelUnpinned, Shutdown, managerVars, callerVars
<1>2. ASSUME NEW k \in Keys, Unpin(k) \/ WaitElapses(k) PROVE Quiet
  BY <1>2 DEF Quiet, Unpin, WaitElapses, callerVars
<1>3. CASE SetCatalog \/ DropVanished \/ CloseRoot \/ UNCHANGED vars
  BY <1>3 DEF Quiet, SetCatalog, DropVanished, CloseRoot, vars, managerVars, callerVars
<1> QED BY <1>1, <1>2, <1>3 DEF Next

\* Outside the callers nothing is put in the map.
LEMMA QuietForgets ==
    ASSUME TypeInv, [Next]_vars, Quiet
    PROVE  \A k \in Keys : streams'[k] \in {streams[k], None}
<1> USE DEF TypeInv, TypeOK
<1>1. ASSUME NEW c \in Callers, Begin(c) \/ CallerStep(c) \/ Detach(c)
      PROVE  \A k \in Keys : streams'[k] \in {streams[k], None}
  <2>1. pc'[c] # pc[c]
    BY <1>1 DEF Begin, CallerStep, Detach, AcquireGate, LockGate, LookupStream, CoolingOff, Synced, SyncFails,
       RecordFailure, Install, ReleaseGate, TornDown, Register, Pin, Return
  <2> QED BY <2>1 DEF Quiet
<1>2. ASSUME NEW s \in Streams, FireIdle(s) \/ Retire(s) \/ CancelUnpinned(s) \/ Shutdown(s)
      PROVE  \A k \in Keys : streams'[k] \in {streams[k], None}
  BY <1>2 DEF FireIdle, Retire, Forget, CancelUnpinned, Shutdown, managerVars
<1>3. ASSUME NEW l \in Keys, Unpin(l) \/ WaitElapses(l)
      PROVE  \A k \in Keys : streams'[k] \in {streams[k], None}
  BY <1>3 DEF Unpin, WaitElapses
<1>4. CASE SetCatalog \/ DropVanished \/ CloseRoot \/ UNCHANGED vars
  BY <1>4 DEF SetCatalog, DropVanished, CloseRoot, vars, managerVars
<1> QED BY <1>1, <1>2, <1>3, <1>4 DEF Next

-----------------------------------------------------------------------------
(* The gate.                                                               *)

\* AtGate(k) and every subset of the callers is finite.
LEMMA AtGateFinite ==
    ASSUME NEW k \in Keys
    PROVE  IsFiniteSet(AtGate(k)) /\ Cardinality(AtGate(k)) \in Nat
<1>1. AtGate(k) \subseteq Callers
  BY DEF AtGate
<1> QED BY <1>1, FiniteAssumption, FS_Subset, FS_CardinalityType

\* A step that moves nobody to or from a gate keeps the count.
LEMMA GateKept ==
    ASSUME GateCounted, UNCHANGED <<building, gateRefs>>,
           \A k \in Keys : AtGate(k)' = AtGate(k) /\ \A c \in AtGate(k) : mine'[c] = mine[c]
    PROVE  GateCounted'
BY DEF GateCounted

\* acquireGate and releaseGate keep buildGate.refs equal to the callers at the
\* gate, across gates that are dropped and made again.
LEMMA GateStep == IInv /\ [Next]_vars => GateCounted'
<1> SUFFICES ASSUME IInv, [Next]_vars PROVE GateCounted'
  OBVIOUS
<1> USE NoneAssumption
<1>1. ASSUME NEW c \in Callers, Begin(c) \/ TornDown(c) \/ Register(c) \/ Pin(c) \/ Detach(c)
      PROVE  GateCounted'
  <2>1. \A k \in Keys : AtGate(k)' = AtGate(k)
    BY <1>1 DEF AtGate, Inside, IInv, TypeInv, TypeOK, Begin, TornDown, Register, Pin, Detach, Return
  <2>2. UNCHANGED <<building, gateRefs, mine>>
    BY <1>1 DEF Begin, TornDown, Register, Pin, Detach, managerVars
  <2> QED BY <2>1, <2>2, GateKept DEF IInv
<1>2. ASSUME NEW c \in Callers,
             LockGate(c) \/ LookupStream(c) \/ CoolingOff(c) \/ Synced(c) \/ SyncFails(c)
               \/ RecordFailure(c) \/ Install(c)
      PROVE  GateCounted'
  <2>1. \A k \in Keys : AtGate(k)' = AtGate(k)
    BY <1>2 DEF AtGate, Inside, IInv, TypeInv, TypeOK, LockGate, LookupStream, CoolingOff, Synced,
       SyncFails, RecordFailure, Install
  <2>2. UNCHANGED <<building, gateRefs, mine>>
    BY <1>2 DEF LockGate, LookupStream, CoolingOff, Synced, SyncFails, RecordFailure, Install, managerVars
  <2> QED BY <2>1, <2>2, GateKept DEF IInv
<1>3. ASSUME NEW c \in Callers, AcquireGate(c) PROVE GateCounted'
  <2>0. PICK g \in Keys : g = key[c]
    BY <1>3 DEF AcquireGate, IInv, TypeInv, CallerOK
  <2>1. c \notin AtGate(g)
    BY <2>0, <1>3 DEF AcquireGate, AtGate, Inside, IInv, TypeInv, CallerOK
  <2>2. CASE pc' = [pc EXCEPT ![c] = "join"]
    <3>1. \A k \in Keys : AtGate(k)' = AtGate(k)
      BY <1>3, <2>2 DEF AtGate, Inside, IInv, TypeInv, TypeOK, AcquireGate
    <3>2. UNCHANGED <<building, gateRefs, mine>>
      BY <1>3, <2>1, <2>2 DEF AcquireGate, IInv, TypeInv, TypeOK
    <3> QED BY <3>1, <3>2, GateKept DEF IInv
  <2>3. CASE pc' = [pc EXCEPT ![c] = "gate"]
    <3>1. /\ building' = [building EXCEPT ![g] = IF @ = None THEN c ELSE @]
          /\ gateRefs' = [gateRefs EXCEPT ![g] = @ + 1]
          /\ mine' = [mine EXCEPT ![c] = building'[g]] /\ key' = key
      BY <2>0, <1>3, <2>3 DEF AcquireGate, IInv, TypeInv, TypeOK
    <3>2. AtGate(g)' = AtGate(g) \cup {c}
      BY <2>0, <2>1, <2>3, <3>1 DEF AtGate, Inside, IInv, TypeInv, TypeOK
    <3>3. \A k \in Keys \ {g} : AtGate(k)' = AtGate(k)
      BY <2>0, <2>1, <2>3, <3>1 DEF AtGate, Inside, IInv, TypeInv, TypeOK
    <3>4. gateRefs'[g] = Cardinality(AtGate(g)')
      <4>1. Cardinality(AtGate(g) \cup {c}) = Cardinality(AtGate(g)) + 1
        BY <2>1, AtGateFinite, FS_AddElement
      <4> QED BY <2>1, <3>1, <3>2, <4>1 DEF GateCounted, IInv, TypeInv, TypeOK
    <3>5. \A d \in AtGate(g)' : building'[g] # None /\ mine'[d] = building'[g]
      <4>1. \A d \in AtGate(g) : d # c /\ building[g] # None /\ mine[d] = building[g]
        BY <2>1 DEF GateCounted, IInv
      <4>2. \A d \in AtGate(g) : d \in Callers
        BY DEF AtGate
      <4> QED BY <2>1, <3>1, <3>2, <4>1, <4>2 DEF IInv, TypeInv, TypeOK
    <3>6. \A k \in Keys \ {g} : c \notin AtGate(k)
      BY <1>3 DEF AtGate, AcquireGate, Inside
    <3>7. ASSUME NEW k \in Keys \ {g}
          PROVE  /\ gateRefs'[k] = Cardinality(AtGate(k)')
                 /\ \A d \in AtGate(k)' : building'[k] # None /\ mine'[d] = building'[k]
      <4>1. gateRefs'[k] = gateRefs[k] /\ building'[k] = building[k]
        BY <3>1, <3>7 DEF IInv, TypeInv, TypeOK
      <4>2. \A d \in AtGate(k) : mine'[d] = mine[d]
        BY <3>1, <3>6, <3>7 DEF IInv, TypeInv, TypeOK, AtGate
      <4> QED BY <3>3, <3>7, <4>1, <4>2 DEF GateCounted, IInv
    <3> QED BY <3>4, <3>5, <3>7 DEF GateCounted
  <2> QED BY <1>3, <2>2, <2>3 DEF AcquireGate
<1>4. ASSUME NEW c \in Callers, ReleaseGate(c) PROVE GateCounted'
  <2>0. PICK g \in Keys : g = key[c]
    BY <1>4 DEF ReleaseGate, IInv, TypeInv, CallerOK
  <2>1. c \in AtGate(g)
    BY <2>0, <1>4 DEF ReleaseGate, AtGate, Inside, IInv, TypeInv, CallerOK
  <2>2. /\ gateRefs' = [gateRefs EXCEPT ![g] = @ - 1]
        /\ building' = [building EXCEPT ![g] = IF gateRefs[g] = 1 THEN None ELSE @]
        /\ mine' = [mine EXCEPT ![c] = None]
    BY <2>0, <1>4, <2>1 DEF ReleaseGate, DropGate, GateCounted, IInv
  <2>3. /\ pc' \in {[pc EXCEPT ![c] = "join"], [pc EXCEPT ![c] = "attach"], [pc EXCEPT ![c] = "idle"]}
        /\ \A d \in Callers \ {c} : key'[d] = key[d]
    BY <1>4 DEF ReleaseGate, Return, IInv, TypeInv, TypeOK
  <2>4. AtGate(g)' = AtGate(g) \ {c}
    BY <2>0, <2>3 DEF AtGate, Inside, IInv, TypeInv, TypeOK
  <2>5. \A k \in Keys \ {g} : AtGate(k)' = AtGate(k) /\ c \notin AtGate(k)
    BY <2>0, <2>3 DEF AtGate, Inside, IInv, TypeInv, TypeOK
  <2>6. Cardinality(AtGate(g) \ {c}) = Cardinality(AtGate(g)) - 1
    BY <2>1, AtGateFinite, FS_RemoveElement
  <2>7. gateRefs'[g] = Cardinality(AtGate(g)')
    BY <2>1, <2>2, <2>4, <2>6 DEF GateCounted, IInv, TypeInv, TypeOK
  <2>8. ASSUME NEW d \in AtGate(g)' PROVE building'[g] # None /\ mine'[d] = building'[g]
    <3>1. d \in AtGate(g) /\ d # c /\ d \in Callers
      BY <2>4, <2>8 DEF AtGate
    <3>2. gateRefs[g] # 1
      <4>1. AtGate(g) \ {c} # {} /\ IsFiniteSet(AtGate(g) \ {c})
        BY <2>1, <3>1, AtGateFinite, FS_RemoveElement
      <4>2. Cardinality(AtGate(g) \ {c}) # 0
        BY <4>1, FS_EmptySet
      <4> QED BY <2>1, <2>6, <4>2, AtGateFinite DEF GateCounted, IInv
    <3>3. mine[d] = building[g] /\ building[g] # None
      BY <2>1, <3>1 DEF GateCounted, IInv
    <3> QED BY <2>1, <2>2, <3>1, <3>2, <3>3 DEF IInv, TypeInv, TypeOK
  <2>9. ASSUME NEW k \in Keys \ {g}
        PROVE  /\ gateRefs'[k] = Cardinality(AtGate(k)')
               /\ \A d \in AtGate(k)' : building'[k] # None /\ mine'[d] = building'[k]
    <3>1. gateRefs'[k] = gateRefs[k] /\ building'[k] = building[k]
      BY <2>2, <2>9 DEF IInv, TypeInv, TypeOK
    <3>2. \A d \in AtGate(k) : mine'[d] = mine[d]
      BY <2>2, <2>5, <2>9 DEF IInv, TypeInv, TypeOK, AtGate
    <3> QED BY <2>5, <2>9, <3>1, <3>2 DEF GateCounted, IInv
  <2> QED BY <2>7, <2>8, <2>9 DEF GateCounted
<1>5. CASE UNCHANGED <<building, gateRefs, pc, key, mine>>
  <2>1. \A k \in Keys : AtGate(k)' = AtGate(k)
    BY <1>5 DEF AtGate
  <2> QED BY <1>5, <2>1, GateKept DEF IInv
<1> QED
  BY <1>1, <1>2, <1>3, <1>4, <1>5, CallersOrQuiet DEF CallerStep, Quiet

\* gate.Lock() admits one caller: all who wait for a key wait at one gate.
LEMMA OneBuilderStep == IInv /\ [Next]_vars => OneBuilder'
<1> SUFFICES ASSUME IInv, [Next]_vars PROVE OneBuilder'
  OBVIOUS
<1>1. ASSUME NEW c \in Callers, LockGate(c) PROVE OneBuilder'
  <2>1. ASSUME NEW d \in Callers \ {c}, pc[d] \in Inside PROVE key[d] # key[c]
    <3>1. SUFFICES ASSUME key[d] = key[c] PROVE FALSE
      OBVIOUS
    <3>2. key[c] \in Keys /\ c \in AtGate(key[c]) /\ d \in AtGate(key[c])
      BY <1>1, <2>1, <3>1 DEF LockGate, AtGate, IInv, TypeInv, CallerOK
    <3>3. mine[d] = mine[c]
      BY <3>2 DEF GateCounted, IInv
    <3> QED BY <1>1, <2>1, <3>1, <3>3 DEF LockGate
  <2>2. key' = key /\ pc' = [pc EXCEPT ![c] = "locked"]
    BY <1>1 DEF LockGate
  <2> QED BY <2>1, <2>2 DEF OneBuilder, IInv, TypeInv, TypeOK
<1>2. ASSUME NEW c \in Callers, Begin(c) \/ AcquireGate(c) \/ TornDown(c) \/ Register(c) \/ Pin(c)
                                  \/ Detach(c) \/ ReleaseGate(c)
      PROVE  OneBuilder'
  <2>1. pc'[c] \notin Inside /\ \A d \in Callers \ {c} : pc'[d] = pc[d] /\ key'[d] = key[d]
    BY <1>2 DEF Inside, IInv, TypeInv, TypeOK, Begin, AcquireGate, TornDown, Register, Pin, Detach,
       ReleaseGate, Return
  <2> QED BY <2>1 DEF OneBuilder, IInv
<1>3. ASSUME NEW c \in Callers, LookupStream(c) \/ CoolingOff(c) \/ Synced(c) \/ SyncFails(c)
                                  \/ RecordFailure(c) \/ Install(c)
      PROVE  OneBuilder'
  <2>1. pc[c] \in Inside /\ key' = key /\ \A d \in Callers \ {c} : pc'[d] = pc[d]
    BY <1>3 DEF Inside, IInv, TypeInv, TypeOK, LookupStream, CoolingOff, Synced, SyncFails,
       RecordFailure, Install
  <2> QED BY <2>1 DEF OneBuilder, IInv
<1>4. CASE Quiet
  BY <1>4 DEF Quiet, OneBuilder, IInv
<1> QED BY <1>1, <1>2, <1>3, <1>4, CallersOrQuiet DEF CallerStep

\* The map gets a stream from Install alone, the work of the one builder.
LEMMA NoneWhileBuildingStep == IInv /\ [Next]_vars => NoneWhileBuilding'
<1> SUFFICES ASSUME IInv, [Next]_vars PROVE NoneWhileBuilding'
  OBVIOUS
<1> USE DEF IInv, TypeInv, TypeOK, Inside
<1>1. ASSUME NEW c \in Callers, Begin(c) \/ AcquireGate(c) \/ TornDown(c) \/ Register(c) \/ Pin(c)
                                  \/ Detach(c) \/ ReleaseGate(c) \/ LockGate(c)
      PROVE  NoneWhileBuilding'
  <2>1. /\ pc'[c] \notin Inside \ {"locked"}
        /\ \A d \in Callers \ {c} : pc'[d] = pc[d] /\ key'[d] = key[d]
        /\ streams' = streams
    BY <1>1 DEF Begin, AcquireGate, TornDown, Register, Pin, Detach, ReleaseGate, LockGate,
       Return, managerVars
  <2> QED BY <2>1 DEF NoneWhileBuilding
<1>2. ASSUME NEW c \in Callers, LookupStream(c) PROVE NoneWhileBuilding'
  BY <1>2 DEF NoneWhileBuilding, LookupStream, managerVars
<1>3. ASSUME NEW c \in Callers, CoolingOff(c) \/ Synced(c) \/ SyncFails(c) \/ RecordFailure(c)
      PROVE  NoneWhileBuilding'
  <2>1. /\ pc[c] \in Inside \ {"locked"} /\ key' = key /\ streams' = streams
        /\ \A d \in Callers \ {c} : pc'[d] = pc[d]
    BY <1>3 DEF CoolingOff, Synced, SyncFails, RecordFailure, managerVars
  <2> QED BY <2>1 DEF NoneWhileBuilding
<1>4. ASSUME NEW c \in Callers, Install(c) PROVE NoneWhileBuilding'
  <2>1. /\ pc'[c] = "release" /\ key' = key /\ streams' = [streams EXCEPT ![key[c]] = got[c]]
        /\ \A d \in Callers \ {c} : pc'[d] = pc[d] /\ (pc[d] \in Inside => key[d] # key[c])
    BY <1>4 DEF Install, OneBuilder
  <2>2. \A d \in Callers : pc[d] \in Inside => key[d] \in Keys
    BY DEF CallerOK
  <2> QED BY <2>1, <2>2 DEF NoneWhileBuilding
<1>5. ASSUME \A k \in Keys : streams'[k] \in {streams[k], None}, Quiet PROVE NoneWhileBuilding'
  <2>1. \A d \in Callers : pc[d] \in Inside => key[d] \in Keys
    BY DEF CallerOK
  <2> QED BY <1>5, <2>1 DEF Quiet, NoneWhileBuilding
<1> QED BY <1>1, <1>2, <1>3, <1>4, <1>5, CallersOrQuiet, QuietForgets DEF CallerStep

-----------------------------------------------------------------------------
(* Where a stream is.                                                      *)

\* newStream makes a stream nobody else knows; until Install puts it in the map
\* no other caller, timer, unpin or refresh can get at it.
LEMMA BuildsItsOwnStep == IInv /\ [Next]_vars => BuildsItsOwn'
<1> SUFFICES ASSUME IInv, [Next]_vars PROVE BuildsItsOwn'
  OBVIOUS
<1> USE NoneAssumption DEF IInv, TypeInv, TypeOK
<1>0. \A c \in Callers : pc[c] \in {"building", "built"} => got[c] \in Streams
  BY DEF CallerOK
<1>1. ASSUME NEW c \in Callers, Begin(c) \/ TornDown(c) \/ Register(c) \/ Pin(c) \/ Detach(c)
                                  \/ ReleaseGate(c) \/ LockGate(c) \/ RecordFailure(c)
      PROVE  BuildsItsOwn'
  <2>1. /\ pc'[c] \notin {"building", "built"} /\ got'[c] \in {got[c], None}
        /\ \A d \in Callers \ {c} : pc'[d] = pc[d] /\ got'[d] = got[d]
        /\ UNCHANGED <<streams, dropped, unpinned, root, live>>
    BY <1>1 DEF Begin, TornDown, Register, Pin, Detach, ReleaseGate, LockGate, RecordFailure, Return,
       managerVars, refreshVars, streamVars
  <2> QED BY <1>0, <2>1 DEF BuildsItsOwn
<1>2. ASSUME NEW c \in Callers, AcquireGate(c) \/ LookupStream(c) PROVE BuildsItsOwn'
  <2>0. key[c] \in Keys
    BY <1>2 DEF AcquireGate, LookupStream, CallerOK
  <2>1. /\ pc'[c] \notin {"building", "built"} /\ got'[c] \in {got[c], streams[key[c]]}
        /\ \A d \in Callers \ {c} : pc'[d] = pc[d] /\ got'[d] = got[d]
        /\ UNCHANGED <<streams, dropped, unpinned, root, live>>
    BY <1>2 DEF AcquireGate, LookupStream, managerVars, refreshVars, streamVars
  <2> QED BY <1>0, <2>0, <2>1 DEF BuildsItsOwn
<1>3. ASSUME NEW c \in Callers, CoolingOff(c) PROVE BuildsItsOwn'
  <2>1. CASE got' = got
    <3>1. CASE pc'[c] \notin {"building", "built"} /\ live' = live
      BY <1>3, <2>1, <3>1 DEF BuildsItsOwn, CoolingOff, managerVars, refreshVars
    <3>2. CASE ~ (pc'[c] \notin {"building", "built"} /\ live' = live)
      <4>1. PICK s \in Streams : Fresh(s) /\ got' = [got EXCEPT ![c] = s]
        BY <1>3, <3>2 DEF CoolingOff, streamVars
      <4> QED BY <2>1, <4>1 DEF Fresh
    <3> QED BY <3>1, <3>2
  <2>2. CASE got' # got
    <3>1. PICK s \in Streams : /\ Fresh(s) /\ got' = [got EXCEPT ![c] = s]
                               /\ live' = IF root THEN live \cup {s} ELSE live
      BY <1>3, <2>2 DEF CoolingOff
    <3>2. /\ UNCHANGED <<streams, dropped, unpinned, root>> /\ pc' = [pc EXCEPT ![c] = "building"]
      BY <1>3, <2>2 DEF CoolingOff, managerVars, refreshVars
    <3> QED BY <3>1, <3>2 DEF BuildsItsOwn, Fresh
  <2> QED BY <2>1, <2>2
<1>4. ASSUME NEW c \in Callers, Synced(c) PROVE BuildsItsOwn'
  BY <1>4 DEF BuildsItsOwn, Synced, managerVars, refreshVars, streamVars
<1>5. ASSUME NEW c \in Callers, SyncFails(c) PROVE BuildsItsOwn'
  <2>1. /\ pc[c] = "building" /\ pc' = [pc EXCEPT ![c] = "failed"] /\ got' = [got EXCEPT ![c] = None]
        /\ live' = live \ {got[c]} /\ UNCHANGED <<streams, dropped, unpinned, root>>
    BY <1>5 DEF SyncFails, CancelBuild, managerVars, refreshVars
  <2> QED BY <1>0, <2>1 DEF BuildsItsOwn
<1>6. ASSUME NEW c \in Callers, Install(c) PROVE BuildsItsOwn'
  <2>1. /\ pc[c] = "built" /\ pc' = [pc EXCEPT ![c] = "release"] /\ got' = got
        /\ streams' = [streams EXCEPT ![key[c]] = got[c]] /\ UNCHANGED <<live, dropped, unpinned, root>>
    BY <1>6 DEF Install, refreshVars, streamVars
  <2> QED BY <1>0, <2>1 DEF BuildsItsOwn
<1>7. ASSUME NEW s \in Streams, FireIdle(s) \/ Retire(s) \/ CancelUnpinned(s) \/ Shutdown(s)
      PROVE  BuildsItsOwn'
  <2>1. /\ UNCHANGED <<pc, got, root>> /\ dropped' \subseteq dropped /\ unpinned' \subseteq unpinned
        /\ \A k \in Keys : streams'[k] \in {streams[k], None}
        /\ live \subseteq live' \/ (live' = live \ {s} /\ (s \in dropped \cup unpinned \/ Registered(s)))
    BY <1>7 DEF FireIdle, Retire, Forget, CancelUnpinned, Shutdown, Registered, managerVars, refreshVars, callerVars
  <2> QED BY <1>0, <2>1 DEF BuildsItsOwn, Registered
<1>8. ASSUME NEW k \in Keys, Unpin(k) \/ WaitElapses(k) PROVE BuildsItsOwn'
  <2>1. /\ UNCHANGED <<pc, got, root, live, dropped>> /\ unpinned' \subseteq unpinned \cup {streams[k]}
        /\ \A l \in Keys : streams'[l] \in {streams[l], None}
    BY <1>8 DEF Unpin, WaitElapses, refreshVars, streamVars, callerVars
  <2> QED BY <1>0, <2>1 DEF BuildsItsOwn
<1>9. CASE SetCatalog \/ CloseRoot \/ UNCHANGED vars
  <2>1. UNCHANGED <<pc, got, streams, dropped, unpinned>> /\ (root' => root /\ live' = live)
    BY <1>9 DEF SetCatalog, CloseRoot, vars, managerVars, refreshVars, streamVars, callerVars
  <2> QED BY <2>1 DEF BuildsItsOwn
<1>10. CASE DropVanished
  <2>1. /\ UNCHANGED <<pc, got, root, live, unpinned>>
        /\ \A s \in dropped' : \E k \in Keys : streams[k] = s
        /\ \A l \in Keys : streams'[l] \in {streams[l], None}
    BY <1>10 DEF DropVanished, streamVars, callerVars
  <2> QED BY <1>0, <2>1 DEF BuildsItsOwn
<1> QED BY <1>1, <1>2, <1>3, <1>4, <1>5, <1>6, <1>7, <1>8, <1>9, <1>10 DEF Next, CallerStep

\* What leaves the map goes to one place, and its informer is cancelled from
\* there only.
LEMMA PartedStep == IInv /\ [Next]_vars => Parted'
<1> SUFFICES ASSUME IInv, [Next]_vars PROVE Parted'
  OBVIOUS
<1> USE NoneAssumption DEF IInv, TypeInv, TypeOK
<1>1. ASSUME NEW c \in Callers, Begin(c) \/ AcquireGate(c) \/ LockGate(c) \/ LookupStream(c) \/ CoolingOff(c)
                                  \/ Synced(c) \/ RecordFailure(c) \/ ReleaseGate(c) \/ TornDown(c)
                                  \/ Register(c) \/ Pin(c) \/ Detach(c)
      PROVE  Parted'
  <2>1. UNCHANGED <<streams, dropped, unpinned, root>> /\ live \subseteq live'
    BY <1>1 DEF Begin, AcquireGate, LockGate, LookupStream, CoolingOff, Synced, RecordFailure, ReleaseGate,
       TornDown, Register, Pin, Detach, managerVars, refreshVars, streamVars
  <2> QED BY <2>1 DEF Parted
<1>2. ASSUME NEW c \in Callers, SyncFails(c) PROVE Parted'
  <2>1. /\ UNCHANGED <<streams, dropped, unpinned, root>> /\ live' = live \ {got[c]}
        /\ pc[c] = "building"
    BY <1>2 DEF SyncFails, CancelBuild, managerVars, refreshVars
  <2> QED BY <2>1 DEF Parted, BuildsItsOwn
<1>3. ASSUME NEW c \in Callers, Install(c) PROVE Parted'
  <2>1. /\ UNCHANGED <<dropped, unpinned, root, live>> /\ streams' = [streams EXCEPT ![key[c]] = got[c]]
        /\ pc[c] = "built"
    BY <1>3 DEF Install, refreshVars, streamVars
  <2> QED BY <2>1 DEF Parted, BuildsItsOwn
<1>4. ASSUME NEW s \in Streams, FireIdle(s) \/ Retire(s) PROVE Parted'
  <2>1. UNCHANGED <<dropped, unpinned, root>>
    BY <1>4 DEF FireIdle, Retire, refreshVars
  <2>2. CASE UNCHANGED <<streams, live>>
    BY <2>1, <2>2 DEF Parted
  <2>3. CASE Forget(s) /\ live' = live \ {s} /\ Registered(s)
    BY <2>1, <2>3 DEF Parted, Forget, Registered
  <2> QED BY <1>4, <2>2, <2>3 DEF FireIdle, Retire, Registered, managerVars
<1>5. ASSUME NEW s \in Streams, CancelUnpinned(s) \/ Shutdown(s) PROVE Parted'
  <2>1. /\ UNCHANGED <<streams, root>> /\ live' = live \ {s}
        /\ \/ s \in unpinned /\ unpinned' = unpinned \ {s} /\ dropped' = dropped
           \/ s \in dropped /\ dropped' = dropped \ {s} /\ unpinned' = unpinned
    BY <1>5 DEF CancelUnpinned, Shutdown, managerVars, refreshVars
  <2> QED BY <2>1 DEF Parted
<1>6. ASSUME NEW k \in Keys, Unpin(k) PROVE Parted'
  <2>1. UNCHANGED <<dropped, root, live>>
    BY <1>6 DEF Unpin, refreshVars
  <2>2. CASE UNCHANGED <<streams, unpinned>>
    BY <2>1, <2>2 DEF Parted
  <2>3. CASE streams[k] # None /\ streams' = [streams EXCEPT ![k] = None] /\ unpinned' = unpinned \cup {streams[k]}
    BY <2>1, <2>3 DEF Parted
  <2> QED BY <1>6, <2>2, <2>3 DEF Unpin
<1>7. CASE DropVanished
  <2>1. /\ UNCHANGED <<unpinned, root, live>>
        /\ \A s \in dropped' : \E k \in Keys : streams[k] = s /\ s # None /\ streams'[k] = None
        /\ \A l \in Keys : streams'[l] \in {streams[l], None}
    BY <1>7 DEF DropVanished, streamVars
  <2> QED BY <2>1 DEF Parted
<1>8. CASE SetCatalog \/ CloseRoot \/ UNCHANGED vars \/ \E k \in Keys : WaitElapses(k)
  <2>1. UNCHANGED <<streams, dropped, unpinned>> /\ (root' => root /\ live' = live)
    BY <1>8 DEF SetCatalog, CloseRoot, WaitElapses, vars, managerVars, refreshVars, streamVars
  <2> QED BY <2>1 DEF Parted
<1> QED BY <1>1, <1>2, <1>3, <1>4, <1>5, <1>6, <1>7, <1>8 DEF Next, CallerStep

\* RefreshResources runs one at a time, its shutdowns included.
LEMMA RefreshAloneStep == IInv /\ [Next]_vars => RefreshAlone'
<1> SUFFICES ASSUME IInv, [Next]_vars PROVE RefreshAlone'
  OBVIOUS
<1>1. CASE SetCatalog
  BY <1>1 DEF SetCatalog, RefreshAlone
<1>2. CASE DropVanished
  BY <1>2 DEF DropVanished, RefreshAlone
<1>3. ASSUME NEW s \in Streams, Shutdown(s) PROVE RefreshAlone'
  BY <1>3 DEF Shutdown, RefreshAlone, IInv
<1>4. CASE UNCHANGED refreshVars
  BY <1>4 DEF refreshVars, RefreshAlone, IInv
<1>5. ASSUME NEW c \in Callers, Begin(c) \/ CallerStep(c) \/ Detach(c) PROVE UNCHANGED refreshVars
  BY <1>5 DEF CallerStep, Begin, AcquireGate, LockGate, LookupStream, CoolingOff, Synced, SyncFails, RecordFailure,
     Install, ReleaseGate, TornDown, Register, Pin, Detach
<1>6. ASSUME NEW s \in Streams, FireIdle(s) \/ Retire(s) \/ CancelUnpinned(s) PROVE UNCHANGED refreshVars
  BY <1>6 DEF FireIdle, Retire, CancelUnpinned
<1>7. ASSUME NEW k \in Keys, Unpin(k) \/ WaitElapses(k) PROVE UNCHANGED refreshVars
  BY <1>7 DEF Unpin, WaitElapses
<1>8. CASE CloseRoot \/ UNCHANGED vars
  BY <1>4, <1>8 DEF CloseRoot, vars
<1> QED BY <1>1, <1>2, <1>3, <1>4, <1>5, <1>6, <1>7, <1>8 DEF Next

-----------------------------------------------------------------------------
(* Subscribers.                                                            *)

\* The callers a step of another kind than register, detach and shutdown moves
\* were not attached, and are not now.
LEMMA Movers ==
    ASSUME TypeInv, NEW c \in Callers, Begin(c) \/ CallerStep(c), ~ Register(c)
    PROVE  /\ pc[c] # "attached" /\ pc'[c] # "attached"
           /\ \A d \in Callers \ {c} : pc'[d] = pc[d] /\ got'[d] = got[d] /\ key'[d] = key[d]
           /\ UNCHANGED <<subs, open>>
BY DEF TypeInv, TypeOK, CallerStep, Begin, AcquireGate, LockGate, LookupStream, CoolingOff, Synced, SyncFails,
   RecordFailure, Install, ReleaseGate, TornDown, Pin, Return, streamVars

\* register, detach and shutdown change st.subs and the channels together.
LEMMA SubscribersOpenStep == IInv /\ [Next]_vars => OpenAttached' /\ SubscribersOpen'
<1> SUFFICES ASSUME IInv, [Next]_vars PROVE OpenAttached' /\ SubscribersOpen'
  OBVIOUS
<1> USE DEF IInv, TypeInv, TypeOK, OpenAttached, SubscribersOpen
<1>1. ASSUME NEW c \in Callers, Begin(c) \/ CallerStep(c), ~ Register(c) PROVE OpenAttached' /\ SubscribersOpen'
  <2>1. /\ pc[c] # "attached"
        /\ \A d \in Callers \ {c} : pc'[d] = pc[d] /\ got'[d] = got[d]
        /\ UNCHANGED <<subs, open>>
    BY <1>1, Movers
  <2> QED BY <2>1
<1>2. ASSUME NEW c \in Callers, Register(c) PROVE OpenAttached' /\ SubscribersOpen'
  <2>1. got[c] \in Streams
    BY <1>2 DEF Register, CallerOK
  <2> QED BY <1>2, <2>1 DEF Register
<1>3. ASSUME NEW c \in Callers, Detach(c) PROVE OpenAttached' /\ SubscribersOpen'
  <2>1. got[c] \in Streams
    BY <1>3 DEF Detach, CallerOK
  <2>2. c \in open => c \in subs[got[c]]
    BY DEF SubscribersServed
  <2> QED BY <1>3, <2>1, <2>2 DEF Detach, Return
<1>4. ASSUME NEW s \in Streams, Shutdown(s) PROVE OpenAttached' /\ SubscribersOpen'
  BY <1>4 DEF Shutdown, CloseSubscribers
<1>5. ASSUME NEW s \in Streams, FireIdle(s) \/ Retire(s) \/ CancelUnpinned(s) PROVE OpenAttached' /\ SubscribersOpen'
  BY <1>5 DEF FireIdle, Retire, CancelUnpinned, callerVars
<1>6. ASSUME NEW k \in Keys, Unpin(k) \/ WaitElapses(k) PROVE OpenAttached' /\ SubscribersOpen'
  BY <1>6 DEF Unpin, WaitElapses, callerVars, streamVars
<1>7. CASE SetCatalog \/ DropVanished \/ CloseRoot \/ UNCHANGED vars
  BY <1>7 DEF SetCatalog, DropVanished, CloseRoot, vars, callerVars, streamVars
<1> QED BY <1>1, <1>2, <1>3, <1>4, <1>5, <1>6, <1>7 DEF Next, CallerStep

\* The subscribers of a stream are finitely many; none are left at zero.
LEMMA SubsFinite ==
    ASSUME TypeInv, NEW s \in Streams
    PROVE  /\ IsFiniteSet(subs[s]) /\ Cardinality(subs[s]) \in Nat
           /\ Cardinality(subs[s]) = 0 => subs[s] = {}
<1>1. subs[s] \subseteq Callers
  BY DEF TypeInv, TypeOK
<1>2. IsFiniteSet(subs[s])
  BY <1>1, FiniteAssumption, FS_Subset
<1> QED BY <1>2, FS_CardinalityType, FS_EmptySet

\* st.refs counts st.subs whoever leaves, and in whatever order.
LEMMA RefsStep == IInv /\ [Next]_vars => RefsCountSubscribers'
<1> SUFFICES ASSUME IInv, [Next]_vars PROVE RefsCountSubscribers'
  OBVIOUS
<1> USE DEF IInv, TypeInv, TypeOK, RefsCountSubscribers
<1>1. ASSUME NEW c \in Callers, Begin(c) \/ CallerStep(c), ~ Register(c), ~ CoolingOff(c)
      PROVE  RefsCountSubscribers'
  <2>1. UNCHANGED <<subs, refs>>
    BY <1>1 DEF CallerStep, Begin, AcquireGate, LockGate, LookupStream, Synced, SyncFails,
       RecordFailure, Install, ReleaseGate, TornDown, Pin, streamVars
  <2> QED BY <2>1
<1>2. ASSUME NEW c \in Callers, CoolingOff(c) PROVE RefsCountSubscribers'
  <2>1. CASE UNCHANGED <<subs, refs>>
    BY <2>1
  <2>2. ASSUME NEW s \in Streams, Fresh(s), refs' = [refs EXCEPT ![s] = 0], subs' = subs
        PROVE  RefsCountSubscribers'
    BY <2>2, FS_EmptySet DEF Fresh
  <2> QED BY <1>2, <2>1, <2>2 DEF CoolingOff, streamVars
<1>3. ASSUME NEW c \in Callers, Register(c) PROVE RefsCountSubscribers'
  <2>1. PICK s \in Streams : s = got[c]
    BY <1>3 DEF Register, CallerOK
  <2>2. /\ subs' = [subs EXCEPT ![s] = @ \cup {c}] /\ refs' = [refs EXCEPT ![s] = @ + 1]
        /\ c \notin subs[s]
    BY <1>3, <2>1 DEF Register, SubscribersOpen
  <2>3. Cardinality(subs[s] \cup {c}) = Cardinality(subs[s]) + 1
    BY <2>2, SubsFinite, FS_AddElement
  <2> QED BY <2>2, <2>3
<1>4. ASSUME NEW c \in Callers, Detach(c) PROVE RefsCountSubscribers'
  <2>1. PICK s \in Streams : s = got[c]
    BY <1>4 DEF Detach, CallerOK
  <2>2. subs' = [subs EXCEPT ![s] = @ \ {c}] /\ refs' = [refs EXCEPT ![s] = Left(c, s)]
    BY <1>4, <2>1 DEF Detach
  <2>3. Cardinality(subs[s] \ {c}) = IF c \in subs[s] THEN Cardinality(subs[s]) - 1 ELSE Cardinality(subs[s])
    BY SubsFinite, FS_RemoveElement
  <2> QED BY <2>2, <2>3 DEF Left
<1>5. ASSUME NEW s \in Streams, Shutdown(s) PROVE RefsCountSubscribers'
  BY <1>5, FS_EmptySet DEF Shutdown, CloseSubscribers
<1>6. ASSUME NEW s \in Streams, FireIdle(s) \/ Retire(s) \/ CancelUnpinned(s) PROVE RefsCountSubscribers'
  BY <1>6 DEF FireIdle, Retire, CancelUnpinned
<1>7. ASSUME NEW k \in Keys, Unpin(k) \/ WaitElapses(k) PROVE RefsCountSubscribers'
  BY <1>7 DEF Unpin, WaitElapses, streamVars
<1>8. CASE SetCatalog \/ DropVanished \/ CloseRoot \/ UNCHANGED vars
  BY <1>8 DEF SetCatalog, DropVanished, CloseRoot, vars, streamVars
<1> QED BY <1>1, <1>2, <1>3, <1>4, <1>5, <1>6, <1>7, <1>8 DEF Next, CallerStep

\* Whoever has open channels knows its stream, which is in the map or dropped,
\* and has a subscriber.
LEMMA ServedBy ==
    ASSUME IInv, NEW c \in open
    PROVE  /\ c \in Callers /\ pc[c] = "attached" /\ key[c] \in Keys /\ got[c] \in Streams
           /\ got[c] \notin unpinned /\ refs[got[c]] # 0
           /\ \A d \in Callers : pc[d] \in {"building", "built"} => got[d] # got[c]
<1>1. c \in Callers /\ pc[c] = "attached" /\ key[c] \in Keys /\ got[c] \in Streams
  BY DEF IInv, TypeInv, TypeOK, CallerOK, OpenAttached
<1>2. got[c] \notin unpinned
  BY <1>1, NoneAssumption DEF IInv, SubscribersServed, Parted
<1>3. refs[got[c]] # 0
  BY <1>1, SubsFinite DEF IInv, SubscribersServed, RefsCountSubscribers
<1>4. \A d \in Callers : pc[d] \in {"building", "built"} => got[d] # got[c]
  BY <1>1 DEF IInv, BuildsItsOwn
<1> QED BY <1>1, <1>2, <1>3, <1>4

\* An informer is never stopped under an open table: not by retire, not by
\* unpin, not by a build that fails or replaces it.
LEMMA ServedStep == IInv /\ [Next]_vars => SubscribersServed'
<1> SUFFICES ASSUME IInv, [Next]_vars PROVE SubscribersServed'
  OBVIOUS
<1> USE NoneAssumption
<1>1. ASSUME NEW c \in Callers, Begin(c) \/ CallerStep(c), ~ Register(c) PROVE SubscribersServed'
  <2>1. /\ pc[c] # "attached" /\ UNCHANGED <<subs, open>>
        /\ \A d \in Callers \ {c} : got'[d] = got[d] /\ key'[d] = key[d]
    BY <1>1, Movers DEF IInv
  <2>2. \A d \in open : c # d /\ d \in Callers
    BY <2>1, ServedBy
  <2>3. UNCHANGED <<dropped, root>>
    BY <1>1 DEF CallerStep, Begin, AcquireGate, LockGate, LookupStream, CoolingOff, Synced, SyncFails, RecordFailure,
       Install, ReleaseGate, TornDown, Pin, refreshVars
  <2>4. CASE streams' = streams /\ live \subseteq live'
    BY <2>1, <2>2, <2>3, <2>4 DEF SubscribersServed, IInv
  <2>5. CASE SyncFails(c)
    <3>1. streams' = streams /\ live' = live \ {got[c]} /\ pc[c] = "building"
      BY <2>5 DEF SyncFails, CancelBuild, managerVars
    <3>2. \A d \in open : got[d] # got[c]
      BY <3>1, ServedBy
    <3> QED BY <2>1, <2>2, <2>3, <3>1, <3>2 DEF SubscribersServed, IInv
  <2>6. CASE Install(c)
    <3>1. streams' = [streams EXCEPT ![key[c]] = got[c]] /\ live' = live /\ streams[key[c]] = None
      BY <2>6 DEF Install, streamVars, NoneWhileBuilding, Inside, IInv
    <3>2. \A d \in open : streams[key[d]] = got[d] => key[d] # key[c]
      BY <3>1, ServedBy
    <3>3. \A d \in open : key[d] \in Keys
      BY ServedBy
    <3> QED BY <2>1, <2>2, <2>3, <3>1, <3>2, <3>3 DEF SubscribersServed, IInv, TypeInv, TypeOK
  <2> QED BY <1>1, <2>4, <2>5, <2>6 DEF CallerStep, Begin, AcquireGate, LockGate, LookupStream, CoolingOff, Synced,
        RecordFailure, ReleaseGate, TornDown, Pin, managerVars, streamVars
<1>2. ASSUME NEW c \in Callers, Register(c) PROVE SubscribersServed'
  <2>1. /\ pc[c] = "join" /\ streams[key[c]] = got[c] /\ key[c] \in Keys /\ got[c] \in Streams
        /\ subs' = [subs EXCEPT ![got[c]] = @ \cup {c}] /\ open' = open \cup {c}
        /\ UNCHANGED <<streams, dropped, root, live, got, key>>
    BY <1>2 DEF Register, StillHeld, IInv, TypeInv, CallerOK, managerVars, refreshVars
  <2>2. root => got[c] \in live
    BY <2>1 DEF Parted, IInv
  <2>3. \A d \in open : got[d] \in Streams
    BY ServedBy
  <2> QED BY <2>1, <2>2, <2>3 DEF SubscribersServed, IInv, TypeInv, TypeOK
<1>3. ASSUME NEW c \in Callers, Detach(c) PROVE SubscribersServed'
  <2>1. /\ pc[c] = "attached" /\ got[c] \in Streams
        /\ subs' = [subs EXCEPT ![got[c]] = @ \ {c}]
        /\ open' = IF c \in subs[got[c]] THEN open \ {c} ELSE open
        /\ got' = [got EXCEPT ![c] = None] /\ key' = [key EXCEPT ![c] = None]
        /\ UNCHANGED <<streams, dropped, root, live>>
    BY <1>3 DEF Detach, Return, IInv, TypeInv, CallerOK, managerVars, refreshVars
  <2>2. c \notin open'
    BY <2>1 DEF SubscribersServed, IInv
  <2>3. \A d \in open : d \in Callers /\ got[d] \in Streams
    BY ServedBy
  <2> QED BY <2>1, <2>2, <2>3 DEF SubscribersServed, IInv, TypeInv, TypeOK
<1>4. ASSUME NEW s \in Streams, Shutdown(s) PROVE SubscribersServed'
  <2>1. /\ dropped' = dropped \ {s} /\ open' = open \ subs[s] /\ subs' = [subs EXCEPT ![s] = {}]
        /\ live' = live \ {s} /\ UNCHANGED <<streams, root, got, key>>
    BY <1>4 DEF Shutdown, CloseSubscribers, managerVars
  <2>2. \A d \in open' : got[d] # s /\ got[d] \in Streams /\ d \in open
    BY <2>1, ServedBy DEF SubscribersServed, IInv
  <2> QED BY <2>1, <2>2 DEF SubscribersServed, IInv, TypeInv, TypeOK
<1>5. ASSUME NEW s \in Streams, Retire(s) PROVE SubscribersServed'
  <2>1. UNCHANGED <<dropped, root, subs, open, got, key>>
    BY <1>5 DEF Retire, refreshVars, callerVars
  <2>2. CASE UNCHANGED <<streams, live>>
    BY <2>1, <2>2 DEF SubscribersServed, IInv
  <2>3. CASE ~ Busy(s) /\ Forget(s) /\ live' = live \ {s}
    <3>1. refs[s] = 0
      BY <2>3, SubsFinite DEF Busy, IInv, RefsCountSubscribers
    <3>2. \A d \in open : got[d] # s /\ key[d] \in Keys
      BY <3>1, ServedBy
    <3> QED BY <2>1, <2>3, <3>2 DEF SubscribersServed, IInv, Forget
  <2> QED BY <1>5, <2>2, <2>3 DEF Retire
<1>6. ASSUME NEW s \in Streams, CancelUnpinned(s) PROVE SubscribersServed'
  <2>1. /\ s \in unpinned /\ live' = live \ {s}
        /\ UNCHANGED <<streams, dropped, root, subs, open, got, key>>
    BY <1>6 DEF CancelUnpinned, managerVars, refreshVars, callerVars
  <2>2. \A d \in open : got[d] # s
    BY <2>1, ServedBy
  <2> QED BY <2>1, <2>2 DEF SubscribersServed, IInv
<1>7. ASSUME NEW k \in Keys, Unpin(k) PROVE SubscribersServed'
  <2>1. UNCHANGED <<dropped, root, live, subs, open, got, key>>
    BY <1>7 DEF Unpin, refreshVars, callerVars
  <2>2. CASE streams' = streams
    BY <2>1, <2>2 DEF SubscribersServed, IInv
  <2>3. CASE refs[streams[k]] = 0 /\ streams' = [streams EXCEPT ![k] = None]
    <3>1. \A d \in open : got[d] # streams[k] /\ key[d] \in Keys
      BY <2>3, ServedBy
    <3> QED BY <2>1, <2>3, <3>1 DEF SubscribersServed, IInv, TypeInv, TypeOK
  <2> QED BY <1>7, <2>2, <2>3 DEF Unpin
<1>8. CASE DropVanished
  <2>1. /\ UNCHANGED <<root, live, subs, open, got, key>> /\ dropped = {}
        /\ \A k \in Keys : streams'[k] = streams[k] \/ streams[k] \in dropped'
    BY <1>8 DEF DropVanished, streamVars, callerVars, RefreshAlone, IInv, TypeInv, TypeOK
  <2>2. \A d \in open : key[d] \in Keys
    BY ServedBy
  <2> QED BY <2>1, <2>2 DEF SubscribersServed, IInv
<1>9. CASE \/ \E s \in Streams : FireIdle(s)
           \/ \E k \in Keys : WaitElapses(k)
           \/ SetCatalog \/ CloseRoot \/ UNCHANGED vars
  <2>1. UNCHANGED <<streams, dropped, subs, open, got, key>> /\ (root' => root /\ live' = live)
    BY <1>9 DEF FireIdle, WaitElapses, SetCatalog, CloseRoot, vars, managerVars, refreshVars, streamVars, callerVars
  <2> QED BY <2>1 DEF SubscribersServed, IInv
<1> QED BY <1>1, <1>2, <1>3, <1>4, <1>5, <1>6, <1>7, <1>8, <1>9 DEF Next, CallerStep

-----------------------------------------------------------------------------
(* Streams nobody reads.                                                   *)

\* Whatever takes a stream out of the map cancels its informer, or hands it to
\* someone who will.
LEMMA NoOrphanStep == IInv /\ [Next]_vars => NoOrphanInformer'
<1> SUFFICES ASSUME IInv, [Next]_vars PROVE NoOrphanInformer'
  OBVIOUS
<1> USE DEF IInv, TypeInv, TypeOK, NoOrphanInformer, Registered
<1>1. ASSUME NEW c \in Callers, Begin(c) \/ CallerStep(c) \/ Detach(c), ~ CoolingOff(c), ~ SyncFails(c), ~ Install(c)
      PROVE  NoOrphanInformer'
  <2>1. /\ UNCHANGED <<streams, dropped, unpinned, live>>
        /\ pc[c] \in {"building", "built"} => pc'[c] \in {"building", "built"} /\ got'[c] = got[c]
        /\ \A d \in Callers \ {c} : pc'[d] = pc[d] /\ got'[d] = got[d]
    BY <1>1 DEF CallerStep, Begin, AcquireGate, LockGate, LookupStream, Synced, RecordFailure, ReleaseGate,
       TornDown, Register, Pin, Detach, Return, managerVars, refreshVars, streamVars
  <2> QED BY <2>1, SMTT(30)
<1>2. ASSUME NEW c \in Callers, CoolingOff(c) PROVE NoOrphanInformer'
  <2>1. /\ UNCHANGED <<streams, dropped, unpinned>> /\ pc[c] = "cool"
        /\ \A d \in Callers \ {c} : pc'[d] = pc[d] /\ got'[d] = got[d]
        /\ live' = live \/ (live' \subseteq live \cup {got'[c]} /\ pc'[c] = "building")
    BY <1>2 DEF CoolingOff, managerVars, refreshVars, streamVars
  <2> QED BY <2>1
<1>3. ASSUME NEW c \in Callers, SyncFails(c) PROVE NoOrphanInformer'
  <2>1. /\ UNCHANGED <<streams, dropped, unpinned>> /\ live' = live \ {got[c]}
        /\ \A d \in Callers \ {c} : pc'[d] = pc[d] /\ got'[d] = got[d]
    BY <1>3 DEF SyncFails, CancelBuild, managerVars, refreshVars
  <2> QED BY <2>1
<1>4. ASSUME NEW c \in Callers, Install(c) PROVE NoOrphanInformer'
  <2>1. /\ UNCHANGED <<dropped, unpinned, live, got>> /\ key[c] \in Keys
        /\ streams' = [streams EXCEPT ![key[c]] = got[c]] /\ streams[key[c]] = None
        /\ \A d \in Callers \ {c} : pc'[d] = pc[d]
    BY <1>4 DEF Install, refreshVars, streamVars, NoneWhileBuilding, Inside, CallerOK
  <2> QED BY <2>1, NoneAssumption, SMTT(30)
<1>5. ASSUME NEW s \in Streams, FireIdle(s) \/ Retire(s) \/ CancelUnpinned(s) \/ Shutdown(s) PROVE NoOrphanInformer'
  <2>1. UNCHANGED <<pc, got>>
    BY <1>5 DEF FireIdle, Retire, CancelUnpinned, Shutdown, callerVars
  <2>2. \/ UNCHANGED <<streams, dropped, unpinned, live>>
        \/ /\ live' = live \ {s} /\ \A k \in Keys : streams[k] # s => streams'[k] = streams[k]
           /\ dropped \ {s} \subseteq dropped' /\ unpinned \ {s} \subseteq unpinned'
    BY <1>5 DEF FireIdle, Retire, Forget, CancelUnpinned, Shutdown, managerVars, refreshVars
  <2> QED BY <2>1, <2>2
<1>6. ASSUME NEW k \in Keys, Unpin(k) \/ WaitElapses(k) PROVE NoOrphanInformer'
  <2>1. /\ UNCHANGED <<pc, got, dropped, live>> /\ unpinned \subseteq unpinned'
        /\ \A l \in Keys : streams'[l] = streams[l] \/ streams[l] \in unpinned'
    BY <1>6 DEF Unpin, WaitElapses, refreshVars, streamVars, callerVars
  <2> QED BY <2>1
<1>7. CASE SetCatalog \/ DropVanished \/ CloseRoot \/ UNCHANGED vars
  <2>1. UNCHANGED <<pc, got, unpinned>> /\ live' \subseteq live /\ (dropped' = dropped \/ dropped = {})
    BY <1>7 DEF SetCatalog, DropVanished, CloseRoot, RefreshAlone, vars, refreshVars, streamVars, callerVars
  <2>2. \A l \in Keys : streams'[l] = streams[l] \/ streams[l] \in dropped'
    BY <1>7 DEF SetCatalog, DropVanished, CloseRoot, vars, managerVars
  <2> QED BY <2>1, <2>2
<1> QED BY <1>1, <1>2, <1>3, <1>4, <1>5, <1>6, <1>7 DEF Next, CallerStep

\* retire spares what is pinned; unpin takes the pin off what it takes out.
LEMMA PinnedStep == IInv /\ [Next]_vars => PinnedStays'
<1> SUFFICES ASSUME IInv, [Next]_vars PROVE PinnedStays'
  OBVIOUS
<1> USE DEF IInv, TypeInv, TypeOK, PinnedStays, Registered
<1>1. ASSUME NEW c \in Callers, Begin(c) \/ CallerStep(c) \/ Detach(c), ~ Pin(c), ~ Install(c) PROVE PinnedStays'
  <2>1. UNCHANGED <<streams, dropped>> /\ pinned' \subseteq pinned
    BY <1>1 DEF CallerStep, Begin, AcquireGate, LockGate, LookupStream, CoolingOff, Synced, SyncFails, RecordFailure,
       ReleaseGate, TornDown, Register, Detach, managerVars, refreshVars, streamVars
  <2> QED BY <2>1
<1>2. ASSUME NEW c \in Callers, Pin(c) PROVE PinnedStays'
  <2>1. UNCHANGED <<streams, dropped>> /\ pinned' = pinned \cup {got[c]} /\ streams[key[c]] = got[c] /\ key[c] \in Keys
    BY <1>2 DEF Pin, StillHeld, CallerOK, managerVars, refreshVars
  <2> QED BY <2>1
<1>3. ASSUME NEW c \in Callers, Install(c) PROVE PinnedStays'
  <2>1. /\ UNCHANGED <<dropped, pinned>> /\ streams[key[c]] = None
        /\ streams' = [streams EXCEPT ![key[c]] = got[c]]
    BY <1>3 DEF Install, refreshVars, streamVars, NoneWhileBuilding, Inside
  <2> QED BY <2>1, NoneAssumption
<1>4. ASSUME NEW s \in Streams, FireIdle(s) \/ Retire(s) \/ CancelUnpinned(s) \/ Shutdown(s) PROVE PinnedStays'
  <2>1. /\ pinned' \subseteq pinned
        /\ \A k \in Keys : streams[k] \in pinned' => streams'[k] = streams[k]
        /\ \A t \in dropped : t \in pinned' => t \in dropped'
    BY <1>4 DEF FireIdle, Retire, Forget, Busy, CancelUnpinned, Shutdown, managerVars, refreshVars
  <2> QED BY <2>1
<1>5. ASSUME NEW k \in Keys, Unpin(k) \/ WaitElapses(k) PROVE PinnedStays'
  <2>1. /\ pinned' \subseteq pinned /\ dropped' = dropped
        /\ \A l \in Keys : streams[l] \in pinned' => streams'[l] = streams[l]
    BY <1>5 DEF Unpin, WaitElapses, refreshVars, streamVars
  <2> QED BY <2>1
<1>6. CASE SetCatalog \/ DropVanished \/ CloseRoot \/ UNCHANGED vars
  <2>1. pinned' = pinned /\ (dropped' = dropped \/ dropped = {})
    BY <1>6 DEF SetCatalog, DropVanished, CloseRoot, RefreshAlone, vars, refreshVars, streamVars
  <2>2. \A l \in Keys : streams'[l] = streams[l] \/ streams[l] \in dropped'
    BY <1>6 DEF SetCatalog, DropVanished, CloseRoot, vars, managerVars
  <2> QED BY <2>1, <2>2
<1> QED BY <1>1, <1>2, <1>3, <1>4, <1>5, <1>6 DEF Next, CallerStep

\* A caller finds a stream under its key; only a build puts one elsewhere.
LEMMA FoundStep == IInv /\ [Next]_vars => FoundUnderKey'
<1> SUFFICES ASSUME IInv, [Next]_vars PROVE FoundUnderKey'
  OBVIOUS
<1> USE NoneAssumption DEF IInv, TypeInv, TypeOK, FoundUnderKey
<1>1. ASSUME NEW c \in Callers, AcquireGate(c) \/ LookupStream(c) PROVE FoundUnderKey'
  <2>1. /\ UNCHANGED <<streams, key>> /\ key[c] \in Keys /\ pc[c] \notin {"release", "join"}
        /\ \A d \in Callers \ {c} : pc'[d] = pc[d] /\ got'[d] = got[d]
        /\ pc'[c] \in {"release", "join"} => got'[c] = streams[key[c]]
    BY <1>1 DEF AcquireGate, LookupStream, CallerOK, managerVars
  <2> QED BY <2>1 DEF Parted
<1>2. ASSUME NEW c \in Callers, Install(c) PROVE FoundUnderKey'
  <2>1. /\ UNCHANGED <<got, key>> /\ key[c] \in Keys /\ pc[c] = "built"
        /\ streams' = [streams EXCEPT ![key[c]] = got[c]]
        /\ \A d \in Callers \ {c} : pc'[d] = pc[d]
    BY <1>2 DEF Install, CallerOK
  <2>2. (\A k \in Keys : streams[k] # got[c]) /\ \A d \in Callers \ {c} : got[d] # got[c]
    BY <2>1 DEF BuildsItsOwn
  <2> QED BY <2>1, <2>2
<1>3. ASSUME NEW c \in Callers, Begin(c) \/ LockGate(c) \/ CoolingOff(c) \/ Synced(c) \/ SyncFails(c)
                                  \/ RecordFailure(c) \/ ReleaseGate(c) \/ TornDown(c) \/ Register(c)
                                  \/ Pin(c) \/ Detach(c)
      PROVE  FoundUnderKey'
  <2>1. /\ streams' = streams
        /\ \A d \in Callers \ {c} : pc'[d] = pc[d] /\ got'[d] = got[d] /\ key'[d] = key[d]
    BY <1>3 DEF Begin, LockGate, CoolingOff, Synced, SyncFails, RecordFailure, ReleaseGate, TornDown, Register,
       Pin, Detach, Return, managerVars
  <2>2. \/ pc'[c] \notin {"release", "join"} \/ got'[c] = None
        \/ pc[c] = "release" /\ key'[c] = key[c] /\ got'[c] = got[c]
    BY <1>3 DEF Begin, LockGate, CoolingOff, Synced, SyncFails, RecordFailure, ReleaseGate, TornDown, Register,
       Pin, Detach, Return, CallerOK
  <2> QED BY <2>1, <2>2
<1>4. CASE Quiet
  BY <1>4, QuietForgets DEF Quiet
<1> QED BY <1>1, <1>2, <1>3, <1>4, CallersOrQuiet DEF CallerStep

\* A build begins on a key that is not cooling off, and nobody else can record
\* a failure for the key until it ends.
LEMMA BuildsWarmStep == IInv /\ [Next]_vars => BuildsWarm'
<1> SUFFICES ASSUME IInv, [Next]_vars PROVE BuildsWarm'
  OBVIOUS
<1> USE DEF IInv, TypeInv, TypeOK, BuildsWarm, Cooling
<1>0. \A d \in Callers : pc[d] \in {"building", "built", "failed"} => key[d] \in Keys
  BY DEF CallerOK
<1>1. ASSUME NEW c \in Callers, CoolingOff(c) PROVE BuildsWarm'
  BY <1>1 DEF CoolingOff, managerVars
<1>2. ASSUME NEW c \in Callers, Synced(c) \/ SyncFails(c) PROVE BuildsWarm'
  BY <1>2 DEF Synced, SyncFails, managerVars
<1>3. ASSUME NEW c \in Callers, RecordFailure(c) PROVE BuildsWarm'
  <2>1. /\ key' = key /\ pc'[c] = "release" /\ pc[c] = "failed"
        /\ \A d \in Callers \ {c} : pc'[d] = pc[d]
        /\ \A k \in Keys \ {key[c]} : failure'[k] = failure[k] /\ (k \in cooling' => k \in cooling)
    BY <1>3 DEF RecordFailure
  <2>2. \A d \in Callers \ {c} : pc[d] \in {"building", "built", "failed"} => key[d] # key[c]
    BY <2>1 DEF OneBuilder, Inside
  <2> QED BY <1>0, <2>1, <2>2
<1>4. ASSUME NEW c \in Callers, Install(c) PROVE BuildsWarm'
  <2>1. /\ key' = key /\ pc'[c] = "release" /\ cooling' \subseteq cooling
        /\ \A d \in Callers \ {c} : pc'[d] = pc[d]
        /\ \A k \in Keys : failure'[k] \in {failure[k], 0}
    BY <1>4 DEF Install
  <2> QED BY <1>0, <2>1
<1>5. ASSUME NEW c \in Callers, Begin(c) \/ AcquireGate(c) \/ LockGate(c) \/ LookupStream(c) \/ ReleaseGate(c)
                                  \/ TornDown(c) \/ Register(c) \/ Pin(c) \/ Detach(c)
      PROVE  BuildsWarm'
  <2>1. /\ pc'[c] \notin {"building", "built", "failed"} /\ UNCHANGED <<failure, cooling>>
        /\ \A d \in Callers \ {c} : pc'[d] = pc[d] /\ key'[d] = key[d]
    BY <1>5 DEF Begin, AcquireGate, LockGate, LookupStream, ReleaseGate, TornDown, Register, Pin, Detach, Return,
       managerVars
  <2> QED BY <2>1
<1>6. ASSUME NEW s \in Streams, FireIdle(s) \/ Retire(s) \/ CancelUnpinned(s) \/ Shutdown(s) PROVE BuildsWarm'
  BY <1>6 DEF FireIdle, Retire, CancelUnpinned, Shutdown, managerVars, callerVars
<1>7. ASSUME NEW k \in Keys, Unpin(k) \/ WaitElapses(k) PROVE BuildsWarm'
  BY <1>0, <1>7 DEF Unpin, WaitElapses, callerVars
<1>8. CASE SetCatalog \/ DropVanished \/ CloseRoot \/ UNCHANGED vars
  BY <1>8 DEF SetCatalog, DropVanished, CloseRoot, vars, managerVars, callerVars
<1> QED BY <1>1, <1>2, <1>3, <1>4, <1>5, <1>6, <1>7, <1>8 DEF Next, CallerStep

\* detach arms the timer with the last reference, and retire, which disarms it,
\* takes an idle stream out of the map.
LEMMA IdleStep == IInv /\ [Next]_vars => IdleIsTimed'
<1> SUFFICES ASSUME IInv, [Next]_vars PROVE IdleIsTimed'
  OBVIOUS
<1> USE NoneAssumption DEF IInv, TypeInv, TypeOK, IdleIsTimed
<1>1. ASSUME NEW c \in Callers, Begin(c) \/ AcquireGate(c) \/ LockGate(c) \/ LookupStream(c) \/ Synced(c)
                                  \/ SyncFails(c) \/ RecordFailure(c) \/ ReleaseGate(c)
      PROVE  IdleIsTimed'
  <2>1. UNCHANGED <<streams, refs, pinned, idle, loose>>
    BY <1>1 DEF Begin, AcquireGate, LockGate, LookupStream, Synced, SyncFails, RecordFailure, ReleaseGate,
       managerVars, streamVars
  <2>2. /\ \A d \in Callers \ {c} : pc'[d] = pc[d] /\ got'[d] = got[d]
        /\ pc[c] \in {"release", "join"} /\ got[c] # None => pc'[c] \in {"release", "join"} /\ got'[c] = got[c]
    BY <1>1 DEF Begin, AcquireGate, LockGate, LookupStream, Synced, SyncFails, RecordFailure, ReleaseGate, Return
  <2> QED BY <2>1, <2>2
<1>2. ASSUME NEW c \in Callers, CoolingOff(c) PROVE IdleIsTimed'
  <2>1. /\ UNCHANGED <<streams, idle, loose>> /\ pc[c] = "cool"
        /\ \A d \in Callers \ {c} : pc'[d] = pc[d] /\ got'[d] = got[d]
    BY <1>2 DEF CoolingOff, managerVars, streamVars
  <2>2. \A k \in Keys : streams[k] # None =>
           refs'[streams[k]] = refs[streams[k]] /\ (streams[k] \in pinned => streams[k] \in pinned')
    BY <1>2 DEF CoolingOff, streamVars, Fresh
  <2> QED BY <2>1, <2>2
<1>3. ASSUME NEW c \in Callers, Install(c) PROVE IdleIsTimed'
  <2>1. /\ UNCHANGED <<refs, pinned, idle, loose, got>> /\ pc[c] = "built" /\ pc'[c] = "release"
        /\ streams' = [streams EXCEPT ![key[c]] = got[c]]
        /\ \A d \in Callers \ {c} : pc'[d] = pc[d]
    BY <1>3 DEF Install, streamVars
  <2> QED BY <2>1
<1>4. ASSUME NEW c \in Callers, TornDown(c) PROVE IdleIsTimed'
  <2>1. /\ UNCHANGED <<streams, refs, pinned, idle, loose>>
        /\ \A d \in Callers \ {c} : pc'[d] = pc[d] /\ got'[d] = got[d]
        /\ pc[c] = "join" /\ streams[key[c]] # got[c] /\ got[c] \in Streams
    BY <1>4 DEF TornDown, StillHeld, Return, CallerOK, managerVars, streamVars
  <2>2. \A k \in Keys : streams[k] # got[c]
    BY <2>1 DEF FoundUnderKey
  <2> QED BY <2>1, <2>2
<1>5. ASSUME NEW c \in Callers, Register(c) PROVE IdleIsTimed'
  <2>1. PICK s \in Streams : s = got[c]
    BY <1>5 DEF Register, CallerOK
  <2>2. refs[s] \in Nat
    BY SubsFinite DEF RefsCountSubscribers
  <2>3. /\ UNCHANGED <<streams, pinned>> /\ refs' = [refs EXCEPT ![s] = @ + 1] /\ got' = got
        /\ \A d \in Callers \ {c} : pc'[d] = pc[d]
        /\ \A t \in Streams \ {s} : idle'[t] = idle[t] /\ loose'[t] = loose[t]
    BY <1>5, <2>1 DEF Register, StopIdle, managerVars
  <2>4. refs'[s] # 0 /\ \A t \in Streams \ {s} : refs'[t] = refs[t]
    BY <2>2, <2>3
  <2> QED BY <2>1, <2>3, <2>4
<1>6. ASSUME NEW c \in Callers, Pin(c) PROVE IdleIsTimed'
  <2>1. /\ UNCHANGED <<streams, refs, idle, loose>> /\ pinned' = pinned \cup {got[c]}
        /\ \A d \in Callers \ {c} : pc'[d] = pc[d] /\ got'[d] = got[d]
    BY <1>6 DEF Pin, Return, managerVars
  <2> QED BY <2>1
<1>7. ASSUME NEW c \in Callers, Detach(c) PROVE IdleIsTimed'
  <2>1. PICK s \in Streams : s = got[c]
    BY <1>7 DEF Detach, CallerOK
  <2>2. /\ UNCHANGED <<streams, pinned, loose>> /\ pc[c] = "attached" /\ refs' = [refs EXCEPT ![s] = Left(c, s)]
        /\ \A d \in Callers \ {c} : pc'[d] = pc[d] /\ got'[d] = got[d]
        /\ idle' = [idle EXCEPT ![s] = IF Left(c, s) = 0 /\ s \notin pinned /\ @ = "none" THEN "armed" ELSE @]
    BY <1>7, <2>1 DEF Detach, Return, ArmIdle, managerVars
  <2>3. refs'[s] = 0 /\ s \notin pinned => idle'[s] # "none"
    BY <2>2
  <2>4. \A t \in Streams \ {s} : refs'[t] = refs[t] /\ idle'[t] = idle[t]
    BY <2>2
  <2> QED BY <2>2, <2>3, <2>4
<1>8. ASSUME NEW s \in Streams, FireIdle(s) \/ CancelUnpinned(s) PROVE IdleIsTimed'
  <2>1. /\ UNCHANGED <<streams, refs, pinned, loose, pc, got>>
        /\ \A t \in Streams : idle[t] # "none" => idle'[t] # "none"
    BY <1>8 DEF FireIdle, CancelUnpinned, managerVars, callerVars
  <2> QED BY <2>1
<1>9. ASSUME NEW s \in Streams, Retire(s) PROVE IdleIsTimed'
  <2>1. /\ UNCHANGED <<refs, pinned, pc, got>>
        /\ \A t \in Streams \ {s} : idle'[t] = idle[t] /\ loose'[t] = loose[t]
        /\ \A k \in Keys : streams'[k] \in {streams[k], None}
    BY <1>9 DEF Retire, Forget, callerVars
  <2>2. refs[s] \in Nat
    BY SubsFinite DEF RefsCountSubscribers
  <2>3. ASSUME NEW k \in Keys, streams'[k] = s PROVE refs[s] # 0 \/ s \in pinned
    BY <1>9, <2>2, <2>3 DEF Retire, Forget, Busy
  <2> QED BY <2>1, <2>3
<1>10. ASSUME NEW s \in Streams, Shutdown(s) PROVE IdleIsTimed'
  <2>1. /\ UNCHANGED <<streams, idle, loose, pc, got>> /\ s \in dropped
        /\ \A t \in Streams \ {s} : refs'[t] = refs[t] /\ (t \in pinned => t \in pinned')
    BY <1>10 DEF Shutdown, managerVars
  <2>2. \A k \in Keys : streams[k] # s
    BY <2>1 DEF Parted
  <2> QED BY <2>1, <2>2
<1>11. ASSUME NEW k \in Keys, Unpin(k) PROVE IdleIsTimed'
  <2>1. /\ UNCHANGED <<refs, idle, loose, pc, got>> /\ pinned' = pinned \ {streams[k]}
        /\ IF refs[streams[k]] = 0 THEN streams' = [streams EXCEPT ![k] = None] ELSE streams' = streams
    BY <1>11 DEF Unpin, callerVars
  <2> QED BY <2>1 DEF Parted
<1>12. CASE (\E k \in Keys : WaitElapses(k)) \/ SetCatalog \/ DropVanished \/ CloseRoot \/ UNCHANGED vars
  <2>1. UNCHANGED <<refs, pinned, idle, loose, pc, got>>
    BY <1>12 DEF WaitElapses, SetCatalog, DropVanished, CloseRoot, vars, streamVars, callerVars
  <2>2. \A k \in Keys : streams'[k] \in {streams[k], None}
    BY <1>12 DEF WaitElapses, SetCatalog, DropVanished, CloseRoot, vars, managerVars
  <2> QED BY <2>1, <2>2
<1> QED BY <1>1, <1>2, <1>3, <1>4, <1>5, <1>6, <1>7, <1>8, <1>9, <1>10, <1>11, <1>12 DEF Next, CallerStep

-----------------------------------------------------------------------------
(* The theorems.                                                           *)

\* A manager without streams satisfies the invariant.
LEMMA IInvInit == Init => IInv
<1> SUFFICES ASSUME Init PROVE IInv
  OBVIOUS
<1>1. TypeInv
  BY TypeInit
<1>2. GateCounted
  <2>1. \A k \in Keys : AtGate(k) = {}
    BY DEF Init, AtGate, Inside
  <2> QED BY <2>1, FS_EmptySet DEF Init, GateCounted
<1>3. OneBuilder /\ NoneWhileBuilding /\ BuildsItsOwn /\ BuildsWarm /\ FoundUnderKey
  BY DEF Init, Inside, OneBuilder, NoneWhileBuilding, BuildsItsOwn, BuildsWarm, FoundUnderKey
<1>4. Parted /\ RefreshAlone /\ OpenAttached /\ SubscribersOpen /\ SubscribersServed
  BY DEF Init, Parted, RefreshAlone, OpenAttached, SubscribersOpen, SubscribersServed
<1>5. RefsCountSubscribers
  BY FS_EmptySet DEF Init, RefsCountSubscribers
<1>6. NoOrphanInformer /\ PinnedStays /\ IdleIsTimed
  BY DEF Init, NoOrphanInformer, PinnedStays, IdleIsTimed
<1> QED BY <1>1, <1>2, <1>3, <1>4, <1>5, <1>6 DEF IInv

\* Every step keeps it.
LEMMA IInvStep == IInv /\ [Next]_vars => IInv'
<1> SUFFICES ASSUME IInv, [Next]_vars PROVE IInv'
  OBVIOUS
<1>1. TypeInv'
  BY TypeStep DEF IInv
<1>2. GateCounted' /\ OneBuilder' /\ NoneWhileBuilding' /\ BuildsItsOwn' /\ Parted'
  BY GateStep, OneBuilderStep, NoneWhileBuildingStep, BuildsItsOwnStep, PartedStep
<1>3. RefreshAlone' /\ BuildsWarm' /\ FoundUnderKey'
  BY RefreshAloneStep, BuildsWarmStep, FoundStep
<1>4. OpenAttached' /\ SubscribersOpen' /\ RefsCountSubscribers' /\ SubscribersServed'
  BY SubscribersOpenStep, RefsStep, ServedStep
<1>5. NoOrphanInformer' /\ PinnedStays' /\ IdleIsTimed'
  BY NoOrphanStep, PinnedStep, IdleStep
<1> QED BY <1>1, <1>2, <1>3, <1>4, <1>5 DEF IInv

\* Subscribe, Lease, Warm, Unpin, detach, retire and RefreshResources, however
\* many callers interleave: an open table is fed by a running informer, and
\* its channels are closed once.
THEOREM SubscriberSafety == Spec => []SubscribersServed
<1>1. IInv => SubscribersServed
  BY DEF IInv
<1> QED BY IInvInit, IInvStep, <1>1, PTL DEF Spec

\* What is warmed stays, what is idle has a timer, whoever is in st.subs is
\* open and counted by st.refs, and a key's stream is built by one caller at a
\* time (attach, detach, Warm, Unpin, retire, streamFor).
THEOREM CountsHold == Spec => []StreamsCounted
<1>1. IInv => StreamsCounted
  BY DEF IInv, StreamsCounted
<1> QED BY IInvInit, IInvStep, <1>1, PTL DEF Spec

\* Nothing is watched for nobody: a running informer is in the map, being
\* built, or about to be cancelled; one that is warmed stays; and one nobody
\* reads has a timer or a caller on its way.
THEOREM NothingForgotten == Spec => [](NoOrphanInformer /\ PinnedStays /\ IdleIsTimed)
<1>1. IInv => NoOrphanInformer /\ PinnedStays /\ IdleIsTimed
  BY DEF IInv
<1> QED BY IInvInit, IInvStep, <1>1, PTL DEF Spec

\* The back-off of streamFor holds for everyone who queued at the gate: a
\* failure that is cooling off is never recorded over.
THEOREM FailureAnswersAll == Spec => NoHerd
<1> DEFINE Step == \A k \in Keys : failure[k] # 0 /\ k \in cooling =>
                       failure'[k] = failure[k] \/ (failure'[k] = 0 /\ streams'[k] # None)
<1>1. IInv /\ [Next]_vars => [Step]_vars
  <2> SUFFICES ASSUME IInv, [Next]_vars PROVE Step
    OBVIOUS
  <2>1. ASSUME NEW c \in Callers, RecordFailure(c) PROVE Step
    <3>1. ~ Cooling(key[c])
      BY <2>1 DEF RecordFailure, BuildsWarm, IInv
    <3> QED BY <2>1, <3>1 DEF RecordFailure, Cooling, IInv, TypeInv, TypeOK
  <2>2. ASSUME NEW c \in Callers, Install(c) PROVE Step
    <3>1. got[c] \in Streams
      BY <2>2 DEF Install, IInv, TypeInv, CallerOK
    <3> QED BY <2>2, <3>1, NoneAssumption DEF Install, IInv, TypeInv, TypeOK
  <2>3. CASE failure' = failure
    BY <2>3
  <2>4. ASSUME NEW c \in Callers, Begin(c) \/ CallerStep(c) \/ Detach(c), ~ RecordFailure(c), ~ Install(c)
        PROVE  failure' = failure
    BY <2>4 DEF CallerStep, Begin, AcquireGate, LockGate, LookupStream, CoolingOff, Synced, SyncFails, ReleaseGate,
       TornDown, Register, Pin, Detach, managerVars
  <2>5. ASSUME NEW s \in Streams, FireIdle(s) \/ Retire(s) \/ CancelUnpinned(s) \/ Shutdown(s) PROVE failure' = failure
    BY <2>5 DEF FireIdle, Retire, CancelUnpinned, Shutdown, managerVars
  <2>6. ASSUME NEW k \in Keys, Unpin(k) \/ WaitElapses(k) PROVE failure' = failure
    BY <2>6 DEF Unpin, WaitElapses
  <2>7. CASE SetCatalog \/ DropVanished \/ CloseRoot \/ UNCHANGED vars
    BY <2>3, <2>7 DEF SetCatalog, DropVanished, CloseRoot, vars, managerVars
  <2> QED BY <2>1, <2>2, <2>3, <2>4, <2>5, <2>6, <2>7 DEF Next, CallerStep
<1> QED BY IInvInit, IInvStep, <1>1, PTL DEF Spec, NoHerd

-----------------------------------------------------------------------------
(* The registry implements SharedInformer.  Each step is mapped to a step of *)
(* the sharer, or to one it does not see.                                    *)

\* The informer each open table is fed by: the mapping of `reads`.
Feeding == [c \in Callers |-> IF c \in open THEN got[c] ELSE None]

\* A step of the sharer, seen through the mapping.
SharedStep == [Shared!Next]_(Shared!vars)

\* What the sharer sees of the registry.
Seen == <<streams, live, Feeding, dropped, root>>

\* Steps the sharer does not see: the gate, the back-off, the timers.
LEMMA UnseenSteps ==
    ASSUME UNCHANGED Seen
    PROVE  SharedStep
BY DEF Seen, Feeding, SharedStep, Shared!vars

\* No table reads from a stream that is neither in the map nor being dropped.
LEMMA UnreadUnlessHeld ==
    ASSUME IInv, NEW s \in Streams, s \notin dropped, \A k \in Keys : streams[k] # s
    PROVE  Shared!Unread(s)
<1>1. \A c \in open : c \in Callers /\ got[c] # s
  <2> SUFFICES ASSUME NEW c \in open PROVE c \in Callers /\ got[c] # s
    OBVIOUS
  <2>1. c \in Callers /\ pc[c] = "attached"
    BY DEF IInv, OpenAttached, TypeInv, TypeOK
  <2>2. key[c] \in Keys
    BY <2>1 DEF IInv, TypeInv, CallerOK
  <2> QED BY <2>1, <2>2 DEF IInv, SubscribersServed
<1> QED BY <1>1, NoneAssumption DEF Shared!Unread

\* Only an attached caller reads; a caller elsewhere may change what it holds.
LEMMA NotYetReading ==
    ASSUME IInv, NEW c \in Callers, pc[c] # "attached",
           open' = open, \A d \in Callers \ {c} : got'[d] = got[d]
    PROVE  Feeding' = Feeding
<1>1. c \notin open
  BY DEF IInv, OpenAttached
<1> QED BY <1>1 DEF Feeding

\* newStream starts an informer for nobody yet.
LEMMA CoolingOffStarts ==
    ASSUME IInv, NEW c \in Callers, CoolingOff(c)
    PROVE  SharedStep
<1> USE DEF IInv, TypeInv, TypeOK
<1>1. Feeding' = Feeding
  BY NotYetReading DEF CoolingOff
<1>2. CASE live' = live
  BY <1>1, <1>2, UnseenSteps DEF Seen, CoolingOff, managerVars, refreshVars
<1>3. CASE live' # live
  <2>1. PICK s \in Streams : Fresh(s) /\ live' = live \cup {s} /\ root
    BY <1>3 DEF CoolingOff, streamVars
  <2>2. Shared!Unread(s)
    BY <2>1, NoneAssumption DEF Fresh, Shared!Unread
  <2>3. UNCHANGED <<streams, dropped, root>>
    BY DEF CoolingOff, managerVars, refreshVars
  <2>4. Shared!Start(s)
    BY <1>1, <2>1, <2>2, <2>3 DEF Fresh, Shared!Start, Shared!Unoffered, Feeding
  <2> QED BY <2>4 DEF SharedStep, Shared!Next
<1> QED BY <1>2, <1>3

\* A failing build stops an informer nobody was given.
LEMMA SyncFailsStops ==
    ASSUME IInv, NEW c \in Callers, SyncFails(c)
    PROVE  SharedStep
<1> DEFINE s == got[c]
<1>1. s \in Streams /\ s \notin dropped /\ \A k \in Keys : streams[k] # s
  BY DEF IInv, TypeInv, CallerOK, SyncFails, BuildsItsOwn
<1>2. Shared!Unread(s)
  BY <1>1, UnreadUnlessHeld
<1>3. Feeding' = Feeding
  BY NotYetReading DEF SyncFails, IInv, TypeInv, TypeOK
<1>4. Shared!Stop(s)
  BY <1>1, <1>2, <1>3 DEF SyncFails, CancelBuild, managerVars, refreshVars, Shared!Stop, Shared!Unoffered, Feeding
<1> QED BY <1>1, <1>4 DEF SharedStep, Shared!Next

\* The tail of streamFor offers what was built, the only stream of its key.
LEMMA InstallOffers ==
    ASSUME IInv, NEW c \in Callers, Install(c)
    PROVE  SharedStep
<1> DEFINE s == got[c]
           k == key[c]
<1>1. s \in Streams /\ k \in Keys /\ s \notin dropped /\ (root => s \in live) /\ \A l \in Keys : streams[l] # s
  BY DEF IInv, TypeInv, CallerOK, Install, BuildsItsOwn
<1>2. streams[k] = None
  BY DEF IInv, Install, NoneWhileBuilding, Inside
<1>3. Shared!Unread(s)
  BY <1>1, UnreadUnlessHeld
<1>4. Feeding' = Feeding
  BY DEF Install, Feeding
<1>5. Shared!Offer(k, s)
  BY <1>1, <1>2, <1>3, <1>4 DEF Install, refreshVars, streamVars, Shared!Offer, Shared!Unoffered, Feeding
<1> QED BY <1>1, <1>5 DEF SharedStep, Shared!Next

\* register joins the stream the map still holds.
LEMMA RegisterJoins ==
    ASSUME IInv, NEW c \in Callers, Register(c)
    PROVE  SharedStep
<1> DEFINE k == key[c]
<1>1. k \in Keys /\ got[c] \in Streams /\ streams[k] = got[c] /\ c \notin open
  BY DEF IInv, TypeInv, CallerOK, OpenAttached, Register, StillHeld
<1>2. Feeding' = [Feeding EXCEPT ![c] = got[c]]
  BY <1>1 DEF Register, Feeding
<1>3. Shared!Join(c, k)
  BY <1>1, <1>2, NoneAssumption DEF Register, managerVars, refreshVars, streamVars, Feeding, Shared!Join
<1>4. \E l \in Keys : Shared!Join(c, l)
  BY <1>1, <1>3 DEF Shared!Join
<1>5. Shared!Next
  BY <1>4 DEF Shared!Next
<1> QED BY <1>5 DEF SharedStep

\* detach leaves, or is not seen when shutdown came before.
LEMMA DetachLeaves ==
    ASSUME IInv, NEW c \in Callers, Detach(c)
    PROVE  SharedStep
<1>1. c \in open => c \in subs[got[c]]
  BY DEF IInv, SubscribersServed
<1>2. Feeding' = [Feeding EXCEPT ![c] = None]
  BY <1>1 DEF Detach, Return, Feeding, IInv, TypeInv, TypeOK
<1>3. Shared!Leave(c)
  BY <1>2 DEF Detach, managerVars, refreshVars, Feeding, Shared!Leave
<1> QED BY <1>3 DEF SharedStep, Shared!Next

\* Nobody reads a stream without subscribers.
LEMMA UnreadWithoutSubscribers ==
    ASSUME IInv, NEW s \in Streams, refs[s] = 0
    PROVE  Shared!Unread(s)
<1>1. subs[s] = {}
  <2>1. IsFiniteSet(subs[s])
    BY FiniteAssumption, FS_Subset DEF IInv, TypeInv, TypeOK
  <2> QED BY <2>1, FS_EmptySet DEF IInv, RefsCountSubscribers
<1>2. \A c \in open : c \in Callers /\ got[c] # s
  BY <1>1 DEF IInv, SubscribersServed, TypeInv, TypeOK
<1> QED BY <1>2, NoneAssumption DEF Shared!Unread

\* retire withdraws a stream nobody reads and stops it at once.
LEMMA RetireWithdraws ==
    ASSUME IInv, NEW s \in Streams, Retire(s)
    PROVE  SharedStep
<1>1. Feeding' = Feeding /\ UNCHANGED <<dropped, root>>
  BY DEF Retire, Feeding, callerVars, refreshVars
<1>2. CASE Busy(s) \/ \A k \in Keys : streams[k] # s
  BY <1>1, <1>2, UnseenSteps DEF Retire, Seen
<1>3. ASSUME ~ Busy(s), NEW k \in Keys, streams[k] = s PROVE SharedStep
  <2>1. refs[s] \in Int /\ refs[s] <= 0 /\ refs[s] = Cardinality(subs[s])
    BY <1>3 DEF Busy, IInv, TypeInv, TypeOK, RefsCountSubscribers
  <2>2. refs[s] = 0
    <3>1. IsFiniteSet(subs[s])
      BY FiniteAssumption, FS_Subset DEF IInv, TypeInv, TypeOK
    <3> QED BY <2>1, <3>1, FS_CardinalityType
  <2>3. Shared!Unread(s)
    BY <2>2, UnreadWithoutSubscribers
  <2>4. \A l \in Keys : streams[l] = s => l = k
    BY <1>3, NoneAssumption DEF IInv, Parted
  <2>5. streams' = [streams EXCEPT ![k] = None] /\ live' = live \ {s}
    BY <1>3, <2>4 DEF Retire, Forget, IInv, TypeInv, TypeOK
  <2>6. Shared!Withdraw(k)
    BY <1>1, <1>3, <2>3, <2>5, NoneAssumption DEF Shared!Withdraw, Feeding
  <2> QED BY <2>6 DEF SharedStep, Shared!Next
<1> QED BY <1>2, <1>3

\* unpin withdraws one; its informer is stopped later, still unread.
LEMMA UnpinWithdraws ==
    ASSUME IInv, NEW k \in Keys, Unpin(k)
    PROVE  SharedStep
<1>1. Feeding' = Feeding /\ UNCHANGED <<dropped, root, live>>
  BY DEF Unpin, Feeding, callerVars, refreshVars
<1>2. CASE refs[streams[k]] # 0
  BY <1>1, <1>2, UnseenSteps DEF Unpin, Seen
<1>3. CASE refs[streams[k]] = 0
  <2>1. streams[k] \in Streams
    BY DEF Unpin, IInv, TypeInv, TypeOK
  <2>2. Shared!Unread(streams[k])
    BY <1>3, <2>1, UnreadWithoutSubscribers
  <2>3. Shared!Withdraw(k)
    BY <1>1, <1>3, <2>2 DEF Unpin, Shared!Withdraw, Feeding
  <2> QED BY <2>3 DEF SharedStep, Shared!Next
<1> QED BY <1>2, <1>3

\* Cancelling a stream that was unpinned is a stop of the abstract informer.
LEMMA CancelUnpinnedStops ==
    ASSUME IInv, NEW s \in Streams, CancelUnpinned(s)
    PROVE  SharedStep
<1>1. s \notin dropped /\ \A k \in Keys : streams[k] # s
  BY NoneAssumption DEF CancelUnpinned, IInv, Parted
<1>2. Shared!Unread(s)
  BY <1>1, UnreadUnlessHeld
<1>3. Feeding' = Feeding
  BY DEF CancelUnpinned, Feeding, callerVars
<1>4. Shared!Stop(s)
  BY <1>1, <1>2, <1>3 DEF CancelUnpinned, managerVars, refreshVars, Shared!Stop, Shared!Unoffered, Feeding
<1> QED BY <1>4 DEF SharedStep, Shared!Next

\* dropVanished withdraws streams with their readers ...
LEMMA DropVanishes ==
    ASSUME IInv, DropVanished
    PROVE  SharedStep
<1> DEFINE gone == {k \in Keys : streams[k] # None /\ k.kind \notin catalog}
<1>1. Feeding' = Feeding /\ UNCHANGED <<live, root>>
  BY DEF DropVanished, Feeding, callerVars, streamVars
<1>2. dropped' = {streams[k] : k \in gone} \ {None}
  BY DEF DropVanished
<1>3. Shared!Vanish(gone)
  BY <1>1, <1>2 DEF DropVanished, Shared!Vanish, Feeding
<1>4. gone \in SUBSET Keys
  OBVIOUS
<1> QED BY <1>3, <1>4 DEF SharedStep, Shared!Next

\* ... whom shutdown tells.
LEMMA ShutdownEnds ==
    ASSUME IInv, NEW s \in Streams, Shutdown(s)
    PROVE  SharedStep
<1>1. \A c \in Callers : c \in open => (c \in subs[s] <=> got[c] = s)
  BY DEF IInv, SubscribersServed, SubscribersOpen
<1>2. Feeding' = [c \in Callers |-> IF Feeding[c] = s THEN None ELSE Feeding[c]]
  BY <1>1, NoneAssumption DEF Shutdown, CloseSubscribers, Feeding
<1>3. Shared!End(s)
  BY <1>2 DEF Shutdown, managerVars, Shared!End, Feeding
<1> QED BY <1>3 DEF SharedStep, Shared!Next

\* The end of the root context closes the abstract informer's cluster.
LEMMA CloseRootCloses ==
    ASSUME CloseRoot
    PROVE  SharedStep
<1>1. Feeding' = Feeding
  BY DEF CloseRoot, Feeding, callerVars
<1>2. Shared!CloseCluster
  BY <1>1 DEF CloseRoot, managerVars, refreshVars, Shared!CloseCluster, Feeding
<1> QED BY <1>2 DEF SharedStep, Shared!Next

\* A caller's way to a stream, as the sharer sees it.
LEMMA CallersShare ==
    ASSUME IInv, NEW c \in Callers, Begin(c) \/ CallerStep(c) \/ Detach(c)
    PROVE  SharedStep
<1>1. CASE CoolingOff(c)
  BY <1>1, CoolingOffStarts
<1>2. CASE SyncFails(c)
  BY <1>2, SyncFailsStops
<1>3. CASE Install(c)
  BY <1>3, InstallOffers
<1>4. CASE Register(c)
  BY <1>4, RegisterJoins
<1>5. CASE Detach(c)
  BY <1>5, DetachLeaves
<1>6. CASE \/ Begin(c) \/ AcquireGate(c) \/ LockGate(c) \/ LookupStream(c) \/ Synced(c)
           \/ RecordFailure(c) \/ ReleaseGate(c) \/ TornDown(c) \/ Pin(c)
  <2> USE DEF Begin, AcquireGate, LockGate, LookupStream, Synced, RecordFailure, ReleaseGate, TornDown, Pin,
          Return, managerVars, refreshVars, streamVars
  <2>1. pc[c] # "attached" /\ open' = open /\ UNCHANGED <<streams, live, dropped, root>>
    BY <1>6
  <2>2. \A d \in Callers \ {c} : got'[d] = got[d]
    BY <1>6 DEF IInv, TypeInv, TypeOK
  <2>3. Feeding' = Feeding
    BY <2>1, <2>2, NotYetReading
  <2> QED BY <2>1, <2>3, UnseenSteps DEF Seen
<1> QED BY <1>1, <1>2, <1>3, <1>4, <1>5, <1>6 DEF CallerStep

\* The manager's gates, back-off, reference counts, timers and retries implement
\* the sharer of informers: a table joins only a stream that is offered, what
\* is offered runs, each key has one, and an informer with readers is stopped
\* only with their channels closed or with the cluster.
THEOREM Implements == Spec => SharesInformers
<1>1. Init => Shared!Init
  BY DEF Init, Shared!Init
<1>2. IInv /\ [Next]_vars => [Shared!Next]_(Shared!vars)
  <2> SUFFICES ASSUME IInv, [Next]_vars PROVE SharedStep
    BY DEF SharedStep
  <2>1. ASSUME NEW c \in Callers, Begin(c) \/ CallerStep(c) \/ Detach(c) PROVE SharedStep
    BY <2>1, CallersShare
  <2>2. ASSUME NEW s \in Streams, FireIdle(s) PROVE SharedStep
    BY <2>2, UnseenSteps DEF FireIdle, Seen, Feeding, managerVars, refreshVars, callerVars
  <2>3. ASSUME NEW s \in Streams, Retire(s) \/ CancelUnpinned(s) \/ Shutdown(s) PROVE SharedStep
    BY <2>3, RetireWithdraws, CancelUnpinnedStops, ShutdownEnds
  <2>4. ASSUME NEW k \in Keys, Unpin(k) PROVE SharedStep
    BY <2>4, UnpinWithdraws
  <2>5. ASSUME NEW k \in Keys, WaitElapses(k) PROVE SharedStep
    BY <2>5, UnseenSteps DEF WaitElapses, Seen, Feeding, refreshVars, streamVars, callerVars
  <2>6. CASE SetCatalog \/ UNCHANGED vars
    BY <2>6, UnseenSteps DEF SetCatalog, vars, Seen, Feeding, managerVars, refreshVars, streamVars, callerVars
  <2>7. CASE DropVanished \/ CloseRoot
    BY <2>7, DropVanishes, CloseRootCloses
  <2> QED BY <2>1, <2>2, <2>3, <2>4, <2>5, <2>6, <2>7 DEF Next
<1> QED BY IInvInit, IInvStep, <1>1, <1>2, PTL DEF Spec, SharesInformers, Shared!Spec

=============================================================================
