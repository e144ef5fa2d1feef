----------------------- MODULE ClusterRegistryProofs -----------------------
(***************************************************************************)
(* The safety of ClusterRegistry for any clusters and any calls.           *)
(***************************************************************************)
EXTENDS ClusterRegistry, TLAPS

Settled == {"opened", "cancelling", "done"}

\* A registered connection was dialled to that very cluster by a call that is
\* past its install.
HeldWasInstalled ==
    \A i \in Ids : open[i] # None =>
        /\ open[i] \in Calls
        /\ pc[open[i]] \in Settled
        /\ op[open[i]] \in {"use", "open", "restore"}
        /\ id[open[i]] = i

\* What a call is about to cancel is registered no more.
VictimsAreOut ==
    \A c \in Calls :
        /\ pc[c] # "cancelling" => victims[c] = {}
        /\ \A k \in victims[c] : pc[k] \in Settled /\ \A i \in Ids : open[i] # k

\* installed is the highest sequence number installed.
SwitchOrder ==
    /\ \A d \in Calls : op[d] = "use" /\ pc[d] \in {"cancelling", "done"} => seq[d] <= installed
    /\ \A i \in Ids : open[i] # None /\ op[open[i]] = "use" => seq[open[i]] = installed

\* A call's number was claimed.
SeqClaimed == \A c \in Calls : seq[c] <= nextSeq

\* A call that dials has its context; one that dialled knows its cluster.
\* A switch never passes through "opened".
DialIsLive ==
    \A c \in Calls :
        /\ pc[c] \in {"dialling", "dialled"} => c \in live
        /\ pc[c] = "dialled" \/ pc[c] = "opened" => id[c] \in Ids
        /\ pc[c] = "opened" => op[c] # "use"

IInv ==
    /\ TypeOK /\ SeqClaimed /\ HeldWasInstalled /\ VictimsAreOut /\ SwitchOrder
    /\ DialIsLive /\ ActiveIsOpen /\ HeldIsLive /\ NoConnectionLeaks


\* The initial state satisfies the inductive invariant.
LEMMA IInvInit == Init => IInv
<1> SUFFICES ASSUME Init PROVE IInv
  OBVIOUS
<1>1. TypeOK /\ SeqClaimed
  BY DEF Init, TypeOK, SeqClaimed
<1>2. HeldWasInstalled /\ VictimsAreOut /\ SwitchOrder /\ DialIsLive
  BY DEF Init, HeldWasInstalled, VictimsAreOut, SwitchOrder, DialIsLive, Settled
<1>3. ActiveIsOpen /\ HeldIsLive /\ NoConnectionLeaks
  BY DEF Init, ActiveIsOpen, HeldIsLive, NoConnectionLeaks, IsOpen
<1> QED BY <1>1, <1>2, <1>3 DEF IInv

\* NextActive answers an open cluster other than the closed one, if any.
LEMMA NextActiveType ==
    ASSUME TypeOK, ActiveIsOpen, NEW i \in Ids, open[i] # None
    PROVE  /\ NextActive(i) \in Ids \cup {0}
           /\ NextActive(i) # 0 => NextActive(i) # i /\ open[NextActive(i)] # None
           /\ (\E j \in Ids : j # i /\ open[j] # None) => NextActive(i) # 0
<1> DEFINE rest == {j \in Ids : open[j] # None /\ j # i}
<1>1. CASE active # i
  BY <1>1 DEF NextActive, TypeOK, ActiveIsOpen, IsOpen
<1>2. CASE active = i /\ rest = {}
  <2>1. NextActive(i) = 0
    BY <1>2 DEF NextActive, FirstOpen
  <2> QED BY <1>2, <2>1
<1>3. CASE active = i /\ rest # {}
  <2>1. \E j \in rest : \A k \in rest : j <= k
    BY <1>3, ClusterAssumption
  <2>2. NextActive(i) = CHOOSE j \in rest : \A k \in rest : j <= k
    BY <1>3 DEF NextActive, FirstOpen
  <2>3. NextActive(i) \in rest
    BY <2>1, <2>2
  <2> QED BY <2>3, ClusterAssumption
<1> QED BY <1>1, <1>2, <1>3

\* Every step keeps it.
LEMMA IInvStep == IInv /\ [Next]_vars => IInv'
<1> SUFFICES ASSUME IInv, [Next]_vars PROVE IInv'
  OBVIOUS
<1> USE ClusterAssumption DEF IInv
<1>1. ASSUME NEW c \in Calls, BeginUse(c) PROVE IInv'
  <2>1. TypeOK'
    BY <1>1 DEF TypeOK, BeginUse, Goto
  <2>2. SeqClaimed'
    BY <1>1 DEF TypeOK, SeqClaimed, BeginUse
  <2>3. HeldWasInstalled'
    BY <1>1 DEF TypeOK, HeldWasInstalled, DialIsLive, BeginUse, Goto, Settled
  <2>4. VictimsAreOut'
    BY <1>1 DEF TypeOK, VictimsAreOut, HeldWasInstalled, BeginUse, Goto, Settled
  <2>5. SwitchOrder'
    BY <1>1 DEF TypeOK, SwitchOrder, HeldWasInstalled, BeginUse, Goto, Settled
  <2>6. DialIsLive'
    BY <1>1 DEF TypeOK, DialIsLive, VictimsAreOut, BeginUse, Goto
  <2>7. ActiveIsOpen'
    BY <1>1 DEF TypeOK, ActiveIsOpen, IsOpen, DialIsLive, BeginUse
  <2>8. HeldIsLive'
    BY <1>1 DEF TypeOK, HeldIsLive, HeldWasInstalled, VictimsAreOut, DialIsLive, BeginUse, Goto, Settled
  <2>9. NoConnectionLeaks'
    BY <1>1 DEF TypeOK, NoConnectionLeaks, VictimsAreOut, BeginUse, Goto
  <2> QED BY <2>1, <2>2, <2>3, <2>4, <2>5, <2>6, <2>7, <2>8, <2>9 DEF IInv
<1>2. ASSUME NEW c \in Calls, BeginOpen(c) PROVE IInv'
  <2>1. TypeOK'
    BY <1>2 DEF TypeOK, BeginOpen, Goto, registry
  <2>2. SeqClaimed'
    BY <1>2 DEF TypeOK, SeqClaimed, BeginOpen, registry
  <2>3. HeldWasInstalled'
    BY <1>2 DEF TypeOK, HeldWasInstalled, DialIsLive, BeginOpen, Goto, registry, Settled
  <2>4. VictimsAreOut'
    BY <1>2 DEF TypeOK, VictimsAreOut, HeldWasInstalled, BeginOpen, Goto, registry, Settled
  <2>5. SwitchOrder'
    BY <1>2 DEF TypeOK, SwitchOrder, HeldWasInstalled, BeginOpen, Goto, registry
  <2>6. DialIsLive'
    BY <1>2 DEF TypeOK, DialIsLive, VictimsAreOut, BeginOpen, Goto, registry
  <2>7. ActiveIsOpen'
    BY <1>2 DEF TypeOK, ActiveIsOpen, IsOpen, DialIsLive, BeginOpen, registry
  <2>8. HeldIsLive'
    BY <1>2 DEF TypeOK, HeldIsLive, HeldWasInstalled, VictimsAreOut, DialIsLive, BeginOpen, Goto, registry, Settled
  <2>9. NoConnectionLeaks'
    BY <1>2 DEF TypeOK, NoConnectionLeaks, VictimsAreOut, BeginOpen, Goto, registry
  <2> QED BY <2>1, <2>2, <2>3, <2>4, <2>5, <2>6, <2>7, <2>8, <2>9 DEF IInv
<1>3. ASSUME NEW c \in Calls, Dialled(c) PROVE IInv'
  <2>1. TypeOK'
    BY <1>3 DEF TypeOK, Dialled, Goto, registry
  <2>2. SeqClaimed'
    BY <1>3 DEF TypeOK, SeqClaimed, Dialled, registry
  <2>3. HeldWasInstalled'
    BY <1>3, ZenonT(30) DEF TypeOK, HeldWasInstalled, DialIsLive, Dialled, Goto, registry, Settled
  <2>4. VictimsAreOut'
    BY <1>3 DEF TypeOK, VictimsAreOut, HeldWasInstalled, Dialled, Goto, registry, Settled
  <2>5. SwitchOrder'
    BY <1>3 DEF TypeOK, SwitchOrder, HeldWasInstalled, Dialled, Goto, registry
  <2>6. DialIsLive'
    BY <1>3 DEF TypeOK, DialIsLive, VictimsAreOut, Dialled, Goto, registry
  <2>7. ActiveIsOpen'
    BY <1>3 DEF TypeOK, ActiveIsOpen, IsOpen, DialIsLive, Dialled, registry
  <2>8. HeldIsLive'
    BY <1>3 DEF TypeOK, HeldIsLive, HeldWasInstalled, VictimsAreOut, DialIsLive, Dialled, Goto, registry, Settled
  <2>9. NoConnectionLeaks'
    BY <1>3 DEF TypeOK, NoConnectionLeaks, VictimsAreOut, Dialled, Goto, registry
  <2> QED BY <2>1, <2>2, <2>3, <2>4, <2>5, <2>6, <2>7, <2>8, <2>9 DEF IInv
<1>4. ASSUME NEW c \in Calls, DialFails(c) PROVE IInv'
  <2>1. TypeOK'
    BY <1>4 DEF TypeOK, DialFails, Goto, registry
  <2>2. SeqClaimed'
    BY <1>4 DEF TypeOK, SeqClaimed, DialFails, registry
  <2>3. HeldWasInstalled'
    BY <1>4 DEF TypeOK, HeldWasInstalled, DialIsLive, DialFails, Goto, registry, Settled
  <2>4. VictimsAreOut'
    BY <1>4 DEF TypeOK, VictimsAreOut, HeldWasInstalled, DialFails, Goto, registry, Settled
  <2>5. SwitchOrder'
    BY <1>4 DEF TypeOK, SwitchOrder, HeldWasInstalled, DialFails, Goto, registry
  <2>6. DialIsLive'
    BY <1>4 DEF TypeOK, DialIsLive, VictimsAreOut, DialFails, Goto, registry
  <2>7. ActiveIsOpen'
    BY <1>4 DEF TypeOK, ActiveIsOpen, IsOpen, DialIsLive, DialFails, registry
  <2>8. HeldIsLive'
    BY <1>4 DEF TypeOK, HeldIsLive, HeldWasInstalled, VictimsAreOut, DialIsLive, DialFails, Goto, registry, Settled
  <2>9. NoConnectionLeaks'
    BY <1>4 DEF TypeOK, NoConnectionLeaks, VictimsAreOut, DialFails, Goto, registry
  <2> QED BY <2>1, <2>2, <2>3, <2>4, <2>5, <2>6, <2>7, <2>8, <2>9 DEF IInv
<1>5. ASSUME NEW c \in Calls, DiscardUse(c) PROVE IInv'
  <2>1. TypeOK'
    BY <1>5 DEF TypeOK, DiscardUse, Goto, registry, Superseded
  <2>2. SeqClaimed'
    BY <1>5 DEF TypeOK, SeqClaimed, DiscardUse, registry
  <2>3. HeldWasInstalled'
    BY <1>5 DEF TypeOK, HeldWasInstalled, DialIsLive, DiscardUse, Goto, registry, Settled
  <2>4. VictimsAreOut'
    BY <1>5 DEF TypeOK, VictimsAreOut, HeldWasInstalled, DiscardUse, Goto, registry, Settled
  <2>5. SwitchOrder'
    BY <1>5 DEF TypeOK, SwitchOrder, HeldWasInstalled, DiscardUse, Goto, registry, Superseded
  <2>6. DialIsLive'
    BY <1>5 DEF TypeOK, DialIsLive, VictimsAreOut, DiscardUse, Goto, registry
  <2>7. ActiveIsOpen'
    BY <1>5 DEF TypeOK, ActiveIsOpen, IsOpen, DialIsLive, DiscardUse, registry
  <2>8. HeldIsLive'
    BY <1>5 DEF TypeOK, HeldIsLive, HeldWasInstalled, VictimsAreOut, DialIsLive, DiscardUse, Goto, registry, Settled
  <2>9. NoConnectionLeaks'
    BY <1>5 DEF TypeOK, NoConnectionLeaks, VictimsAreOut, DiscardUse, Goto, registry, Superseded
  <2> QED BY <2>1, <2>2, <2>3, <2>4, <2>5, <2>6, <2>7, <2>8, <2>9 DEF IInv
<1>6. ASSUME NEW c \in Calls, InstallUse(c) PROVE IInv'
  <2>1. TypeOK'
    <3>1. Displaced(c) \subseteq Calls
      BY DEF TypeOK, Displaced
    <3>2. id[c] \in Ids /\ seq[c] \in Nat /\ seq[c] <= nextSeq
      BY <1>6 DEF TypeOK, InstallUse, DialIsLive, SeqClaimed
    <3> QED BY <1>6, <3>1, <3>2 DEF TypeOK, InstallUse, Goto, Rank
  <2>2. SeqClaimed'
    BY <1>6 DEF TypeOK, SeqClaimed, InstallUse
  <2>3. HeldWasInstalled'
    BY <1>6 DEF TypeOK, HeldWasInstalled, DialIsLive, InstallUse, Goto, Settled, Displaced
  <2>4. VictimsAreOut'
    BY <1>6 DEF TypeOK, VictimsAreOut, HeldWasInstalled, InstallUse, Goto, Settled, Displaced
  <2>5. SwitchOrder'
    BY <1>6 DEF TypeOK, SwitchOrder, HeldWasInstalled, InstallUse, Goto, Superseded, Rank
  <2>6. DialIsLive'
    BY <1>6 DEF TypeOK, DialIsLive, VictimsAreOut, InstallUse, Goto, Displaced
  <2>7. ActiveIsOpen'
    BY <1>6 DEF TypeOK, ActiveIsOpen, IsOpen, DialIsLive, InstallUse
  <2>8. HeldIsLive'
    BY <1>6 DEF TypeOK, HeldIsLive, HeldWasInstalled, VictimsAreOut, DialIsLive, InstallUse, Goto, Settled
  <2>9. NoConnectionLeaks'
    <3> SUFFICES ASSUME NEW k \in live'
                 PROVE  \/ pc'[k] \in {"dialling", "dialled"}
                        \/ \E j \in Ids : open'[j] = k
                        \/ \E d \in Calls : k \in victims'[d]
      BY DEF NoConnectionLeaks
    <3>1. k \in live /\ k \in Calls /\ id[c] \in Ids /\ open'[id[c]] = c
      BY <1>6 DEF InstallUse, TypeOK, DialIsLive
    <3>2. victims'[c] = Displaced(c) /\ victims[c] = {}
      BY <1>6 DEF InstallUse, TypeOK, VictimsAreOut
    <3>3. CASE k = c
      BY <3>1, <3>3
    <3>4. CASE k # c /\ pc[k] \in {"dialling", "dialled"}
      BY <1>6, <3>1, <3>4 DEF InstallUse, Goto, TypeOK
    <3>5. CASE \E j \in Ids : open[j] = k
      <4>1. k \in Displaced(c)
        BY <3>1, <3>5 DEF Displaced
      <4> QED BY <3>2, <4>1
    <3>6. CASE \E d \in Calls : k \in victims[d]
      <4> PICK d \in Calls : k \in victims[d]
        BY <3>6
      <4>1. d # c
        BY <3>2
      <4> QED BY <1>6, <4>1 DEF InstallUse, TypeOK
    <3> QED BY <3>1, <3>3, <3>4, <3>5, <3>6 DEF NoConnectionLeaks
  <2> QED BY <2>1, <2>2, <2>3, <2>4, <2>5, <2>6, <2>7, <2>8, <2>9 DEF IInv
<1>7. ASSUME NEW c \in Calls, CancelVictims(c) PROVE IInv'
  <2>1. TypeOK'
    BY <1>7 DEF TypeOK, CancelVictims, Goto, registry
  <2>2. SeqClaimed'
    BY <1>7 DEF TypeOK, SeqClaimed, CancelVictims, registry
  <2>3. HeldWasInstalled'
    BY <1>7 DEF TypeOK, HeldWasInstalled, DialIsLive, CancelVictims, Goto, registry, Settled
  <2>4. VictimsAreOut'
    BY <1>7 DEF TypeOK, VictimsAreOut, HeldWasInstalled, CancelVictims, Goto, registry, Settled
  <2>5. SwitchOrder'
    BY <1>7 DEF TypeOK, SwitchOrder, HeldWasInstalled, CancelVictims, Goto, registry
  <2>6. DialIsLive'
    BY <1>7 DEF TypeOK, DialIsLive, VictimsAreOut, CancelVictims, Goto, registry, Settled
  <2>7. ActiveIsOpen'
    BY <1>7 DEF TypeOK, ActiveIsOpen, IsOpen, DialIsLive, CancelVictims, registry
  <2>8. HeldIsLive'
    BY <1>7
       DEF TypeOK, HeldIsLive, HeldWasInstalled, VictimsAreOut, DialIsLive, CancelVictims, Goto, registry, Settled
  <2>9. NoConnectionLeaks'
    BY <1>7 DEF TypeOK, NoConnectionLeaks, VictimsAreOut, CancelVictims, Goto, registry
  <2> QED BY <2>1, <2>2, <2>3, <2>4, <2>5, <2>6, <2>7, <2>8, <2>9 DEF IInv
<1>8. ASSUME NEW c \in Calls, InstallOpen(c) PROVE IInv'
  <2>1. TypeOK'
    BY <1>8 DEF TypeOK, InstallOpen, Goto, IsOpen, CancelOpened
  <2>2. SeqClaimed'
    BY <1>8 DEF TypeOK, SeqClaimed, InstallOpen
  <2>3. HeldWasInstalled'
    BY <1>8 DEF TypeOK, HeldWasInstalled, DialIsLive, InstallOpen, Goto, Settled, IsOpen, CancelOpened
  <2>4. VictimsAreOut'
    BY <1>8 DEF TypeOK, VictimsAreOut, HeldWasInstalled, InstallOpen, Goto, Settled, IsOpen
  <2>5. SwitchOrder'
    BY <1>8 DEF TypeOK, SwitchOrder, HeldWasInstalled, InstallOpen, Goto
  <2>6. DialIsLive'
    BY <1>8 DEF TypeOK, DialIsLive, VictimsAreOut, InstallOpen, Goto, IsOpen, CancelOpened
  <2>7. ActiveIsOpen'
    BY <1>8 DEF TypeOK, ActiveIsOpen, IsOpen, DialIsLive, InstallOpen
  <2>8. HeldIsLive'
    BY <1>8
       DEF TypeOK, HeldIsLive, HeldWasInstalled, VictimsAreOut, DialIsLive, InstallOpen, Goto, Settled, IsOpen,
           CancelOpened
  <2>9. NoConnectionLeaks'
    BY <1>8 DEF TypeOK, NoConnectionLeaks, DialIsLive, InstallOpen, Goto, IsOpen, CancelOpened
  <2> QED BY <2>1, <2>2, <2>3, <2>4, <2>5, <2>6, <2>7, <2>8, <2>9 DEF IInv
<1>9. ASSUME NEW c \in Calls, KeepActive(c) PROVE IInv'
  <2>1. TypeOK'
    BY <1>9 DEF TypeOK, KeepActive, Goto, IsOpen
  <2>2. SeqClaimed'
    BY <1>9 DEF TypeOK, SeqClaimed, KeepActive
  <2>3. HeldWasInstalled'
    BY <1>9 DEF TypeOK, HeldWasInstalled, DialIsLive, KeepActive, Goto, Settled, IsOpen
  <2>4. VictimsAreOut'
    BY <1>9 DEF TypeOK, VictimsAreOut, HeldWasInstalled, KeepActive, Goto, Settled, IsOpen
  <2>5. SwitchOrder'
    BY <1>9 DEF TypeOK, SwitchOrder, DialIsLive, KeepActive, Goto
  <2>6. DialIsLive'
    BY <1>9 DEF TypeOK, DialIsLive, VictimsAreOut, KeepActive, Goto, IsOpen
  <2>7. ActiveIsOpen'
    BY <1>9 DEF TypeOK, ActiveIsOpen, IsOpen, DialIsLive, KeepActive
  <2>8. HeldIsLive'
    BY <1>9 DEF TypeOK, HeldIsLive, HeldWasInstalled, VictimsAreOut, DialIsLive, KeepActive, Goto, Settled, IsOpen
  <2>9. NoConnectionLeaks'
    BY <1>9 DEF TypeOK, NoConnectionLeaks, VictimsAreOut, KeepActive, Goto, IsOpen
  <2> QED BY <2>1, <2>2, <2>3, <2>4, <2>5, <2>6, <2>7, <2>8, <2>9 DEF IInv
<1>10. ASSUME NEW c \in Calls, NEW i \in Ids, Close(c, i) PROVE IInv'
  <2>1. TypeOK'
    <3>1. NextActive(i) \in Ids \cup {0} /\ open[i] \in Calls
      BY <1>10, NextActiveType DEF Close, TypeOK
    <3> QED BY <1>10, <3>1 DEF TypeOK, Close, Goto
  <2>2. SeqClaimed'
    BY <1>10 DEF TypeOK, SeqClaimed, Close
  <2>3. HeldWasInstalled'
    BY <1>10 DEF TypeOK, HeldWasInstalled, DialIsLive, Close, Goto, Settled
  <2>4. VictimsAreOut'
    BY <1>10 DEF TypeOK, VictimsAreOut, HeldWasInstalled, Close, Goto, Settled
  <2>5. SwitchOrder'
    BY <1>10 DEF TypeOK, SwitchOrder, HeldWasInstalled, Close, Goto
  <2>6. DialIsLive'
    BY <1>10 DEF TypeOK, DialIsLive, VictimsAreOut, Close, Goto
  <2>7. ActiveIsOpen'
    <3>1. /\ NextActive(i) \in Ids \cup {0}
          /\ NextActive(i) # 0 => NextActive(i) # i /\ open[NextActive(i)] # None
          /\ (\E j \in Ids : j # i /\ open[j] # None) => NextActive(i) # 0
      BY <1>10, NextActiveType DEF Close
    <3>2. active' = NextActive(i) /\ open' = [open EXCEPT ![i] = None]
      BY <1>10 DEF Close
    <3> QED BY <3>1, <3>2 DEF ActiveIsOpen, IsOpen, TypeOK
  <2>8. HeldIsLive'
    BY <1>10 DEF TypeOK, HeldIsLive, HeldWasInstalled, VictimsAreOut, DialIsLive, Close, Goto, Settled
  <2>9. NoConnectionLeaks'
    BY <1>10 DEF TypeOK, NoConnectionLeaks, VictimsAreOut, Close, Goto
  <2> QED BY <2>1, <2>2, <2>3, <2>4, <2>5, <2>6, <2>7, <2>8, <2>9 DEF IInv
<1>11. ASSUME NEW c \in Calls, NEW i \in Ids, Activate(c, i) PROVE IInv'
  <2>1. TypeOK'
    BY <1>11 DEF TypeOK, Activate, Goto
  <2>2. SeqClaimed'
    BY <1>11 DEF TypeOK, SeqClaimed, Activate
  <2>3. HeldWasInstalled'
    BY <1>11 DEF TypeOK, HeldWasInstalled, DialIsLive, Activate, Goto, Settled
  <2>4. VictimsAreOut'
    BY <1>11 DEF TypeOK, VictimsAreOut, HeldWasInstalled, Activate, Goto, Settled
  <2>5. SwitchOrder'
    BY <1>11 DEF TypeOK, SwitchOrder, HeldWasInstalled, Activate, Goto
  <2>6. DialIsLive'
    BY <1>11 DEF TypeOK, DialIsLive, VictimsAreOut, Activate, Goto
  <2>7. ActiveIsOpen'
    BY <1>11 DEF TypeOK, ActiveIsOpen, IsOpen, DialIsLive, Activate
  <2>8. HeldIsLive'
    BY <1>11 DEF TypeOK, HeldIsLive, HeldWasInstalled, VictimsAreOut, DialIsLive, Activate, Goto, Settled
  <2>9. NoConnectionLeaks'
    BY <1>11 DEF TypeOK, NoConnectionLeaks, VictimsAreOut, Activate, Goto
  <2> QED BY <2>1, <2>2, <2>3, <2>4, <2>5, <2>6, <2>7, <2>8, <2>9 DEF IInv
<1>12. CASE UNCHANGED vars
  BY <1>12 DEF vars, registry, TypeOK, SeqClaimed, HeldWasInstalled, VictimsAreOut,
        SwitchOrder, DialIsLive, ActiveIsOpen, HeldIsLive, NoConnectionLeaks, IsOpen
<1> QED BY <1>1, <1>2, <1>3, <1>4, <1>5, <1>6, <1>7, <1>8, <1>9, <1>10, <1>11, <1>12 DEF Next

\* Of cluster.go's use, Open, Close and Activate: whatever the calls and
\* however their dials interleave, an open cluster's connection is alive.
THEOREM ClusterSafety == Spec => []HeldIsLive
<1>1. IInv => HeldIsLive
  BY DEF IInv
<1> QED BY IInvInit, IInvStep, <1>1, PTL DEF Spec

\* The active cluster is open, and a connection that lost its place is
\* cancelled (use, Close).
THEOREM NothingLeaks == Spec => []ClustersSound
<1>1. IInv => ClustersSound
  BY DEF IInv, ClustersSound
<1> QED BY IInvInit, IInvStep, <1>1, PTL DEF Spec

\* An older switch that answers late never displaces a newer one (the sequence
\* number of use).
THEOREM SwitchesInOrder == Spec => []LatestSwitchWins
<1>1. IInv => LatestSwitchWins
  BY DEF IInv, SwitchOrder, LatestSwitchWins
<1> QED BY IInvInit, IInvStep, <1>1, PTL DEF Spec

=============================================================================
