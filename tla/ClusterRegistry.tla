-------------------------- MODULE ClusterRegistry --------------------------
(***************************************************************************)
(* The clusters that are open (internal/cluster/cluster.go), and the       *)
(* handlers that open, close and activate them (internal/server/           *)
(* clusters.go).                                                           *)
(*                                                                         *)
(* A call dials without holding c.mu, then installs what it dialled under  *)
(* c.mu, and cancels what it displaced after giving c.mu back.  A          *)
(* connection is named by the call that dialled it.                        *)
(***************************************************************************)
EXTENDS Integers, FiniteSets

CONSTANTS
    Ids,    \* normalized cluster ids, in the order firstOpen sorts them
    Calls,  \* calls of Use, Open, Close and Activate
    None

ASSUME ClusterAssumption ==
    /\ Ids \subseteq Nat \ {0}
    /\ \A S \in SUBSET Ids : S # {} => \E i \in S : \A j \in S : i <= j
    /\ None \notin Calls

VARIABLES
    open,       \* c.open: the connection of each id, or None
    active,     \* c.active: an id, or 0 for ""
    nextSeq,
    installed,
    live,       \* connections whose context is not cancelled
    pc, op, id, \* where each call is, what it does, and on which cluster
    seq,        \* the sequence number a switch claimed
    was,        \* the cluster that was active when a restored tab was opened
    victims     \* what each call has displaced and has yet to cancel

registry == <<open, active, nextSeq, installed>>
vars     == <<registry, live, pc, op, id, seq, was, victims>>

TypeOK ==
    /\ open \in [Ids -> Calls \cup {None}]
    /\ active \in Ids \cup {0}
    /\ nextSeq \in Nat /\ installed \in Nat /\ installed <= nextSeq
    /\ live \subseteq Calls
    /\ pc \in [Calls -> {"idle", "dialling", "dialled", "opened", "cancelling", "done", "failed"}]
    /\ op \in [Calls -> {"use", "open", "restore", "close", "activate"}]
    /\ id \in [Calls -> Ids \cup {0}]
    /\ seq \in [Calls -> Nat]
    /\ was \in [Calls -> Ids \cup {0}]
    /\ victims \in [Calls -> SUBSET Calls]

Init ==
    /\ open = [i \in Ids |-> None] /\ active = 0
    /\ nextSeq = 0 /\ installed = 0
    /\ live = {}
    /\ pc = [c \in Calls |-> "idle"] /\ op = [c \in Calls |-> "use"]
    /\ id = [c \in Calls |-> 0] /\ seq = [c \in Calls |-> 0]
    /\ was = [c \in Calls |-> 0] /\ victims = [c \in Calls |-> {}]

Goto(c, place) == pc' = [pc EXCEPT ![c] = place]
IsOpen(i)      == i \in Ids /\ open[i] # None

-----------------------------------------------------------------------------
(* dial: a context of its own, and a goroutine that builds the connection. *)

\* use claims its place in the order of switches before it dials.
BeginUse(c) ==
    /\ pc[c] = "idle"
    /\ nextSeq' = nextSeq + 1
    /\ seq' = [seq EXCEPT ![c] = nextSeq']
    /\ op' = [op EXCEPT ![c] = "use"]
    /\ live' = live \cup {c}
    /\ Goto(c, "dialling")
    /\ UNCHANGED <<open, active, installed, id, was, victims>>

\* openCluster: a new tab, or one that a restart brings back and that must not
\* take the place of the active one.
BeginOpen(c) ==
    /\ pc[c] = "idle"
    /\ \E kind \in {"open", "restore"} : op' = [op EXCEPT ![c] = kind]
    /\ was' = [was EXCEPT ![c] = active]
    /\ live' = live \cup {c}
    /\ Goto(c, "dialling")
    /\ UNCHANGED <<registry, id, seq, victims>>

\* The connection is built; which cluster it reaches is known only now.
Dialled(c) ==
    /\ pc[c] = "dialling"
    /\ \E i \in Ids : id' = [id EXCEPT ![c] = i]
    /\ Goto(c, "dialled")
    /\ UNCHANGED <<registry, live, op, seq, was, victims>>

\* An error, the timeout, or the request given up: the context is cancelled,
\* and what the goroutine may still build with it.
DialFails(c) ==
    /\ pc[c] = "dialling"
    /\ live' = live \ {c}
    /\ Goto(c, "failed")
    /\ UNCHANGED <<registry, op, id, seq, was, victims>>

-----------------------------------------------------------------------------
(* use.                                                                    *)

\* A slip: the last dial to answer wins.
SupersededNever(c) == FALSE

\* A later switch was installed while this one dialled.
Superseded(c) == seq[c] < installed

DiscardUse(c) ==
    /\ pc[c] = "dialled" /\ op[c] = "use" /\ Superseded(c)
    /\ live' = live \ {c}
    /\ Goto(c, "failed")
    /\ UNCHANGED <<registry, op, id, seq, was, victims>>

\* replaced, and what retire took out.
Displaced(c) == {open[i] : i \in {i \in Ids : open[i] # None}}

\* What installed remembers of a switch.
Rank(c) == seq[c]

InstallUse(c) ==
    /\ pc[c] = "dialled" /\ op[c] = "use" /\ ~ Superseded(c)
    /\ open' = [i \in Ids |-> IF i = id[c] THEN c ELSE None]
    /\ active' = id[c]
    /\ installed' = Rank(c)
    /\ victims' = [victims EXCEPT ![c] = Displaced(c)]
    /\ Goto(c, "cancelling")
    /\ UNCHANGED <<nextSeq, live, op, id, seq, was>>

\* use and Close cancel what they displaced once c.mu is free.
CancelVictims(c) ==
    /\ pc[c] = "cancelling"
    /\ live' = live \ victims[c]
    /\ victims' = [victims EXCEPT ![c] = {}]
    /\ Goto(c, "done")
    /\ UNCHANGED <<registry, op, id, seq, was>>

-----------------------------------------------------------------------------
(* Open, Close and Activate.                                               *)

\* A slip: the new connection stays and the one in use is cancelled.
CancelHeld(c) == live' = live \ {open[id[c]]}

\* A second connection to an open cluster is one too many.
CancelOpened(c) == live' = live \ {c}

InstallOpen(c) ==
    /\ pc[c] = "dialled" /\ op[c] \in {"open", "restore"}
    /\ \/ /\ IsOpen(id[c])
          /\ CancelOpened(c)
          /\ open' = open
       \/ /\ ~ IsOpen(id[c])
          /\ open' = [open EXCEPT ![id[c]] = c]
          /\ live' = live
    /\ active' = id[c]
    /\ Goto(c, "opened")
    /\ UNCHANGED <<nextSeq, installed, op, id, seq, was, victims>>

\* keepActive: a restored tab gives the active place back, if what had it is
\* still open.
KeepActive(c) ==
    /\ pc[c] = "opened"
    /\ active' = IF op[c] = "restore" /\ was[c] # id[c] /\ IsOpen(was[c]) THEN was[c] ELSE active
    /\ Goto(c, "done")
    /\ UNCHANGED <<open, nextSeq, installed, live, op, id, seq, was, victims>>

\* The first id that stays open when i is closed, or 0.
FirstOpen(i) ==
    LET rest == {j \in Ids : open[j] # None /\ j # i} IN
    IF rest = {} THEN 0 ELSE CHOOSE j \in rest : \A k \in rest : j <= k

\* A slip: closing the active cluster leaves it active.
NextActiveSame(i) == active

\* Close moves on to the first of the others only if it closed the active one.
NextActive(i) == IF active = i THEN FirstOpen(i) ELSE active

Close(c, i) ==
    /\ pc[c] = "idle" /\ open[i] # None
    /\ op' = [op EXCEPT ![c] = "close"]
    /\ id' = [id EXCEPT ![c] = i]
    /\ victims' = [victims EXCEPT ![c] = {open[i]}]
    /\ open' = [open EXCEPT ![i] = None]
    /\ active' = NextActive(i)
    /\ Goto(c, "cancelling")
    /\ UNCHANGED <<nextSeq, installed, live, seq, was>>

Activate(c, i) ==
    /\ pc[c] = "idle" /\ open[i] # None
    /\ op' = [op EXCEPT ![c] = "activate"]
    /\ active' = i
    /\ Goto(c, "done")
    /\ UNCHANGED <<open, nextSeq, installed, live, id, seq, was, victims>>

-----------------------------------------------------------------------------
Next ==
    \E c \in Calls :
        \/ BeginUse(c) \/ BeginOpen(c) \/ Dialled(c) \/ DialFails(c)
        \/ DiscardUse(c) \/ InstallUse(c) \/ CancelVictims(c)
        \/ InstallOpen(c) \/ KeepActive(c)
        \/ \E i \in Ids : Close(c, i) \/ Activate(c, i)

Spec == Init /\ [][Next]_vars

-----------------------------------------------------------------------------
(* What the registry promises.                                             *)

\* The active cluster is an open one, and there is one while any is open.
ActiveIsOpen ==
    /\ active # 0 => IsOpen(active)
    /\ (\E i \in Ids : open[i] # None) => active # 0

\* The connection of an open cluster is alive, whichever calls raced to open,
\* replace and close it.
HeldIsLive == \A i \in Ids : open[i] # None => open[i] \in live

\* A connection that is alive is being dialled, is registered, or is about to
\* be cancelled.
NoConnectionLeaks ==
    \A k \in live :
        \/ pc[k] \in {"dialling", "dialled"}
        \/ \E i \in Ids : open[i] = k
        \/ \E c \in Calls : k \in victims[c]

\* The user's last switch wins, in whatever order the dials answer: of the
\* switches that were installed, the registered one is the latest.
LatestSwitchWins ==
    \A i \in Ids, d \in Calls :
        (/\ open[i] # None /\ op[open[i]] = "use"
         /\ op[d] = "use" /\ pc[d] \in {"cancelling", "done"})
            => seq[d] <= seq[open[i]]

\* The registry of cluster.go as a whole: well formed, an open cluster active
\* while there is one, and no connection left running that nobody will cancel.
ClustersSound == TypeOK /\ ActiveIsOpen /\ NoConnectionLeaks

=============================================================================
