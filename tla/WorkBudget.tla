----------------------------- MODULE WorkBudget -----------------------------
(***************************************************************************)
(* The budget of expensive work (internal/server/budget.go): units claimed *)
(* or waited for, limited over all and for each identity.  One budget      *)
(* bounds the snapshots the feed builds, one the log streams, and others   *)
(* rule compiles, baseline imports, Helm processes and chart fetches.      *)
(*                                                                         *)
(* A waiter reads the channel `freed` when its attempt fails; release      *)
(* closes that channel and makes another.  parked is the set of waiters    *)
(* whose channel is still the current one.                                 *)
(***************************************************************************)
EXTENDS Integers, FiniteSets

CONSTANTS
    Workers,      \* calls that do budgeted work
    Identities,
    identity,     \* whose call each is
    Global,       \* the limit over all
    PerIdentity,  \* the limit for one identity
    Units         \* the units claim is called with

ASSUME BudgetAssumption ==
    /\ IsFiniteSet(Workers) /\ identity \in [Workers -> Identities]
    /\ Global \in Nat \ {0} /\ PerIdentity \in Nat \ {0}
    /\ Units \subseteq Nat \ {0}

VARIABLES
    used,        \* units in use
    byIdentity,  \* units in use by each identity
    held,        \* units each call holds
    pc,          \* where each call is
    parked       \* calls waiting on the current freed channel

vars == <<used, byIdentity, held, pc, parked>>

\* The state is well formed: a call is parked only while it waits, and holds
\* units only until it releases them.
TypeOK ==
    /\ used \in Int /\ byIdentity \in [Identities -> Int]
    /\ held \in [Workers -> Nat]
    /\ pc \in [Workers -> {"idle", "trying", "waiting", "holding"}]
    /\ parked \subseteq {w \in Workers : pc[w] = "waiting"}
    /\ \A w \in Workers : held[w] > 0 => pc[w] = "holding"

Init ==
    /\ used = 0 /\ byIdentity = [i \in Identities |-> 0]
    /\ held = [w \in Workers |-> 0]
    /\ pc = [w \in Workers |-> "idle"]
    /\ parked = {}

\* attempt: neither limit would be passed.
Fits(w, units) ==
    /\ used + units <= Global
    /\ byIdentity[identity[w]] + units <= PerIdentity

\* attempt, when it fits.
Hold(w, units) ==
    /\ Fits(w, units)
    /\ used' = used + units
    /\ byIdentity' = [byIdentity EXCEPT ![identity[w]] = @ + units]
    /\ held' = [held EXCEPT ![w] = units]
    /\ pc' = [pc EXCEPT ![w] = "holding"]
    /\ parked' = parked

\* claim: once, or refused.
Claim(w, units) == pc[w] = "idle" /\ Hold(w, units)

\* await is called.
Begin(w) ==
    /\ pc[w] = "idle"
    /\ pc' = [pc EXCEPT ![w] = "trying"]
    /\ UNCHANGED <<used, byIdentity, held, parked>>

\* It reads the channel under the lock it failed under.
Park(w) == parked' = parked \cup {w} /\ UNCHANGED <<used, byIdentity, held>>

\* One round of await: the unit is taken, or the call waits.
Attempt(w) ==
    /\ pc[w] = "trying"
    /\ \/ Hold(w, 1)
       \/ ~ Fits(w, 1) /\ Park(w) /\ pc' = [pc EXCEPT ![w] = "waiting"]

\* The channel it waits on was closed: another round.
Wake(w) ==
    /\ pc[w] = "waiting" /\ w \notin parked
    /\ pc' = [pc EXCEPT ![w] = "trying"]
    /\ UNCHANGED <<used, byIdentity, held, parked>>

\* Its context is done.
GiveUp(w) ==
    /\ pc[w] = "waiting"
    /\ pc' = [pc EXCEPT ![w] = "idle"]
    /\ parked' = parked \ {w}
    /\ UNCHANGED <<used, byIdentity, held>>

\* A slip: one waiter is woken, as by a send on the channel.
WakeOne == \/ parked = {} /\ parked' = {}
           \/ \E w \in parked : parked' = parked \ {w}

\* close(b.freed).
WakeAll == parked' = {}

\* The identity's share without the units w held.
Share(w) == [byIdentity EXCEPT ![identity[w]] = @ - held[w]]

\* release: at most once, by its sync.Once.
Release(w) ==
    /\ pc[w] = "holding"
    /\ used' = used - held[w]
    /\ byIdentity' = Share(w)
    /\ held' = [held EXCEPT ![w] = 0]
    /\ pc' = [pc EXCEPT ![w] = "idle"]
    /\ WakeAll

Next ==
    \E w \in Workers :
        \/ \E units \in Units : Claim(w, units)
        \/ Begin(w) \/ Attempt(w) \/ Wake(w) \/ GiveUp(w) \/ Release(w)

Spec == Init /\ [][Next]_vars

-----------------------------------------------------------------------------
(* What the budget promises.                                               *)

\* Neither limit is passed.
WithinBudget ==
    /\ used <= Global
    /\ \A i \in Identities : byIdentity[i] <= PerIdentity

\* The units the calls hold, each named by its call and a number.
UnitsHeld == {unit \in Workers \X (1..Global) : unit[2] <= held[unit[1]]}

\* What is in use is what is held: no unit is lost, and none given back twice.
Balanced ==
    /\ used = Cardinality(UnitsHeld)
    /\ \A i \in Identities : byIdentity[i] = Cardinality({unit \in UnitsHeld : identity[unit[1]] = i})

\* No lost wakeup: a call sleeps on the current channel only while its unit
\* does not fit, whatever was claimed and released since it failed.
NoLostWakeup == \A w \in parked : ~ Fits(w, 1)

\* The limits hold and no wakeup is lost, whatever is claimed, awaited, given up
\* and released at once (attempt, await, release).
BudgetSound == TypeOK /\ WithinBudget /\ NoLostWakeup

\* A call that waits is woken, or gives up.
WaiterWoken == \A w \in Workers : (pc[w] = "waiting") ~> (pc[w] # "waiting")

=============================================================================
