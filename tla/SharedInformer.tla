--------------------------- MODULE SharedInformer ---------------------------
(***************************************************************************)
(* What the stream registry promises the tables that read from it, with no *)
(* gates, timers, counters, retries or locks: one informer per key at a    *)
(* time, offered only while it runs; a reader joins the informer that is   *)
(* on offer at that moment; an informer somebody reads stops only with its *)
(* readers told (their channels closed) or with the whole cluster.         *)
(* StreamRegistry implements this; see SharesInformers there.              *)
(***************************************************************************)
CONSTANTS Keys, Callers, Streams, None

VARIABLES
    offered,  \* the informer readers of a key are given
    running,  \* the informers that watch the cluster
    reads,    \* the informer each open table is fed by
    ending,   \* informers withdrawn with their readers, who have yet to be told
    open      \* the cluster is

vars == <<offered, running, reads, ending, open>>

Unread(s) == \A c \in Callers : reads[c] # s
Unoffered(s) == \A k \in Keys : offered[k] # s

Init ==
    /\ offered = [k \in Keys |-> None]
    /\ running = {}
    /\ reads = [c \in Callers |-> None]
    /\ ending = {}
    /\ open = TRUE

\* An informer is started for nobody yet.
Start(s) ==
    /\ open /\ s \notin running \cup ending /\ Unread(s) /\ Unoffered(s)
    /\ running' = running \cup {s}
    /\ UNCHANGED <<offered, reads, ending, open>>

\* It is offered once it runs; the only one of its key.
Offer(k, s) ==
    /\ offered[k] = None /\ Unoffered(s) /\ Unread(s) /\ s \notin ending
    /\ open => s \in running
    /\ offered' = [offered EXCEPT ![k] = s]
    /\ UNCHANGED <<running, reads, ending, open>>

Join(c, k) ==
    /\ reads[c] = None /\ offered[k] # None
    /\ reads' = [reads EXCEPT ![c] = offered[k]]
    /\ UNCHANGED <<offered, running, ending, open>>

Leave(c) ==
    /\ reads' = [reads EXCEPT ![c] = None]
    /\ UNCHANGED <<offered, running, ending, open>>

\* Nobody reads it: it may be withdrawn, and stopped at once or later.
Withdraw(k) ==
    /\ offered[k] # None /\ Unread(offered[k])
    /\ offered' = [offered EXCEPT ![k] = None]
    /\ running' \in {running, running \ {offered[k]}}
    /\ UNCHANGED <<reads, ending, open>>

Stop(s) ==
    /\ Unread(s) /\ Unoffered(s) /\ s \notin ending
    /\ running' = running \ {s}
    /\ UNCHANGED <<offered, reads, ending, open>>

\* Resource types vanish: their informers are withdrawn with their readers.
Vanish(gone) ==
    /\ offered' = [k \in Keys |-> IF k \in gone THEN None ELSE offered[k]]
    /\ ending' = {offered[k] : k \in gone} \ {None}
    /\ UNCHANGED <<running, reads, open>>

\* ... who are told as the informer stops.
End(s) ==
    /\ s \in ending
    /\ ending' = ending \ {s}
    /\ reads' = [c \in Callers |-> IF reads[c] = s THEN None ELSE reads[c]]
    /\ running' = running \ {s}
    /\ UNCHANGED <<offered, open>>

CloseCluster ==
    /\ open
    /\ open' = FALSE
    /\ running' = {}
    /\ UNCHANGED <<offered, reads, ending>>

Next ==
    \/ \E s \in Streams : Start(s) \/ Stop(s) \/ End(s)
    \/ \E k \in Keys : Withdraw(k) \/ \E s \in Streams : Offer(k, s)
    \/ \E c \in Callers : Leave(c) \/ \E k \in Keys : Join(c, k)
    \/ \E gone \in SUBSET Keys : Vanish(gone)
    \/ CloseCluster

Spec == Init /\ [][Next]_vars

=============================================================================
