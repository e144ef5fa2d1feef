---------------------------- MODULE GuardedWrites ----------------------------
(* A write that a protected cluster asks the name for                        *)
(* (internal/server/contexts.go, history.go).  One request looks its cluster *)
(* up three times: for the guard, for the writer and for the audit entry.    *)
(* The user meanwhile switches, opens and closes clusters and changes their  *)
(* protection.                                                               *)
EXTENDS Naturals, FiniteSets

CONSTANTS Writes,     \* requests that change an object
          Homes       \* clusters the program can have open

Unnamed == "unnamed"

\* What happened to a write: `on` is the cluster that was written, `guard` the
\* cluster whose protection was looked at, `told` the one in the audit entry.
VARIABLES current,    \* the active cluster, Unnamed when there is none
          openHomes,       \* the open clusters
          guarded,    \* the clusters the user protects
          write       \* request -> where it is

writeVars == <<current, openHomes, guarded, write>>

Resting == [at |-> "rest", names |-> Unnamed, typed |-> FALSE, guard |-> Unnamed, on |-> Unnamed, told |-> Unnamed]

Targets == Homes \cup {Unnamed}

WritesTypeOK ==
  /\ current \in Targets
  /\ openHomes \subseteq Homes
  /\ guarded \subseteq Homes
  /\ write \in [Writes -> [at : {"rest", "arrived", "passed", "writing", "wrote", "refused", "recorded"},
                           names : Targets, typed : BOOLEAN, guard : Targets, on : Targets, told : Targets]]

WritesInit ==
  /\ current \in Homes
  /\ openHomes = {current}
  /\ guarded \in SUBSET Homes
  /\ write = [w \in Writes |-> Resting]

\* A request that names no cluster means the one that is active now.
Lookup(w) == IF write[w].names = Unnamed THEN current ELSE write[w].names

ArriveWrite(w, named, typed) ==
  /\ write[w].at = "rest"
  /\ named \in openHomes \cup {Unnamed}
  /\ write' = [write EXCEPT ![w].at = "arrived", ![w].names = named, ![w].typed = typed]
  /\ UNCHANGED <<current, openHomes, guarded>>

\* unconfirmed: the name has to be typed out when the cluster is protected.
\* The guard of a request comes before its writer, in another lookup.
CheckConfirmed(w) ==
  /\ write[w].at = "arrived"
  /\ LET on == Lookup(w) IN
     write' = [write EXCEPT ![w].guard = on,
                            ![w].at = IF on \in guarded /\ ~ write[w].typed THEN "refused" ELSE "passed"]
  /\ UNCHANGED <<current, openHomes, guarded>>

\* The writer of a cluster that is not open is no writer: the write fails.
PickWriter(w) ==
  /\ write[w].at = "passed"
  /\ LET on == Lookup(w) IN
     write' = [write EXCEPT ![w].on = on, ![w].at = IF on \in openHomes THEN "writing" ELSE "refused"]
  /\ UNCHANGED <<current, openHomes, guarded>>

DoWrite(w) ==
  /\ write[w].at = "writing"
  /\ write' = [write EXCEPT ![w].at = "wrote"]
  /\ UNCHANGED <<current, openHomes, guarded>>

\* The audit entry is filed under the cluster of a third lookup.
RecordWrite(w) ==
  /\ write[w].at = "wrote"
  /\ write' = [write EXCEPT ![w].told = Lookup(w), ![w].at = "recorded"]
  /\ UNCHANGED <<current, openHomes, guarded>>

FinishWrite(w) ==
  /\ write[w].at \in {"refused", "recorded"}
  /\ write' = [write EXCEPT ![w] = Resting]
  /\ UNCHANGED <<current, openHomes, guarded>>

\* Open, or Activate for a cluster that is open: either makes it the active one.
SelectHome(c) ==
  /\ c # current
  /\ current' = c
  /\ openHomes' = openHomes \cup {c}
  /\ UNCHANGED <<guarded, write>>

\* Another open cluster becomes the active one.
CloseHome(c) ==
  /\ c \in openHomes
  /\ openHomes' = openHomes \ {c}
  /\ current' \in IF current = c THEN (IF openHomes = {c} THEN {Unnamed} ELSE openHomes \ {c}) ELSE {current}
  /\ UNCHANGED <<guarded, write>>

\* setProtection, on the cluster of the request.
SetProtection(named, wanted) ==
  /\ LET on == IF named = Unnamed THEN current ELSE named IN
     /\ on # Unnamed
     /\ guarded' = IF wanted THEN guarded \cup {on} ELSE guarded \ {on}
  /\ UNCHANGED <<current, openHomes, write>>

WriteStep(w) ==
  \/ CheckConfirmed(w)
  \/ PickWriter(w)
  \/ DoWrite(w)
  \/ RecordWrite(w)
  \/ FinishWrite(w)

WritesNext ==
  \/ \E w \in Writes, named \in Targets, typed \in BOOLEAN : ArriveWrite(w, named, typed)
  \/ \E w \in Writes : WriteStep(w)
  \/ \E c \in Homes : SelectHome(c) \/ CloseHome(c)
  \/ \E named \in Targets, wanted \in BOOLEAN : SetProtection(named, wanted)

Reached(w) == write[w].at \in {"writing", "wrote", "recorded"}

\* A request that names its cluster is guarded, written and recorded on that
\* one cluster, however the user switches between the three lookups
\* (clusterOf and lookup, server.go).
NamedWritesStay ==
  \A w \in Writes : Reached(w) /\ write[w].names # Unnamed =>
    /\ write[w].guard = write[w].names
    /\ write[w].on = write[w].names
    /\ (write[w].at = "recorded" => write[w].told = write[w].names)

\* "Anything destructive on a protected cluster asks for the name typed out":
\* the protection that was looked at is the protection of the cluster that is
\* written.
NoUnconfirmedWrite ==
  \A w \in Writes : Reached(w) /\ ~ write[w].typed => write[w].on = write[w].guard
=============================================================================
