----------------------------- MODULE Recordings -----------------------------
(***************************************************************************)
(* Which recording a cluster holds (startRecording, stopRecording and      *)
(* closeRecordings of internal/server/timeline.go): recordings are         *)
(* started, switched to other kinds, stopped with their cluster and ended  *)
(* with the program, all at once. Timeline models one of them.             *)
(***************************************************************************)
EXTENDS Naturals, FiniteSets

CONSTANTS
    Tapes,          \* calls of startRecording, each with the recording it makes
    Stops           \* calls of closeCluster

VARIABLES
    tapeMu,         \* who holds Server.tapeMu
    taping,         \* Server.taping of the cluster
    ended,          \* Server.tapingClosed
    opened,         \* does managerOf(id) find the cluster
    fed,            \* Manager.notes: the recording that is given changes
    tape,           \* per recording: is its writer running, asked to stop, its start cancelled and over
    step,           \* where each call is
    prey            \* the recordings a call is closing

recVars == <<tapeMu, taping, ended, opened, fed, tape, step, prey>>

Nil == "nil"
Shutdown == "shutdown"

ASSUME RecAssumption == Tapes \cap Stops = {} /\ {Nil, Shutdown} \cap (Tapes \cup Stops) = {}

Calls == Tapes \cup Stops \cup {Shutdown}

RecInit ==
    /\ tapeMu = Nil /\ taping = Nil /\ ended = FALSE /\ opened = TRUE /\ fed = Nil
    /\ tape = [r \in Tapes |-> [writer |-> "none", asked |-> FALSE, cancelled |-> FALSE, started |-> FALSE]]
    /\ step = [k \in Calls |-> "off"] /\ prey = [k \in Calls |-> {}]

Moves(k, s) == step' = [step EXCEPT ![k] = s]

-----------------------------------------------------------------------------
(* startRecording.                                                         *)

StartRecording(r) ==
    /\ step[r] = "off"
    /\ Moves(r, IF opened THEN "hold" ELSE "done")
    /\ UNCHANGED <<tapeMu, taping, ended, opened, fed, tape, prey>>

TapingClosed == ended

\* The writer starts and the recording takes the place of the one before in
\* one section of tapeMu.
HoldRecording(r) ==
    /\ step[r] = "hold" /\ tapeMu = Nil
    /\ IF TapingClosed
       THEN Moves(r, "done") /\ UNCHANGED <<taping, tape, prey>>
       ELSE /\ taping' = r
            /\ tape' = [tape EXCEPT ![r].writer = "run"]
            /\ prey' = [prey EXCEPT ![r] = IF taping = Nil THEN {} ELSE {taping}]
            /\ Moves(r, IF taping = Nil THEN "record" ELSE "cancel")
    /\ UNCHANGED <<tapeMu, ended, opened, fed>>

\* backend.Record gives the manager its notes even when its context is
\* cancelled, and returns when the kinds are warm, refused or cancelled.
Record(r) ==
    /\ step[r] = "record"
    /\ fed' = r
    /\ Moves(r, "warm")
    /\ UNCHANGED <<tapeMu, taping, ended, opened, tape, prey>>

Started(r) ==
    /\ step[r] = "warm"
    /\ tape' = [tape EXCEPT ![r].started = TRUE]
    /\ Moves(r, "done")
    /\ UNCHANGED <<tapeMu, taping, ended, opened, fed, prey>>

-----------------------------------------------------------------------------
(* The steps of close, which closeRecordings takes for all it holds.       *)

Cancelled(k) == [r \in Tapes |-> IF r \in prey[k] THEN [tape[r] EXCEPT !.cancelled = TRUE] ELSE tape[r]]

CancelStart(k) ==
    /\ step[k] = "cancel"
    /\ tape' = Cancelled(k)
    /\ Moves(k, "await")
    /\ UNCHANGED <<tapeMu, taping, ended, opened, fed, prey>>

\* A slip: the start that is cancelled is not waited for.
NotAwaited(k) == TRUE

StartsOver(k) == \A r \in prey[k] : tape[r].started

WaitForStart(k) ==
    /\ step[k] = "await" /\ StartsOver(k)
    /\ Moves(k, "backend")
    /\ UNCHANGED <<tapeMu, taping, ended, opened, fed, tape, prey>>

\* StopRecording of the manager takes its notes away, whosever they are.
StopBackend(k) ==
    /\ step[k] = "backend"
    /\ fed' = IF prey[k] = {} THEN fed ELSE Nil
    /\ Moves(k, "request")
    /\ UNCHANGED <<tapeMu, taping, ended, opened, tape, prey>>

RequestStop(k) ==
    /\ step[k] = "request"
    /\ tape' = [r \in Tapes |-> IF r \in prey[k] THEN [tape[r] EXCEPT !.asked = TRUE] ELSE tape[r]]
    /\ Moves(k, "stop")
    /\ UNCHANGED <<tapeMu, taping, ended, opened, fed, prey>>

WriterStops(r) ==
    /\ tape[r].writer = "run" /\ tape[r].asked
    /\ tape' = [tape EXCEPT ![r].writer = "stopped"]
    /\ UNCHANGED <<tapeMu, taping, ended, opened, fed, step, prey>>

AfterClose(k) == IF k \in Tapes THEN "record" ELSE "done"

\* What a call does once what it closed has stopped: a start records, a
\* closeCluster gives tapeMu back and closes the cluster.
WaitForStop(k) ==
    /\ step[k] = "stop" /\ \A r \in prey[k] : tape[r].writer = "stopped"
    /\ prey' = [prey EXCEPT ![k] = {}]
    /\ Moves(k, AfterClose(k))
    /\ tapeMu' = IF k \in Stops THEN Nil ELSE tapeMu
    /\ opened' = (opened /\ k \notin Stops)
    /\ UNCHANGED <<taping, ended, fed, tape>>

-----------------------------------------------------------------------------
(* stopRecording, which keeps tapeMu until it is done, and                 *)
(* closeRecordings, which gives it back at once.                           *)

StopRecording(k) ==
    /\ step[k] = "off" /\ tapeMu = Nil
    /\ tapeMu' = k
    /\ taping' = Nil
    /\ prey' = [prey EXCEPT ![k] = IF taping = Nil THEN {} ELSE {taping}]
    /\ Moves(k, "cancel")
    /\ UNCHANGED <<ended, opened, fed, tape>>

CloseRecordings ==
    /\ step[Shutdown] = "off" /\ tapeMu = Nil
    /\ ended' = TRUE
    /\ taping' = Nil
    /\ prey' = [prey EXCEPT ![Shutdown] = IF taping = Nil THEN {} ELSE {taping}]
    /\ Moves(Shutdown, "cancel")
    /\ UNCHANGED <<tapeMu, opened, fed, tape>>

Closing(k) == CancelStart(k) \/ WaitForStart(k) \/ StopBackend(k) \/ RequestStop(k) \/ WaitForStop(k)

TapeStep(r) == Record(r) \/ WriterStops(r) \/ Closing(r) \/ (tape[r].cancelled /\ Started(r))

RecNext ==
    \/ \E r \in Tapes : StartRecording(r) \/ HoldRecording(r) \/ TapeStep(r) \/ Started(r)
    \/ \E k \in Stops : StopRecording(k)
    \/ \E k \in Stops \cup {Shutdown} : Closing(k)
    \/ CloseRecordings

-----------------------------------------------------------------------------
(* Properties.                                                             *)

\* Changes are never handed to a recording whose writer was asked to stop:
\* they would fill a queue nobody empties.
FedIsWritten == fed # Nil => tape[fed].writer = "run" /\ ~ tape[fed].asked

\* Once all calls are over, the recording the cluster holds is the one that
\* is given its changes: no late close of an older one has silenced it.
HeldIsFed == (\A k \in Calls : step[k] \in {"off", "done"}) /\ taping # Nil => fed = taping

\* When closeRecordings returns no writer runs, not even that of a recording
\* another call was replacing.
NoneAfterEnd == step[Shutdown] = "done" => \A r \in Tapes : tape[r].writer # "run"

\* Stops and the shutdown wait for starts, which wait for the recordings they
\* replace, and never in a circle: each returns, even when the cluster does
\* not answer and only a cancelled start comes back.
RecordingsEnd ==
    \A k \in Stops \cup {Shutdown} : step[k] = "cancel" ~> step[k] = "done"
=============================================================================
