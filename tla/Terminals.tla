------------------------------ MODULE Terminals ------------------------------
(* Node shells (internal/server/exec.go): each handler makes a privileged    *)
(* pod on a node, counts itself, runs a shell in it for a websocket, and     *)
(* takes the pod away when the shell, the browser or the account's rights    *)
(* end.  Closing the server drops the sockets and waits for the shells that  *)
(* are counted.  The pod (internal/nodeshell), the stream (internal/exec)    *)
(* and the socket answer as they please.                                     *)
EXTENDS Integers, FiniteSets

CONSTANT Shells

VARIABLES shell,      \* where each handler stands
          shellPod,   \* its pod, in the cluster
          socket,     \* its websocket and context: "lost" once either has ended
          stream,     \* the exec stream, and whether its end was told
          terminals,  \* Server.terminals: the sockets that are tracked
          counted,    \* nodeShells: the shells that are counted
          shutting,    \* where Server.Drain and Server.Close stand
          waitedFor   \* the shells that were counted when the wait began

termVars == <<shell, shellPod, socket, stream, terminals, counted, shutting, waitedFor>>

TerminalsTypeOK ==
  /\ shell \in [Shells -> {"idle", "admitted", "creating", "booting", "booted", "counted", "pumping", "typing", "ending", "removing",
                           "uncounting", "forgetting", "over"}]
  /\ shellPod \in [Shells -> {"none", "there", "gone", "stuck"}]
  /\ socket \in [Shells -> {"none", "open", "lost"}]
  /\ stream \in [Shells -> {"none", "running", "cancelled", "over", "told"}]
  /\ terminals \subseteq Shells /\ counted \subseteq Shells /\ waitedFor \subseteq Shells
  /\ shutting \in {"no", "draining", "closing", "dropped", "waiting", "drained", "over", "gave up"}

TerminalsInit ==
  /\ shell = [s \in Shells |-> "idle"]
  /\ shellPod = [s \in Shells |-> "none"]
  /\ socket = [s \in Shells |-> "none"]
  /\ stream = [s \in Shells |-> "none"]
  /\ terminals = {} /\ counted = {} /\ waitedFor = {}
  /\ shutting = "no"

Exited == shutting \in {"over", "gave up"}
At(s, place) == shell[s] = place /\ ~ Exited
Go(s, place) == shell' = [shell EXCEPT ![s] = place]

-----------------------------------------------------------------------------
(* The handler.                                                              *)

\* admitLive, and the checks of what the account may do.
Admit(s) ==
  /\ At(s, "idle") /\ shutting = "no"
  /\ Go(s, "admitted")
  /\ UNCHANGED <<shellPod, socket, stream, terminals, counted, shutting, waitedFor>>

\* The socket is accepted and tracked.
Accept(s) ==
  /\ At(s, "admitted")
  /\ socket' = [socket EXCEPT ![s] = "open"]
  /\ terminals' = terminals \cup {s}
  /\ Go(s, "creating")
  /\ UNCHANGED <<shellPod, stream, counted, shutting, waitedFor>>

\* Start: the pod is made, or is not.
CreatePod(s) ==
  /\ At(s, "creating")
  /\ \/ shellPod' = [shellPod EXCEPT ![s] = "there"] /\ Go(s, "booting")
     \/ UNCHANGED shellPod /\ Go(s, "forgetting")
  /\ UNCHANGED <<socket, stream, terminals, counted, shutting, waitedFor>>

\* waitRunning: it runs; or it fails, takes too long or the context ends, and
\* Start removes the pod again.
AwaitPod(s) ==
  /\ At(s, "booting")
  /\ \/ UNCHANGED shellPod /\ Go(s, "booted")
     \/ \E left \in {"gone", "stuck"} : shellPod' = [shellPod EXCEPT ![s] = left] /\ Go(s, "forgetting")
  /\ UNCHANGED <<socket, stream, terminals, counted, shutting, waitedFor>>

\* nodeShells.start, after the change was recorded.
Count(s) ==
  /\ At(s, "booted")
  /\ counted' = counted \cup {s} /\ Go(s, "counted")
  /\ UNCHANGED <<shellPod, socket, stream, terminals, shutting, waitedFor>>

\* A slip: a session that does not start returns before the removal is
\* deferred.
StartBeforeDefer(s) ==
  /\ At(s, "counted")
  /\ \/ stream' = [stream EXCEPT ![s] = "running"] /\ Go(s, "pumping")
     \/ UNCHANGED stream /\ Go(s, "uncounting")
  /\ UNCHANGED <<shellPod, socket, terminals, counted, shutting, waitedFor>>

\* StartExec, and the goroutine that watches the session.
StartSession(s) ==
  /\ At(s, "counted")
  /\ \/ stream' = [stream EXCEPT ![s] = "running"] /\ Go(s, "pumping")
     \/ UNCHANGED stream /\ Go(s, "removing")
  /\ UNCHANGED <<shellPod, socket, terminals, counted, shutting, waitedFor>>

\* pump: a frame for the shell's input is written to the pipe.
Type(s) ==
  /\ At(s, "pumping") /\ socket[s] = "open"
  /\ Go(s, "typing")
  /\ UNCHANGED <<shellPod, socket, stream, terminals, counted, shutting, waitedFor>>

\* A slip: nobody times a write to a pipe that the shell does not read.
TypedOrStuck(s) ==
  /\ At(s, "typing")
  /\ stream[s] \in {"over", "told"} /\ Go(s, "pumping") /\ UNCHANGED stream
  /\ UNCHANGED <<shellPod, socket, terminals, counted, shutting, waitedFor>>

\* writeStdin: the stream read it, or is over and closed the pipe; or the
\* timeout closes the session, which frees the writer.
Typed(s) ==
  /\ At(s, "typing")
  /\ \/ stream[s] \in {"running", "over", "told"} /\ Go(s, "pumping") /\ UNCHANGED stream
     \/ /\ stream' = [stream EXCEPT ![s] = IF @ = "running" THEN "cancelled" ELSE @]
        /\ Go(s, "ending")
  /\ UNCHANGED <<shellPod, socket, terminals, counted, shutting, waitedFor>>

\* pump ends with its socket or its context.
PumpEnds(s) ==
  /\ At(s, "pumping") /\ socket[s] = "lost"
  /\ Go(s, "ending")
  /\ UNCHANGED <<shellPod, socket, stream, terminals, counted, shutting, waitedFor>>

\* session.Close.
EndSession(s) ==
  /\ At(s, "ending")
  /\ stream' = [stream EXCEPT ![s] = IF @ = "running" THEN "cancelled" ELSE @]
  /\ Go(s, "removing")
  /\ UNCHANGED <<shellPod, socket, terminals, counted, shutting, waitedFor>>

\* RemoveNodeShell: deleted or already gone; or refused, or out of time.
RemovePod(s) ==
  /\ At(s, "removing")
  /\ \E left \in {"gone", "stuck"} : shellPod' = [shellPod EXCEPT ![s] = left]
  /\ Go(s, "uncounting")
  /\ UNCHANGED <<socket, stream, terminals, counted, shutting, waitedFor>>

\* done: the signal is closed when the count reaches zero.
LastOut(s) == counted \ {s} = {}

\* nodeShells.done.
Uncount(s) ==
  /\ At(s, "uncounting")
  /\ counted' = counted \ {s} /\ Go(s, "forgetting")
  /\ shutting' = IF shutting = "waiting" /\ LastOut(s) THEN "drained" ELSE shutting
  /\ UNCHANGED <<shellPod, socket, stream, terminals, waitedFor>>

\* cancel, forgetExec and CloseNow: the deferred calls of the handler's start.
ForgetExec(s) ==
  /\ At(s, "forgetting")
  /\ terminals' = terminals \ {s}
  /\ socket' = [socket EXCEPT ![s] = "lost"]
  /\ Go(s, "over")
  /\ UNCHANGED <<shellPod, stream, counted, shutting, waitedFor>>

HandlerStep(s) ==
  \/ CreatePod(s) \/ AwaitPod(s) \/ Count(s) \/ StartSession(s) \/ Typed(s) \/ PumpEnds(s)
  \/ EndSession(s) \/ RemovePod(s) \/ Uncount(s) \/ ForgetExec(s)

-----------------------------------------------------------------------------
(* What happens to it.                                                       *)

\* The browser goes away, a cluster is closed and its terminals severed, or a
\* second look at the account's rights fails.
Sever(s) ==
  /\ ~ Exited /\ socket[s] = "open"
  /\ socket' = [socket EXCEPT ![s] = "lost"]
  /\ UNCHANGED <<shell, shellPod, stream, terminals, counted, shutting, waitedFor>>

\* The stream: the shell ends, or its context did.
StreamEnds(s) ==
  /\ ~ Exited
  /\ stream[s] \in {"running", "cancelled"}
  /\ stream' = [stream EXCEPT ![s] = "over"]
  /\ UNCHANGED <<shell, shellPod, socket, terminals, counted, shutting, waitedFor>>

\* The watcher of the session: the end is sent, and the context cancelled.
WatcherTells(s) ==
  /\ ~ Exited /\ stream[s] = "over"
  /\ stream' = [stream EXCEPT ![s] = "told"]
  /\ socket' = [socket EXCEPT ![s] = "lost"]
  /\ UNCHANGED <<shell, shellPod, terminals, counted, shutting, waitedFor>>

\* drainBegin: no terminal is admitted any more.
BeginDrain ==
  /\ shutting = "no" /\ shutting' = "draining"
  /\ UNCHANGED <<shell, shellPod, socket, stream, terminals, counted, waitedFor>>

\* drainQuiet: no terminal is left, or the grace is over and they are dropped.
EndDrain ==
  /\ shutting = "draining" /\ shutting' = "closing"
  /\ \/ terminals = {} /\ UNCHANGED <<socket, terminals>>
     \/ terminals # {} /\ socket' = [s \in Shells |-> IF s \in terminals THEN "lost" ELSE socket[s]] /\ terminals' = {}
  /\ UNCHANGED <<shell, shellPod, stream, counted, waitedFor>>

\* Close: dropSessions, once more.
DropSessions ==
  /\ shutting = "closing" /\ shutting' = "dropped"
  /\ socket' = [s \in Shells |-> IF s \in terminals THEN "lost" ELSE socket[s]]
  /\ terminals' = {}
  /\ UNCHANGED <<shell, shellPod, stream, counted, waitedFor>>

\* awaitNodeShells: the waiter is the signal of the shells counted now.
BeginWait ==
  /\ shutting = "dropped"
  /\ shutting' = (IF counted = {} THEN "drained" ELSE "waiting") /\ waitedFor' = counted
  /\ UNCHANGED <<shell, shellPod, socket, stream, terminals, counted>>

\* The wait ends, or gives up; the process ends.
Exit ==
  /\ \/ shutting = "drained" /\ shutting' = "over"
     \/ shutting = "waiting" /\ shutting' = "gave up"
  /\ UNCHANGED <<shell, shellPod, socket, stream, terminals, counted, waitedFor>>

TerminalsNext ==
  \/ \E s \in Shells : Admit(s) \/ Accept(s) \/ HandlerStep(s) \/ Type(s) \/ Sever(s) \/ StreamEnds(s) \/ WatcherTells(s)
  \/ BeginDrain \/ EndDrain \/ DropSessions \/ BeginWait \/ Exit

-----------------------------------------------------------------------------
\* Every way out of the handler takes the pod away, or tried to.
PodsAreTakenAway == \A s \in Shells : shell[s] = "over" => shellPod[s] # "there"

\* A server that closes without giving up has waited for the pod of every shell
\* that was counted, also when others were started or ended meanwhile.
CountedShellsAreWaitedFor == shutting = "over" => \A s \in waitedFor : shellPod[s] # "there"

\* A terminal whose browser went away or whose rights ended does not stay: its
\* handler ends, unless the process does first.
SeveredTerminalsEnd ==
  \A s \in Shells : socket[s] = "lost" ~> (shell[s] = "over" \/ Exited)

\* What TestClosingTheServerTakesTheNodeShellPodWithIt says by its name: when
\* the server has closed without giving up, no node shell's pod is left behind
\* that could have been removed.
ClosingTakesThePods == shutting = "over" => \A s \in Shells : shellPod[s] # "there"
=============================================================================
