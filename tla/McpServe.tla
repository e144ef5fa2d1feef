------------------------------- MODULE McpServe -------------------------------
(* The MCP server on its standard streams (internal/mcp/stdio.go): Serve     *)
(* reads one message after another, hands each to a goroutine of its own     *)
(* when a slot is free, and waits for all of them before it returns; replies *)
(* are written one at a time, and the first write that fails ends them.      *)
EXTENDS Integers, FiniteSets

CONSTANTS Messages,   \* the messages the client sends before it ends
          AtOnce      \* atOnce

VARIABLES serve,    \* the loop: "reading", "handing", "looking", "waiting" or "returned"
          inHand,   \* the message that was read and is not handed over yet
          ending,   \* why the loop ends: "no", "eof", "read" or "sink"
          message,  \* each message: unread, held, working, replying, replied, quiet or lost
          output,     \* whether a reply could not be written
          stopped   \* whether the context is cancelled

serveVars == <<serve, inHand, ending, message, output, stopped>>

Idly == "nothing in hand"

\* The slots that are taken, and what running counts.
Busy == {m \in Messages : message[m] \in {"working", "replying"}}

McpTypeOK ==
  /\ serve \in {"reading", "handing", "looking", "waiting", "returned"}
  /\ inHand \in Messages \cup {Idly}
  /\ ending \in {"no", "eof", "read", "sink", "stopped"}
  /\ message \in [Messages -> {"unread", "held", "working", "replying", "replied", "quiet", "lost"}]
  /\ output \in {"fine", "failed"} /\ stopped \in BOOLEAN

ServeInit ==
  /\ serve = "reading" /\ inHand = Idly /\ ending = "no"
  /\ message = [m \in Messages |-> "unread"]
  /\ output = "fine" /\ stopped = FALSE

-----------------------------------------------------------------------------
Unread == {m \in Messages : message[m] = "unread"}

\* The context is cancelled: the process was told to end.
Interrupt == ~ stopped /\ stopped' = TRUE /\ UNCHANGED <<serve, inHand, ending, message, output>>

\* The top of the loop, when the context has ended.
SeeStopped ==
  /\ serve = "reading" /\ stopped
  /\ serve' = "waiting" /\ ending' = "stopped"
  /\ UNCHANGED <<inHand, message, output, stopped>>

\* readMessage: a line, which may come with the end of the input or an error;
\* or the end or the error alone.  The context was fine when the loop
\* looked, and may have ended since.
ReadMessage ==
  /\ serve = "reading"
  /\ \/ \E m \in Unread, err \in {"no", "eof", "read"} :
          /\ err = "eof" => Unread = {m}
          /\ inHand' = m /\ serve' = "handing"
          /\ message' = [message EXCEPT ![m] = "held"]
          /\ ending' = err
     \/ /\ ending' = IF Unread = {} THEN "eof" ELSE "read"
        /\ serve' = "looking" /\ UNCHANGED <<inHand, message>>
  /\ UNCHANGED <<output, stopped>>

\* running.Add, a slot, and the goroutine.
HandOver ==
  /\ serve = "handing" /\ Cardinality(Busy) < AtOnce
  /\ message' = [message EXCEPT ![inHand] = "working"]
  /\ inHand' = Idly /\ serve' = "looking"
  /\ UNCHANGED <<ending, output, stopped>>

\* The rest of the loop: the read's error, then the sink's.
LookAtErrors ==
  /\ serve = "looking"
  /\ \/ ending # "no" /\ serve' = "waiting" /\ UNCHANGED ending
     \/ ending = "no" /\ output = "failed" /\ serve' = "waiting" /\ ending' = "sink"
     \/ ending = "no" /\ output = "fine" /\ serve' = "reading" /\ UNCHANGED ending
  /\ UNCHANGED <<inHand, message, output, stopped>>

\* answerSafely: a reply, which a panic has too, or none for a notification.
FinishWork(m) ==
  /\ message[m] = "working"
  /\ \E end \in {"replying", "quiet"} : message' = [message EXCEPT ![m] = end]
  /\ UNCHANGED <<serve, inHand, ending, output, stopped>>

\* writer.send, then the slot and the wait group.
Send(m) ==
  /\ message[m] = "replying"
  /\ \/ output = "fine" /\ message' = [message EXCEPT ![m] = "replied"] /\ UNCHANGED output
     \/ output' = "failed" /\ message' = [message EXCEPT ![m] = "lost"]
  /\ UNCHANGED <<serve, inHand, ending, stopped>>

\* running.Wait.
Return ==
  /\ serve = "waiting" /\ Busy = {}
  /\ serve' = "returned"
  /\ UNCHANGED <<inHand, ending, message, output, stopped>>

ServeLoop == SeeStopped \/ HandOver \/ LookAtErrors \/ Return
ServeNext == Interrupt \/ ServeLoop \/ ReadMessage \/ \E m \in Messages : FinishWork(m) \/ Send(m)

-----------------------------------------------------------------------------
\* Serve never returns with a request under way: every message it read has its
\* reply written, or asked for none, or the output had failed.
RepliesBeforeReturn ==
  serve = "returned" =>
    /\ inHand = Idly
    /\ \A m \in Messages : message[m] \in {"unread", "replied", "quiet", "lost"}
    /\ (\E m \in Messages : message[m] = "lost") => output = "failed"

\* A message that was read is answered or, at worst, found to have nobody to
\* answer to: a full set of slots is never a deadlock.
ReadIsAnswered == \A m \in Messages : message[m] = "held" ~> message[m] \in {"replied", "quiet", "lost"}
=============================================================================
