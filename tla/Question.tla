------------------------------ MODULE Question ------------------------------
(* The pure half of the server: handlers that read what the cluster holds   *)
(* and compute an answer from it, with no state of their own.  A bench asks *)
(* one question at a time: `ask` is the input of the handler, a record      *)
(* whose field `about` names the handler.  The modules that extend this one *)
(* define the handler's operators, the action that puts its questions and   *)
(* the properties of its answers, as invariants over `ask`.                 *)
VARIABLE ask

questionVars == <<ask>>

Idle == [about |-> "nothing"]

QuestionInit == ask = Idle

\* A handler is asked only when the one before it has been answered.
Ready == ask = Idle

Put(question) == ask' = question

Answered == ask # Idle /\ ask' = Idle

Asks(handler) == ask.about = handler
=============================================================================
