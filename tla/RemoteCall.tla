----------------------------- MODULE RemoteCall -----------------------------
(***************************************************************************)
(* What the connection of NetHackSession promises to the code above it:    *)
(* remote calls made one at a time, and one-way requests between them.     *)
(* Every request is executed at most once and in the order of issue; a     *)
(* call returns at most once, only after it has been executed, and with    *)
(* the answer of that very execution.  The server may stop at any moment,  *)
(* which loses what it has not executed, and the client may leave.         *)
(***************************************************************************)
EXTENDS Sequences

CONSTANTS Calls,    \* kinds of requests that are answered
          OneWay    \* the kind of those that are not

VARIABLES waiting,  \* the kind of the call the client is in; "no", "gone"
          todo,     \* kinds of the requests issued and not yet executed
          answer,   \* the kind of the call whose answer is ready, or "no"
          serving   \* the server has not stopped

vars == <<waiting, todo, answer, serving>>

Init == waiting = "no" /\ todo = <<>> /\ answer = "no" /\ serving = TRUE

\* A request to a server that has stopped goes nowhere.
Issue(kind) == todo' = IF serving THEN Append(todo, kind) ELSE todo

Call ==
  /\ waiting = "no"
  /\ \E kind \in Calls : waiting' = kind /\ Issue(kind)
  /\ UNCHANGED <<answer, serving>>

Post ==
  /\ waiting = "no"
  /\ Issue(OneWay)
  /\ UNCHANGED <<waiting, answer, serving>>

Execute ==
  /\ serving /\ todo # <<>>
  /\ answer' = IF Head(todo) \in Calls THEN Head(todo) ELSE answer
  /\ todo' = Tail(todo)
  /\ UNCHANGED <<waiting, serving>>

Return ==
  /\ waiting \in Calls /\ answer = waiting
  /\ waiting' = "no" /\ answer' = "no"
  /\ UNCHANGED <<todo, serving>>

Stop ==
  /\ serving
  /\ serving' = FALSE /\ todo' = <<>>
  /\ UNCHANGED <<waiting, answer>>

\* The last request of a client may be the one it leaves with.
Leave ==
  /\ waiting # "gone"
  /\ waiting' = "gone"
  /\ todo' = todo \/ Issue(OneWay)
  /\ UNCHANGED <<answer, serving>>

Next == Call \/ Post \/ Execute \/ Return \/ Stop \/ Leave

Spec == Init /\ [][Next]_vars
=============================================================================
