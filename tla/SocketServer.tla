---------------------------- MODULE SocketServer ----------------------------
(***************************************************************************)
(* The server of server.py: a main thread that accepts connections, one    *)
(* thread per connection that runs handler.py as a process of its own and  *)
(* waits for it, and the way all of them stop.                             *)
(*                                                                         *)
(* The loop, the threads and the join at the end are those of Python's     *)
(* socketserver (ThreadingMixIn, TCPServer), which is not part of the      *)
(* repository; they are modelled from what serve() and Handler rely on.    *)
(* A connection is in one of these states:                                 *)
(*   none      not made yet                                                *)
(*   backlog   made by the kernel, not accepted                            *)
(*   started   accepted, its thread has been started                       *)
(*   running   its handler process runs                                    *)
(*   exited    the process has ended, the thread has not noticed           *)
(*   stopping  the thread waits in server.shutdown()                       *)
(*   finishing the thread closes the request next                          *)
(*   closed    closed by its thread, which has ended                       *)
(*   reset     refused or reset by the kernel                              *)
(***************************************************************************)
EXTENDS Naturals

CONSTANTS Conns   \* the connections that clients try to make

VARIABLES
  exitOnDone,   \* the server is to stop after its first connection
  conn,         \* the state of each connection
  asksExit,     \* the connections whose client sends ExitServer
  rc,           \* the exit code of the process of each connection
  mpc,          \* where the main thread is
  listening,    \* the listening socket is open
  stopFlag,     \* BaseServer.__shutdown_request
  loopEnded,    \* BaseServer.__is_shut_down
  interrupted   \* the main thread was interrupted from the keyboard

vars == <<exitOnDone, conn, asksExit, rc, mpc, listening, stopFlag, loopEnded,
          interrupted>>

Live == {"started", "running", "exited", "stopping", "finishing"}

Init ==
  /\ exitOnDone \in BOOLEAN
  /\ conn = [c \in Conns |-> "none"]
  /\ asksExit \in SUBSET Conns
  /\ rc = [c \in Conns |-> 0]
  /\ mpc = "loop" /\ listening = TRUE
  /\ stopFlag = FALSE /\ loopEnded = FALSE /\ interrupted = FALSE

Move(c, from, to) == conn[c] = from /\ conn' = [conn EXCEPT ![c] = to]

-----------------------------------------------------------------------------
(* The clients.                                                            *)

\* The kernel completes the connection before the server accepts it.
Connect(c) ==
  /\ Move(c, "none", IF listening THEN "backlog" ELSE "reset")
  /\ UNCHANGED <<exitOnDone, asksExit, rc, mpc, listening, stopFlag, loopEnded,
                 interrupted>>

(* The main thread: serve_forever, then server_close.                      *)

\* A connection is ready and no stop has been asked for when it is tested.
Ready ==
  /\ mpc = "loop" /\ ~stopFlag
  /\ \E c \in Conns : conn[c] = "backlog"
  /\ mpc' = "accept"
  /\ UNCHANGED <<exitOnDone, conn, asksExit, rc, listening, stopFlag, loopEnded,
                 interrupted>>

\* process_request: a thread is started for the connection.
Accept(c) ==
  /\ mpc = "accept"
  /\ Move(c, "backlog", "started")
  /\ mpc' = "loop"
  /\ UNCHANGED <<exitOnDone, asksExit, rc, listening, stopFlag, loopEnded,
                 interrupted>>

\* The loop is left: the flag is cleared and the waiting threads are woken.
LeaveLoop ==
  /\ mpc = "loop" /\ stopFlag
  /\ mpc' = "close"
  /\ stopFlag' = FALSE /\ loopEnded' = TRUE
  /\ UNCHANGED <<exitOnDone, conn, asksExit, rc, listening, interrupted>>

\* KeyboardInterrupt leaves the loop in the same way.
Interrupt ==
  /\ mpc = "loop"
  /\ mpc' = "close"
  /\ stopFlag' = FALSE /\ loopEnded' = TRUE /\ interrupted' = TRUE
  /\ UNCHANGED <<exitOnDone, conn, asksExit, rc, listening>>

\* (mutant) server_close leaves the listening socket open.
CloseNothing ==
  /\ mpc = "close"
  /\ mpc' = "join"
  /\ UNCHANGED <<exitOnDone, conn, asksExit, rc, listening, stopFlag, loopEnded,
                 interrupted>>

\* server_close: the kernel resets what has not been accepted.
CloseListener ==
  /\ mpc = "close"
  /\ mpc' = "join" /\ listening' = FALSE
  /\ conn' = [c \in Conns |-> IF conn[c] = "backlog" THEN "reset" ELSE conn[c]]
  /\ UNCHANGED <<exitOnDone, asksExit, rc, stopFlag, loopEnded, interrupted>>

\* (mutant) The threads are daemons, and nobody waits for them.
JoinNone ==
  /\ mpc = "join"
  /\ mpc' = "ended"
  /\ UNCHANGED <<exitOnDone, conn, asksExit, rc, listening, stopFlag, loopEnded,
                 interrupted>>

\* server_close waits for every thread it has started.
JoinThreads ==
  /\ mpc = "join"
  /\ \A c \in Conns : conn[c] \notin Live
  /\ mpc' = "ended"
  /\ UNCHANGED <<exitOnDone, conn, asksExit, rc, listening, stopFlag, loopEnded,
                 interrupted>>

-----------------------------------------------------------------------------
(* The thread of a connection: Handler.handle and what surrounds it.       *)

ThreadOnly == UNCHANGED <<exitOnDone, asksExit, mpc, listening, loopEnded,
                          interrupted>>

\* Popen starts handler.py, whatever has become of the loop in the meantime.
Spawn(c) ==
  /\ Move(c, "started", "running")
  /\ ThreadOnly /\ UNCHANGED <<rc, stopFlag>>

\* server.shutdown() sets the flag; its caller waits for the loop to end.
Disconnect(c, from, stop) ==
  /\ Move(c, from, IF stop THEN "stopping" ELSE "finishing")
  /\ stopFlag' = (stop \/ stopFlag)

\* Popen raises.  The finally clause then asks for proc.returncode, and proc
\* does not exist: unless exit_on_done decides first this raises once more.
SpawnFails(c) ==
  /\ Disconnect(c, "started", exitOnDone)
  /\ ThreadOnly /\ UNCHANGED rc

\* (mutant) sys.exit("100"): a text is not an exit code, and gives 1.
ProcessExitsWithText(c) ==
  /\ Move(c, "running", "exited")
  /\ \E code \in IF c \in asksExit THEN {0, 1} ELSE {0} :
        rc' = [rc EXCEPT ![c] = code]
  /\ ThreadOnly /\ UNCHANGED stopFlag

\* The process of a client that asks for it exits with 100, unless it ends
\* before; the others end with their clients, if ever.
ProcessExits(c) ==
  /\ Move(c, "running", "exited")
  /\ \E code \in IF c \in asksExit THEN {0, 100} ELSE {0} :
        rc' = [rc EXCEPT ![c] = code]
  /\ ThreadOnly /\ UNCHANGED stopFlag

\* (mutant) Any connection that ends stops the server.
ProcessWaitedCareless(c) ==
  /\ Disconnect(c, "exited", TRUE)
  /\ ThreadOnly /\ UNCHANGED rc

\* (mutant) The exit code is not looked at.
ProcessWaitedDeaf(c) ==
  /\ Disconnect(c, "exited", exitOnDone)
  /\ ThreadOnly /\ UNCHANGED rc

\* proc.wait() returns.
ProcessWaited(c) ==
  /\ Disconnect(c, "exited", exitOnDone \/ rc[c] = 100)
  /\ ThreadOnly /\ UNCHANGED rc

\* (mutant) shutdown() waits for the whole server, not for the loop.
ShutdownWaitsForEnd(c) ==
  /\ mpc = "ended"
  /\ Move(c, "stopping", "finishing")
  /\ ThreadOnly /\ UNCHANGED <<rc, stopFlag>>

\* shutdown() returns.
ShutdownReturns(c) ==
  /\ loopEnded
  /\ Move(c, "stopping", "finishing")
  /\ ThreadOnly /\ UNCHANGED <<rc, stopFlag>>

CloseRequest(c) ==
  /\ Move(c, "finishing", "closed")
  /\ ThreadOnly /\ UNCHANGED <<rc, stopFlag>>

Main == Ready \/ (\E c \in Conns : Accept(c)) \/ LeaveLoop \/ CloseListener
        \/ JoinThreads
Thread(c) == Spawn(c) \/ SpawnFails(c) \/ ProcessWaited(c) \/ ShutdownReturns(c)
             \/ CloseRequest(c)

Terminated == mpc = "ended" /\ UNCHANGED vars

Next == \/ Main \/ Interrupt \/ Terminated
        \/ \E c \in Conns : Connect(c) \/ Thread(c) \/ ProcessExits(c)

\* The threads are scheduled, and a process that was asked to exit does so;
\* nothing makes another client, or the keyboard, do anything.
Fairness == /\ WF_vars(Main)
            /\ \A c \in Conns : /\ WF_vars(Thread(c))
                                /\ WF_vars(c \in asksExit /\ ProcessExits(c))

Spec == Init /\ [][Next]_vars
FairSpec == Spec /\ Fairness

-----------------------------------------------------------------------------
(* Properties.                                                             *)

\* Every variable has its type.
TypeOK ==
  /\ exitOnDone \in BOOLEAN
  /\ conn \in [Conns -> Live \cup {"none", "backlog", "closed", "reset"}]
  /\ asksExit \subseteq Conns
  /\ rc \in [Conns -> {0, 100}]
  /\ mpc \in {"loop", "accept", "close", "join", "ended"}
  /\ listening \in BOOLEAN /\ stopFlag \in BOOLEAN /\ loopEnded \in BOOLEAN
  /\ interrupted \in BOOLEAN

\* When serve() returns, no handler process and no connection is left over,
\* though a thread may spawn its process after the loop has ended, and though
\* the flag may be raised between the test of it and an accept.
NothingLeftOver ==
  mpc = "ended" => /\ ~listening
                   /\ \A c \in Conns : conn[c] \in {"none", "closed", "reset"}

\* The server only stops for a reason: exit code 100, exit_on_done, or the
\* keyboard.  The end of any other game, or one that never started, is none.
StopsForAReason ==
  mpc \in {"close", "join", "ended"} =>
    \/ interrupted
    \/ \E c \in Conns : rc[c] = 100 /\ conn[c] \in {"stopping", "finishing", "closed"}
    \/ exitOnDone /\ \E c \in Conns : conn[c] \in {"stopping", "finishing", "closed"}

\* A client that has connected is served, or learns that it is not: no one
\* waits on a connection that is never accepted.
ServedOrReset ==
  \A c \in Conns : conn[c] = "backlog" ~> conn[c] # "backlog"

\* A thread that stops the server comes to its own end: the loop it waits for
\* does not in turn wait for it.
ShutdownEnds ==
  \A c \in Conns : conn[c] = "stopping" ~> conn[c] = "closed"

\* Exit code 100 stops the entire server, but only once the other games have
\* ended, for which nothing in the server provides.
ExitStopsServer ==
  (\A c \in Conns : []<>(conn[c] # "running")) =>
    ((\E c \in Conns : rc[c] = 100) ~> mpc = "ended")
=============================================================================
