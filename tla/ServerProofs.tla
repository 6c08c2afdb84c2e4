---------------------------- MODULE ServerProofs ----------------------------
(***************************************************************************)
(* Safety of SocketServer for any set of connections: typing, that nothing *)
(* is left over when serve() returns, and that it returns for a reason.    *)
(***************************************************************************)
EXTENDS SocketServer, TLAPS

\* Each step is one of the actions, spelled out for the case distinctions.
LEMMA Steps ==
  ASSUME Next
  PROVE  \/ Ready \/ LeaveLoop \/ CloseListener \/ JoinThreads \/ Interrupt
         \/ Terminated
         \/ \E c \in Conns : \/ Accept(c) \/ Connect(c) \/ Spawn(c) \/ SpawnFails(c)
                             \/ ProcessWaited(c) \/ ShutdownReturns(c)
                             \/ CloseRequest(c) \/ ProcessExits(c)
  BY DEF Next, Main, Thread

\* Every step keeps the types.
LEMMA TypeStep == TypeOK /\ [Next]_vars => TypeOK'
<1> SUFFICES ASSUME TypeOK, [Next]_vars PROVE TypeOK'
  OBVIOUS
<1> USE DEF TypeOK, Move, Live, ThreadOnly, Disconnect
<1>1. CASE Ready
  BY <1>1 DEF Ready
<1>2. CASE LeaveLoop
  BY <1>2 DEF LeaveLoop
<1>3. CASE CloseListener
  BY <1>3 DEF CloseListener
<1>4. CASE JoinThreads
  BY <1>4 DEF JoinThreads
<1>5. CASE Interrupt
  BY <1>5 DEF Interrupt
<1>6. CASE UNCHANGED vars
  BY <1>6 DEF vars
<1>7. ASSUME NEW c \in Conns, Accept(c) PROVE TypeOK'
  BY <1>7 DEF Accept
<1>8. ASSUME NEW c \in Conns, Connect(c) PROVE TypeOK'
  BY <1>8 DEF Connect
<1>9. ASSUME NEW c \in Conns, Spawn(c) PROVE TypeOK'
  BY <1>9 DEF Spawn
<1>10. ASSUME NEW c \in Conns, SpawnFails(c) PROVE TypeOK'
  BY <1>10 DEF SpawnFails
<1>11. ASSUME NEW c \in Conns, ProcessWaited(c) PROVE TypeOK'
  BY <1>11 DEF ProcessWaited
<1>12. ASSUME NEW c \in Conns, ShutdownReturns(c) PROVE TypeOK'
  BY <1>12 DEF ShutdownReturns
<1>13. ASSUME NEW c \in Conns, CloseRequest(c) PROVE TypeOK'
  BY <1>13 DEF CloseRequest
<1>14. ASSUME NEW c \in Conns, ProcessExits(c) PROVE TypeOK'
  BY <1>14 DEF ProcessExits
<1> QED
  BY <1>1, <1>2, <1>3, <1>4, <1>5, <1>6, <1>7, <1>8, <1>9, <1>10, <1>11,
     <1>12, <1>13, <1>14, Steps DEF Terminated

\* Every variable of the server keeps its type in every behaviour.
THEOREM ServerTyping == Spec => []TypeOK
<1>1. Init => TypeOK
  BY DEF Init, TypeOK, Live
<1> QED
  BY <1>1, TypeStep, PTL DEF Spec

-----------------------------------------------------------------------------
\* From the closing of the listener on nothing waits to be accepted, and once
\* the threads are joined none is alive.
ClosedForGood ==
  /\ mpc \in {"join", "ended"} => ~listening /\ \A c \in Conns : conn[c] # "backlog"
  /\ mpc = "ended" => \A c \in Conns : conn[c] \notin Live

\* A thread that moves on leaves the other connections as they are.
LEMMA OneMoves ==
  ASSUME TypeOK, NEW c \in Conns, NEW from, NEW to, Move(c, from, to)
  PROVE  /\ conn[c] = from /\ conn'[c] = to
         /\ \A d \in Conns \ {c} : conn'[d] = conn[d]
  BY DEF TypeOK, Move

\* The listening socket stays closed.
LEMMA ClosedStep == TypeOK /\ ClosedForGood /\ [Next]_vars => ClosedForGood'
<1> SUFFICES ASSUME TypeOK, ClosedForGood, [Next]_vars PROVE ClosedForGood'
  OBVIOUS
<1> USE DEF ClosedForGood
<1>1. CASE Ready
  BY <1>1 DEF Ready
<1>2. CASE LeaveLoop
  BY <1>2 DEF LeaveLoop
<1>3. CASE CloseListener
  BY <1>3 DEF CloseListener, TypeOK
<1>4. CASE JoinThreads
  BY <1>4 DEF JoinThreads
<1>5. CASE Interrupt
  BY <1>5 DEF Interrupt
<1>6. CASE UNCHANGED vars
  BY <1>6 DEF vars
<1>7. ASSUME NEW c \in Conns, Accept(c) PROVE ClosedForGood'
  BY <1>7 DEF Accept
<1>8. ASSUME NEW c \in Conns, Connect(c) PROVE ClosedForGood'
  <2>1. CASE listening
    BY <1>8, <2>1 DEF Connect
  <2>2. CASE ~listening
    BY <1>8, <2>2, OneMoves DEF Connect, Live
  <2> QED
    BY <2>1, <2>2
<1>9. ASSUME NEW c \in Conns, Spawn(c) PROVE ClosedForGood'
  BY <1>9, OneMoves DEF Spawn, ThreadOnly, Live
<1>10. ASSUME NEW c \in Conns, SpawnFails(c) PROVE ClosedForGood'
  BY <1>10, OneMoves DEF SpawnFails, Disconnect, ThreadOnly, Live
<1>11. ASSUME NEW c \in Conns, ProcessWaited(c) PROVE ClosedForGood'
  BY <1>11, OneMoves DEF ProcessWaited, Disconnect, ThreadOnly, Live
<1>12. ASSUME NEW c \in Conns, ShutdownReturns(c) PROVE ClosedForGood'
  BY <1>12, OneMoves DEF ShutdownReturns, ThreadOnly, Live
<1>13. ASSUME NEW c \in Conns, CloseRequest(c) PROVE ClosedForGood'
  BY <1>13, OneMoves DEF CloseRequest, ThreadOnly, Live
<1>14. ASSUME NEW c \in Conns, ProcessExits(c) PROVE ClosedForGood'
  BY <1>14, OneMoves DEF ProcessExits, ThreadOnly, Live
<1> QED
  BY <1>1, <1>2, <1>3, <1>4, <1>5, <1>6, <1>7, <1>8, <1>9, <1>10, <1>11,
     <1>12, <1>13, <1>14, Steps DEF Terminated

\* When serve() has returned, no process and no open connection is left,
\* whatever the threads did between the end of the loop and the join.
THEOREM NothingStays == Spec => []NothingLeftOver
<1>1. Init => ClosedForGood
  BY DEF Init, ClosedForGood
<1>2. TypeOK /\ ClosedForGood => NothingLeftOver
  BY DEF TypeOK, ClosedForGood, NothingLeftOver, Live
<1> QED
  BY <1>1, <1>2, ClosedStep, ServerTyping, PTL DEF Spec

-----------------------------------------------------------------------------
\* A connection asked the server to stop and its thread was the one to do so.
Asked(c) == /\ conn[c] \in {"stopping", "finishing", "closed"}
            /\ exitOnDone \/ rc[c] = 100

\* The flag is only raised, and the loop only left, for a reason.
Reasonable ==
  stopFlag \/ mpc \in {"close", "join", "ended"} =>
    interrupted \/ \E c \in Conns : Asked(c)

\* A connection that has asked keeps having asked.
LEMMA AskedStays ==
  ASSUME TypeOK, [Next]_vars, NEW d \in Conns, Asked(d)
  PROVE  Asked(d)'
<1> USE DEF Asked
<1>1. CASE UNCHANGED <<conn, exitOnDone, rc>>
  BY <1>1
<1>2. CASE CloseListener
  BY <1>2 DEF CloseListener, TypeOK
<1>3. ASSUME NEW c \in Conns,
             Accept(c) \/ Connect(c) \/ Spawn(c) \/ SpawnFails(c) \/ ProcessWaited(c)
      PROVE  Asked(d)'
  <2>1. /\ UNCHANGED <<exitOnDone, rc>>
        /\ \E from \in {"backlog", "none", "started", "exited"} :
              \E to : Move(c, from, to)
    BY <1>3 DEF Accept, Connect, Spawn, SpawnFails, ProcessWaited, Disconnect,
                ThreadOnly
  <2>2. c # d
    BY <2>1, OneMoves
  <2> QED
    BY <2>1, <2>2, OneMoves
<1>4. ASSUME NEW c \in Conns, ShutdownReturns(c) PROVE Asked(d)'
  BY <1>4, OneMoves DEF ShutdownReturns, ThreadOnly
<1>5. ASSUME NEW c \in Conns, CloseRequest(c) PROVE Asked(d)'
  BY <1>5, OneMoves DEF CloseRequest, ThreadOnly
<1>6. ASSUME NEW c \in Conns, ProcessExits(c) PROVE Asked(d)'
  <2>1. c # d
    BY <1>6, OneMoves DEF ProcessExits
  <2>2. rc'[d] = rc[d] /\ conn'[d] = conn[d] /\ exitOnDone' = exitOnDone
    BY <1>6, <2>1, OneMoves DEF ProcessExits, ThreadOnly, TypeOK
  <2> QED
    BY <2>2
<1>7. ASSUME Ready \/ LeaveLoop \/ JoinThreads \/ Interrupt \/ Terminated
             \/ UNCHANGED vars
      PROVE  UNCHANGED <<conn, exitOnDone, rc>>
  BY <1>7 DEF Ready, LeaveLoop, JoinThreads, Interrupt, Terminated, vars
<1> HIDE DEF Asked
<1> QED
  BY <1>1, <1>2, <1>3, <1>4, <1>5, <1>6, <1>7, Steps

\* A reason stays one.
LEMMA ReasonStep == TypeOK /\ Reasonable /\ [Next]_vars => Reasonable'
<1> SUFFICES ASSUME TypeOK, Reasonable, [Next]_vars PROVE Reasonable'
  OBVIOUS
<1>1. ASSUME interrupted \/ \E c \in Conns : Asked(c) PROVE Reasonable'
  <2>1. CASE interrupted
    <3>1. interrupted'
      BY <2>1, Steps
         DEF Ready, LeaveLoop, JoinThreads, Interrupt, Terminated, vars,
             CloseListener, Accept, Connect, Spawn, SpawnFails, ProcessWaited,
             ShutdownReturns, CloseRequest, ProcessExits, ThreadOnly
    <3> QED
      BY <3>1 DEF Reasonable
  <2>2. CASE \E c \in Conns : Asked(c)
    BY <2>2, AskedStays DEF Reasonable
  <2> QED
    BY <1>1, <2>1, <2>2
<1>2. CASE ~stopFlag /\ mpc \notin {"close", "join", "ended"}
  <2>1. CASE UNCHANGED stopFlag /\ mpc' \in {mpc, "loop", "accept"}
    BY <1>2, <2>1 DEF Reasonable
  <2>2. CASE Interrupt
    BY <2>2 DEF Interrupt, Reasonable
  <2>3. ASSUME NEW c \in Conns, SpawnFails(c) \/ ProcessWaited(c) PROVE Reasonable'
    <3>1. CASE UNCHANGED stopFlag
      BY <1>2, <2>3, <3>1
         DEF Reasonable, SpawnFails, ProcessWaited, Disconnect, ThreadOnly
    <3>2. CASE stopFlag' # stopFlag
      <4>1. UNCHANGED <<rc, exitOnDone>> /\ (exitOnDone \/ rc[c] = 100)
        BY <1>2, <2>3, <3>2 DEF SpawnFails, ProcessWaited, Disconnect, ThreadOnly, TypeOK
      <4>2. conn'[c] = "stopping"
        BY <1>2, <2>3, <3>2, OneMoves DEF SpawnFails, ProcessWaited, Disconnect, TypeOK
      <4>3. Asked(c)'
        BY <4>1, <4>2 DEF Asked
      <4> QED
        BY <4>3 DEF Reasonable
    <3> QED
      BY <3>1, <3>2
  <2> QED
    BY <1>2, <2>1, <2>2, <2>3, Steps
       DEF Ready, LeaveLoop, JoinThreads, Terminated, vars, CloseListener, Accept,
           Connect, Spawn, ShutdownReturns, CloseRequest, ProcessExits, ThreadOnly
<1> QED
  BY <1>1, <1>2 DEF Reasonable

\* The server stops for exit code 100, for exit_on_done or for the keyboard, and
\* never because some other game has ended or has failed to start.
THEOREM StopsOnlyForAReason == Spec => []StopsForAReason
<1>1. Init => Reasonable
  BY DEF Init, Reasonable
<1>2. Reasonable => StopsForAReason
  BY DEF Reasonable, StopsForAReason, Asked
<1> QED
  BY <1>1, <1>2, ReasonStep, ServerTyping, PTL DEF Spec
=============================================================================
