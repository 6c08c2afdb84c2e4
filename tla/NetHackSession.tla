--------------------------- MODULE NetHackSession ---------------------------
(***************************************************************************)
(* One connection between the Java client and its Python handler process.  *)
(*                                                                         *)
(* The client side is SocketClient driven by agent/App.java (and, for the  *)
(* role "exit", by the teardown of NetHackTest): it writes requests, and   *)
(* for some of them blocks until the reply has been decoded.  The server   *)
(* side is handler.py, a process of its own that owns the socket's file    *)
(* descriptor and at most one NLE environment; the thread of server.py     *)
(* that spawned it closes the socket after the process has exited.         *)
(*                                                                         *)
(* Both directions of the socket are FIFO.  A request is a record [op,     *)
(* arg]: arg is the number of commands of a Step, and 0 otherwise.  A      *)
(* reply is a record [tag, ok]: for "Obs" ok says that the decoder of the  *)
(* client can represent the length of the message, for "Step" it is the    *)
(* done flag.                                                              *)
(***************************************************************************)
EXTENDS Integers, Sequences

CONSTANTS
  Chains,      \* lengths of the command lists the client may send in one Step
  ByteRange,   \* number of values of the byte that carries the length (256)
  MaxPending   \* the main loop repeats a Render only below this backlog

ASSUME SessionAssumption ==
  /\ ByteRange \in Nat \ {0}
  /\ Chains \subseteq 1..ByteRange
  /\ MaxPending \in Nat

VARIABLES
  cfg,     \* config.properties as the run reads it: [coverage, restart]
  cpc,     \* where the client is
  got,     \* the client has decoded the observation half of a StepState
  done,    \* gameState.done
  cOpen,   \* the client's end of the socket is open
  c2s,     \* requests written and not yet read by the handler
  s2c,     \* replies written and not yet decoded by the client
  sOpen,   \* the server's end of the socket is open
  hpc,     \* where the handler process is
  env,     \* the handler's variable env: its NLE environment
  fresh,   \* the environment handle_reset is building, "none" outside it
  left,    \* commands of the current Step still to be executed
  hdone,   \* the local variable done of handle_steps, "unset" for None
  rc,      \* exit code of the handler process
  fault    \* why the handler left its loop by an exception ("none": it did not)

clientVars  == <<cfg, cpc, got, done, cOpen>>
handlerVars == <<hpc, env, fresh, left, hdone, rc, fault>>
vars == <<clientVars, c2s, s2c, sOpen, handlerVars>>

Ops   == {"Reset", "GetSeed", "Render", "Close", "Step", "SaveCoverage",
          "ResetCoverage", "Exit"}
Games == {"none", "running", "over", "closed"}
Faults == {"none", "absent", "finished", "noobs", "toolong", "reset", "pipe"}

\* The tags of the reply a request is answered with.
Reply(op) == CASE op \in {"Reset", "Step"}                 -> <<"Obs", "Step">>
               [] op = "GetSeed"                           -> <<"Seed">>
               [] op \in {"SaveCoverage", "ResetCoverage"} -> <<"Null">>
               [] OTHER                                    -> <<>>

\* The tags the client still has to decode before the call it is in returns.
Expected == CASE cpc \in {"reset", "step"} /\ ~got   -> <<"Obs", "Step">>
              [] cpc \in {"reset", "step"} /\ got    -> <<"Step">>
              [] cpc \in {"seed", "stepSeed"}        -> <<"Seed">>
              [] cpc \in {"resetCov", "saveCov"}     -> <<"Null">>
              [] OTHER                               -> <<>>
Awaiting == cpc \in {"reset", "step", "seed", "stepSeed", "resetCov", "saveCov"}

Init ==
  /\ cfg \in [coverage : BOOLEAN, restart : BOOLEAN]
  /\ cpc \in {"idle", "exit"}
  /\ got = FALSE /\ done = FALSE /\ cOpen = TRUE
  /\ c2s = <<>> /\ s2c = <<>> /\ sOpen = TRUE
  /\ hpc = "read" /\ env = "none" /\ fresh = "none"
  /\ left = 0 /\ hdone = "unset" /\ rc = 0 /\ fault = "none"

-----------------------------------------------------------------------------
(* The client: requests.                                                   *)

Send(op, arg) == c2s' = Append(c2s, [op |-> op, arg |-> arg])

\* runAgent begins: with COLLECT_COVERAGE the server's coverage is reset first.
StartRun ==
  /\ cpc = "idle" /\ cfg.coverage
  /\ Send("ResetCoverage", 0)
  /\ cpc' = "resetCov"
  /\ UNCHANGED <<cfg, got, done, cOpen, s2c, sOpen, handlerVars>>

\* (mutant) The GameState of the last run is used again.
NewGameKeepsState ==
  /\ cpc = "create" \/ (cpc = "idle" /\ ~cfg.coverage)
  /\ Send("Reset", 0)
  /\ cpc' = "reset" /\ got' = FALSE
  /\ UNCHANGED <<cfg, done, cOpen, s2c, sOpen, handlerVars>>

\* The constructor of NetHack: a new GameState and a Reset.
NewGame ==
  /\ cpc = "create" \/ (cpc = "idle" /\ ~cfg.coverage)
  /\ Send("Reset", 0)
  /\ cpc' = "reset" /\ got' = FALSE /\ done' = FALSE
  /\ UNCHANGED <<cfg, cOpen, s2c, sOpen, handlerVars>>

\* NetHack.stepServerSideCommand: one Step request for the whole list.
TakeTurn ==
  /\ cpc = "play" /\ ~done
  /\ \E n \in Chains : Send("Step", n)
  /\ cpc' = "step" /\ got' = FALSE
  /\ UNCHANGED <<cfg, done, cOpen, s2c, sOpen, handlerVars>>

\* The client-side command that shows the seed, alone or in a list: those of
\* a list come after its server-side commands, ended game or not.
ShowSeed ==
  /\ cpc = "show" \/ (cpc = "play" /\ ~done)
  /\ Send("GetSeed", 0)
  /\ cpc' = IF cpc = "show" THEN "stepSeed" ELSE "seed"
  /\ UNCHANGED <<cfg, got, done, cOpen, s2c, sOpen, handlerVars>>

\* Rendering after a reset or a step, and an iteration of the main loop in
\* which the agent takes no step but the screen is rendered all the same.
Render ==
  /\ cpc = "render" \/ (cpc = "play" /\ ~done /\ Len(c2s) < MaxPending)
  /\ Send("Render", 0)
  /\ cpc' = "play"
  /\ UNCHANGED <<cfg, got, done, cOpen, s2c, sOpen, handlerVars>>

\* The agent loop is left: the game is done, or the goal is no longer open.
FinalRender ==
  /\ cpc = "play"
  /\ Send("Render", 0)
  /\ cpc' = "leave"
  /\ UNCHANGED <<cfg, got, done, cOpen, s2c, sOpen, handlerVars>>

\* (mutant) runAgent ends without closing the game.
NoCloseGame ==
  /\ cpc \in {"play", "leave"}
  /\ cpc' = "closing"
  /\ UNCHANGED <<cfg, got, done, cOpen, c2s, s2c, sOpen, handlerVars>>

\* nethack.close(), directly from the loop when the fast-forward is stuck.
CloseGame ==
  /\ cpc \in {"play", "leave"}
  /\ Send("Close", 0)
  /\ cpc' = "closing"
  /\ UNCHANGED <<cfg, got, done, cOpen, s2c, sOpen, handlerVars>>

SaveCoverage ==
  /\ cpc = "closing" /\ cfg.coverage
  /\ Send("SaveCoverage", 0)
  /\ cpc' = "saveCov"
  /\ UNCHANGED <<cfg, got, done, cOpen, s2c, sOpen, handlerVars>>

\* The end of runAgent: run again, or close the socket.
EndRun ==
  /\ cpc = "ended" \/ (cpc = "closing" /\ ~cfg.coverage)
  /\ cpc' = IF cfg.restart THEN "idle" ELSE "closed"
  /\ cOpen' = cfg.restart
  /\ UNCHANGED <<cfg, got, done, c2s, s2c, sOpen, handlerVars>>

\* NetHackTest.teardown: a connection made only to stop the server.
SendExitServer ==
  /\ cpc = "exit"
  /\ Send("Exit", 0)
  /\ cpc' = "closed" /\ cOpen' = FALSE
  /\ UNCHANGED <<cfg, got, done, s2c, sOpen, handlerVars>>

\* The client process ends early: an LTL assertion fails, a test closes its
\* socket without closing its game, a write fails, or the process is killed.
Abort ==
  /\ cOpen
  /\ cpc' = "crashed" /\ cOpen' = FALSE
  /\ UNCHANGED <<cfg, got, done, c2s, s2c, sOpen, handlerVars>>

(* The client: replies.                                                    *)

Arrived(tag) == s2c # <<>> /\ Head(s2c).tag = tag

\* (mutant) readStepState does not decode the StepMessage.
ReadObsOnly ==
  /\ cpc \in {"reset", "step"} /\ ~got /\ Arrived("Obs")
  /\ s2c' = Tail(s2c)
  /\ cpc' = "render"
  /\ UNCHANGED <<cfg, got, done, cOpen, c2s, sOpen, handlerVars>>

\* ObservationMessageDecoder.decode.  The length of the message is read as a
\* signed byte: from 128 on it is negative and the decoder throws.
ReadObs ==
  /\ cpc \in {"reset", "step"} /\ ~got /\ Arrived("Obs")
  /\ s2c' = Tail(s2c)
  /\ IF Head(s2c).ok
     THEN got' = TRUE /\ UNCHANGED <<cpc, cOpen>>
     ELSE cpc' = "crashed" /\ cOpen' = FALSE /\ UNCHANGED got
  /\ UNCHANGED <<cfg, done, c2s, sOpen, handlerVars>>

\* StepMessageDecoder.decode and updateGameState.  A reset renders next; a step
\* does so in the loops, not in the fast-forward and the replay, and the list
\* of commands it was a part of may still hold the one that shows the seed.
ReadStep ==
  /\ cpc \in {"reset", "step"} /\ got /\ Arrived("Step")
  /\ s2c' = Tail(s2c)
  /\ done' = Head(s2c).ok
  /\ cpc' \in IF cpc = "reset" THEN {"render"} ELSE {"play", "render", "show"}
  /\ UNCHANGED <<cfg, got, cOpen, c2s, sOpen, handlerVars>>

ReadSeed ==
  /\ cpc \in {"seed", "stepSeed"} /\ Arrived("Seed")
  /\ s2c' = Tail(s2c)
  /\ cpc' = IF cpc = "seed" THEN "play" ELSE "render"
  /\ UNCHANGED <<cfg, got, done, cOpen, c2s, sOpen, handlerVars>>

ReadNullByte ==
  /\ cpc \in {"resetCov", "saveCov"} /\ Arrived("Null")
  /\ s2c' = Tail(s2c)
  /\ cpc' = IF cpc = "resetCov" THEN "create" ELSE "ended"
  /\ UNCHANGED <<cfg, got, done, cOpen, c2s, sOpen, handlerVars>>

\* The server's end is closed and everything it wrote has been read.
ReadEOF ==
  /\ Awaiting /\ s2c = <<>> /\ ~sOpen
  /\ cpc' = "crashed" /\ cOpen' = FALSE
  /\ UNCHANGED <<cfg, got, done, c2s, s2c, sOpen, handlerVars>>

ClientRead == ReadObs \/ ReadStep \/ ReadSeed \/ ReadNullByte \/ ReadEOF
Client == \/ StartRun \/ NewGame \/ TakeTurn \/ ShowSeed \/ Render
          \/ FinalRender \/ CloseGame \/ SaveCoverage \/ EndRun
          \/ SendExitServer \/ Abort \/ ClientRead

-----------------------------------------------------------------------------
(* The handler process.                                                    *)

Receive(op) ==
  /\ hpc = "read" /\ c2s # <<>> /\ Head(c2s).op = op
  /\ c2s' = Tail(c2s)
  /\ UNCHANGED <<clientVars, sOpen>>

Write(tag, ok) == s2c' = Append(s2c, [tag |-> tag, ok |-> ok])

\* An exception leaves the loop; an environment under construction is dropped.
Raise(cause) ==
  /\ hpc' = "finally" /\ fault' = cause /\ fresh' = "none"
  /\ UNCHANGED <<env, left, hdone, rc>>

\* The game that step and write_obs work on.
Game == IF fresh # "none" THEN fresh ELSE env

\* handle_reset up to env.reset(): the new game is not yet in env.
HandleReset ==
  /\ Receive("Reset")
  /\ hpc' = "obs" /\ fresh' = "running" /\ hdone' = "no"
  /\ UNCHANGED <<s2c, env, left, rc, fault>>

\* gym.make, int(core) or env.reset() raises.
ResetFails ==
  /\ Receive("Reset")
  /\ Raise("reset")
  /\ UNCHANGED s2c

HandleGetSeed ==
  /\ Receive("GetSeed")
  /\ IF env \in {"running", "over"}
     THEN hpc' = "seedOut" /\ UNCHANGED <<env, fresh, left, hdone, rc, fault>>
     ELSE Raise("absent")
  /\ UNCHANGED s2c

\* (mutant) write_seed does not flush its buffer.
WriteSeedUnflushed ==
  /\ hpc = "seedOut"
  /\ hpc' = "read"
  /\ UNCHANGED <<clientVars, c2s, s2c, sOpen, env, fresh, left, hdone, rc,
                 fault>>

WriteSeed ==
  /\ hpc = "seedOut"
  /\ Write("Seed", TRUE)
  /\ hpc' = "read"
  /\ UNCHANGED <<clientVars, c2s, sOpen, env, fresh, left, hdone, rc, fault>>

\* A closed environment still has its last observation to show.
HandleRender ==
  /\ Receive("Render")
  /\ IF env = "none" THEN Raise("absent") ELSE UNCHANGED handlerVars
  /\ UNCHANGED s2c

HandleClose ==
  /\ Receive("Close")
  /\ IF env = "none"
     THEN Raise("absent")
     ELSE env' = "closed" /\ UNCHANGED <<hpc, fresh, left, hdone, rc, fault>>
  /\ UNCHANGED s2c

\* read_step_commands: the number of commands travels in one byte.
HandleSteps ==
  /\ Receive("Step")
  /\ left' = Head(c2s).arg % ByteRange
  /\ hdone' = "unset" /\ hpc' = "cmds"
  /\ UNCHANGED <<s2c, env, fresh, rc, fault>>

\* (mutant) The loop of handle_steps runs once too often.
StepCommandPastEnd ==
  /\ hpc = "cmds"
  /\ IF env = "running"
     THEN /\ \E g \in {"running", "over"} :
                env' = g /\ hdone' = IF g = "over" THEN "yes" ELSE "no"
          /\ left' = left - 1
          /\ UNCHANGED <<hpc, fresh, rc, fault>>
     ELSE Raise(IF env = "over" THEN "finished" ELSE "absent")
  /\ UNCHANGED <<clientVars, c2s, s2c, sOpen>>

\* One iteration of the loop of handle_steps, which never looks at done.
StepCommand ==
  /\ hpc = "cmds" /\ left > 0
  /\ IF env = "running"
     THEN /\ \E g \in {"running", "over"} :
                env' = g /\ hdone' = IF g = "over" THEN "yes" ELSE "no"
          /\ left' = left - 1
          /\ UNCHANGED <<hpc, fresh, rc, fault>>
     ELSE Raise(IF env = "over" THEN "finished" ELSE "absent")
  /\ UNCHANGED <<clientVars, c2s, s2c, sOpen>>

\* The end of the loop: without any command there is no observation to write.
EndSteps ==
  /\ hpc = "cmds" /\ left = 0
  /\ IF hdone = "unset"
     THEN Raise("noobs")
     ELSE hpc' = "obs" /\ UNCHANGED <<env, fresh, left, hdone, rc, fault>>
  /\ UNCHANGED <<clientVars, c2s, s2c, sOpen>>

\* concat_all_messages: while there is a message, one more command dismisses
\* it.  Its done ends this loop and goes no further.
DismissMessage ==
  /\ hpc = "obs"
  /\ IF Game = "running"
     THEN /\ \E g \in {"running", "over"} :
               /\ IF fresh # "none" THEN fresh' = g /\ UNCHANGED env
                                    ELSE env' = g /\ UNCHANGED fresh
               /\ hpc' = IF g = "over" THEN "obsOut" ELSE "obs"
          /\ UNCHANGED <<left, hdone, rc, fault>>
     ELSE Raise("finished")
  /\ UNCHANGED <<clientVars, c2s, s2c, sOpen>>

\* write_obs, once the screen shows no message that can be dismissed.
WriteObs ==
  /\ hpc \in {"obs", "obsOut"}
  /\ \E ok \in BOOLEAN : Write("Obs", ok)
  /\ hpc' = "stepOut"
  /\ UNCHANGED <<clientVars, c2s, sOpen, env, fresh, left, hdone, rc, fault>>

\* write_str raises: the joined message has more than 255 characters.
MessageTooLong ==
  /\ hpc \in {"obs", "obsOut"}
  /\ Raise("toolong")
  /\ UNCHANGED <<clientVars, c2s, s2c, sOpen>>

\* (mutant) handle_reset does not return the environment.
WriteStepForgetsEnv ==
  /\ hpc = "stepOut"
  /\ Write("Step", hdone = "yes")
  /\ hpc' = "read" /\ fresh' = "none"
  /\ UNCHANGED <<clientVars, c2s, sOpen, env, left, hdone, rc, fault>>

\* write_step; handle_reset then returns the environment to the loop.
WriteStep ==
  /\ hpc = "stepOut"
  /\ Write("Step", hdone = "yes")
  /\ hpc' = "read" /\ fresh' = "none"
  /\ env' = IF fresh # "none" THEN fresh ELSE env
  /\ UNCHANGED <<clientVars, c2s, sOpen, left, hdone, rc, fault>>

\* (mutant) The null byte is written before the script has run, and after it.
CoverageAnswersTwice ==
  /\ Receive("SaveCoverage") \/ Receive("ResetCoverage")
  /\ hpc' = "script"
  /\ Write("Null", TRUE)
  /\ UNCHANGED <<env, fresh, left, hdone, rc, fault>>

HandleCoverage ==
  /\ Receive("SaveCoverage") \/ Receive("ResetCoverage")
  /\ hpc' = "script"
  /\ UNCHANGED <<s2c, env, fresh, left, hdone, rc, fault>>

\* The coverage script has ended.
WriteNullByte ==
  /\ hpc = "script"
  /\ Write("Null", TRUE)
  /\ hpc' = "read"
  /\ UNCHANGED <<clientVars, c2s, sOpen, env, fresh, left, hdone, rc, fault>>

HandleExit ==
  /\ Receive("Exit")
  /\ env' = IF env = "none" THEN "none" ELSE "closed"
  /\ hpc' = "finally" /\ rc' = 100
  /\ UNCHANGED <<s2c, fresh, left, hdone, fault>>

\* (mutant) read_byte takes the end of the stream for a byte still to come.
EndOfStreamRetried ==
  /\ hpc = "read" /\ c2s = <<>> /\ ~cOpen
  /\ UNCHANGED vars

\* read_byte or read_short meets the end of the stream: ProtoException.
EndOfStream ==
  /\ hpc = "read" /\ c2s = <<>> /\ ~cOpen
  /\ hpc' = "finally"
  /\ UNCHANGED <<clientVars, c2s, s2c, sOpen, env, fresh, left, hdone, rc, fault>>

\* The peer is gone: a write fails, or a read after data it never read.
ConnectionLost ==
  /\ ~cOpen
  /\ \/ hpc \in {"obs", "obsOut", "stepOut", "seedOut", "script"}
     \/ hpc = "read" /\ s2c # <<>>
  /\ Raise("pipe")
  /\ UNCHANGED <<clientVars, c2s, s2c, sOpen>>

\* The finally clause of handle, and the end of the process.
Finally ==
  /\ hpc = "finally"
  /\ env' = IF env = "none" THEN "none" ELSE "closed"
  /\ hpc' = "exited"
  /\ UNCHANGED <<clientVars, c2s, s2c, sOpen, fresh, left, hdone, rc, fault>>

Handler == \/ HandleReset \/ ResetFails \/ HandleGetSeed
           \/ WriteSeed \/ HandleRender \/ HandleClose \/ HandleSteps
           \/ StepCommand \/ EndSteps \/ DismissMessage \/ WriteObs
           \/ MessageTooLong \/ WriteStep \/ HandleCoverage \/ WriteNullByte
           \/ HandleExit \/ EndOfStream \/ ConnectionLost \/ Finally

\* The thread of server.py: proc.wait() returns and the request is closed.
Reap ==
  /\ hpc = "exited" /\ sOpen
  /\ sOpen' = FALSE
  /\ UNCHANGED <<clientVars, c2s, s2c, handlerVars>>

\* Both processes have ended.
Terminated ==
  /\ ~cOpen /\ ~sOpen
  /\ UNCHANGED vars

Next == Client \/ Handler \/ Reap \/ Terminated

\* Each process is scheduled; a script ends; a game shows finitely many
\* messages in a row, so the loop that dismisses them ends in a write.
Fairness == /\ WF_vars(ClientRead) /\ WF_vars(Handler) /\ WF_vars(Reap)
            /\ WF_vars(WriteObs)

Spec == Init /\ [][Next]_vars
FairSpec == Spec /\ Fairness

-----------------------------------------------------------------------------
(* Properties.                                                             *)

Tags     == {"Obs", "Step", "Seed", "Null"}
Requests == [op : Ops, arg : 0..ByteRange]
Replies  == [tag : Tags, ok : BOOLEAN]

FlagsOK ==
  got \in BOOLEAN /\ done \in BOOLEAN /\ cOpen \in BOOLEAN /\ sOpen \in BOOLEAN

DataOK ==
  /\ cfg \in [coverage : BOOLEAN, restart : BOOLEAN]
  /\ cpc \in {"idle", "exit", "resetCov", "create", "reset", "play", "render",
              "step", "seed", "show", "stepSeed", "leave", "closing",
              "saveCov", "ended", "closed", "crashed"}
  /\ c2s \in Seq(Requests) /\ s2c \in Seq(Replies)
  /\ hpc \in {"read", "cmds", "obs", "obsOut", "stepOut", "seedOut",
              "script", "finally", "exited"}
  /\ env \in Games /\ fresh \in {"none", "running", "over"}
  /\ left \in 0..(ByteRange - 1) /\ hdone \in {"unset", "no", "yes"}
  /\ rc \in {0, 100} /\ fault \in Faults

\* Every variable has its type, for the whole life of the connection: what is
\* in flight can be read by the other end, and the counter fits its byte.
TypeOK == DataOK /\ FlagsOK

\* The tags the handler still has to write for the request it works on.
Owed == CASE hpc \in {"cmds", "obs", "obsOut"} -> <<"Obs", "Step">>
          [] hpc = "stepOut"                           -> <<"Step">>
          [] hpc = "seedOut"                           -> <<"Seed">>
          [] hpc = "script"                            -> <<"Null">>
          [] OTHER                                     -> <<>>

Stopped == hpc \in {"finally", "exited"}

\* What has arrived is the beginning of what the client expects.
Foreseen(replies, expected) ==
  \A i \in 1..Len(replies) : i <= Len(expected) /\ replies[i].tag = expected[i]

\* Only the last request may be a call; it is then yet unread and nothing is in
\* flight, or else what has arrived and what is owed is what is expected.
Matched(requests, replies, owed, expected) ==
  /\ \A i \in 1..(Len(requests) - 1) : Reply(requests[i].op) = <<>>
  /\ IF requests # <<>> /\ Reply(requests[Len(requests)].op) # <<>>
     THEN /\ replies = <<>> /\ owed = <<>>
          /\ Reply(requests[Len(requests)].op) = expected
     ELSE /\ Len(replies) + Len(owed) = Len(expected)
          /\ \A i \in 1..Len(owed) : owed[i] = expected[Len(replies) + i]

\* No reply is ever waited for twice, lost, or taken for another: as long as
\* both ends live, what has arrived and what the handler has still to write is
\* exactly what the client has still to decode.  What a handler that has
\* stopped left behind is the beginning of what the client expects.
\* (SocketClient.readStepState and its like decode what comes, whatever it is.)
RepliesInStep ==
  cOpen => /\ Foreseen(s2c, Expected)
           /\ Stopped \/ Matched(c2s, s2c, Owed, Expected)

\* No request reaches a handler that has no game for it: handler.py calls
\* render, close, step and get_seeds on env without looking whether it is one.
NoOrphanRequest == fault # "absent"

\* A client that has been told that its game is over talks to a handler whose
\* game is over: done never survives into the next game (the run loop of
\* agent/App.java keeps the connection and makes a new GameState).
DoneIsTrue == done => env \in {"over", "closed"}

\* A game is never dropped while it runs: handle_reset only replaces an env
\* that is not there or has been closed, also when App runs again.
NoGameLeaked ==
  [][env' # env /\ fresh # "none" => env \in {"none", "closed"}]_vars

\* A remote call comes back, with its answer or with an exception.
CallReturns == Awaiting ~> ~Awaiting

\* (refuted) A client that has taken over the state of a game that has ended
\* knows it: done is True if the state is terminal.  The message that announces
\* the end is dismissed by concat_all_messages, which keeps done to itself.
EndIsReported ==
  cOpen /\ cpc \in {"play", "render", "show"} /\ env = "over" => done

\* A client that has left, in whatever state, is noticed: its handler ends and
\* the server closes the socket.
HandlerEnds == ~cOpen ~> ~sOpen

\* NetHackSession implements RemoteCall: the kind of a request is the first
\* tag of its reply; it is executed when the last tag is written.
Kind(op) == IF Reply(op) = <<>> THEN "Post" ELSE Head(Reply(op))
Busy == CASE Owed = <<>>   -> <<>>
          [] Owed = <<"Step">> -> <<"Obs">>
          [] OTHER         -> <<Head(Owed)>>
Kinds == [i \in 1..Len(c2s) |-> Kind(c2s[i].op)]

\* The call the client is in, what is not yet executed, and the call whose
\* answer has been written to its end.
WaitingFor ==
  IF ~cOpen THEN "gone"
  ELSE CASE cpc \in {"reset", "step"}       -> "Obs"
         [] cpc \in {"seed", "stepSeed"}    -> "Seed"
         [] cpc \in {"resetCov", "saveCov"} -> "Null"
         [] OTHER                           -> "no"
ToDo == IF Stopped THEN <<>> ELSE Busy \o Kinds
Ready == IF s2c = <<>> \/ s2c[Len(s2c)].tag = "Obs" THEN "no"
         ELSE IF s2c[Len(s2c)].tag = "Step" THEN "Obs"
         ELSE s2c[Len(s2c)].tag

Promise == INSTANCE RemoteCall WITH
  Calls   <- {"Obs", "Seed", "Null"},
  OneWay  <- "Post",
  waiting <- WaitingFor,
  todo    <- ToDo,
  answer  <- Ready,
  serving <- ~Stopped
ImplementsRemoteCall == Promise!Spec
=============================================================================
