--------------------------- MODULE SessionProofs ---------------------------
(***************************************************************************)
(* Proofs about NetHackSession, for every set of chain lengths, width of   *)
(* the length byte and bound on the backlog.                                *)
(***************************************************************************)
EXTENDS NetHackSession, SequenceTheorems, TLAPS

\* The lists the handler is sent fit its counter.
LEMMA RequestTypes ==
  /\ 0 \in 0..ByteRange /\ 1 \in 0..ByteRange
  /\ Chains \subseteq 0..ByteRange
  /\ \A n \in 0..ByteRange : n % ByteRange \in 0..(ByteRange - 1)
  /\ 0 \in 0..(ByteRange - 1)
  BY SessionAssumption, SMT DEF SessionAssumption

\* A request that is sent keeps the type of the queue.
LEMMA SendTypes ==
  ASSUME DataOK, NEW op \in Ops, NEW arg \in 0..ByteRange, Send(op, arg)
  PROVE  c2s' \in Seq(Requests)
  BY DEF DataOK, Send, Requests

\* The tail of a queue that is not empty has the type of the queue.
LEMMA TailTypes ==
  ASSUME DataOK
  PROVE  /\ c2s # <<>> => Tail(c2s) \in Seq(Requests) /\ Head(c2s) \in Requests
         /\ s2c # <<>> => Tail(s2c) \in Seq(Replies) /\ Head(s2c) \in Replies
  BY DEF DataOK

\* What the handler writes is a reply.
LEMMA ReplyTypes ==
  ASSUME NEW tag \in Tags, NEW ok \in BOOLEAN
  PROVE  [tag |-> tag, ok |-> ok] \in Replies
  BY DEF Replies

\* The handler changes nothing of the client, nor its end of the socket.
LEMMA HandlerAlone ==
  ASSUME Handler
  PROVE  UNCHANGED <<clientVars, sOpen>>
  BY Zenon DEF Handler, Receive, Raise, HandleReset, ResetFails,
     HandleGetSeed, WriteSeed, HandleRender, HandleClose, HandleSteps, StepCommand, EndSteps, DismissMessage, WriteObs,
     MessageTooLong, WriteStep, HandleCoverage, WriteNullByte, HandleExit,
     EndOfStream, ConnectionLost, Finally

\* The part of TypeOK that is not about the flags is inductive by itself.
THEOREM DataTyping == Spec => []DataOK
<1>1. Init => DataOK
  BY RequestTypes DEF Init, DataOK, Games, Faults
<1>2. DataOK /\ [Next]_vars => DataOK'
  <2> SUFFICES ASSUME DataOK, [Next]_vars PROVE DataOK'
    OBVIOUS
  <2>1. CASE Client
    <3>1. CASE ClientRead
      <4>1. CASE ReadObs
        BY <4>1, TailTypes DEF DataOK, ReadObs, Arrived, handlerVars
      <4>2. CASE ReadStep
        BY <4>2, TailTypes DEF DataOK, ReadStep, Arrived, handlerVars
      <4>3. CASE ReadSeed
        BY <4>3, TailTypes DEF DataOK, ReadSeed, Arrived, handlerVars
      <4>4. CASE ReadNullByte
        BY <4>4, TailTypes DEF DataOK, ReadNullByte, Arrived, handlerVars
      <4>5. CASE ReadEOF
        BY <4>5 DEF DataOK, ReadEOF, handlerVars
      <4> QED
        BY <3>1, <4>1, <4>2, <4>3, <4>4, <4>5 DEF ClientRead
    <3>2. CASE TakeTurn
      <4>1. PICK n \in Chains : Send("Step", n)
        BY <3>2 DEF TakeTurn
      <4>2. c2s' \in Seq(Requests)
        BY <4>1, SendTypes, RequestTypes DEF Ops
      <4> QED
        BY <3>2, <4>2 DEF DataOK, TakeTurn, handlerVars
    <3>3. CASE \/ StartRun \/ NewGame \/ ShowSeed \/ Render \/ FinalRender
               \/ CloseGame \/ SaveCoverage \/ SendExitServer
      <4>1. c2s' \in Seq(Requests)
        BY <3>3, SendTypes, RequestTypes DEF StartRun, NewGame, ShowSeed,
           Render, FinalRender, CloseGame, SaveCoverage, SendExitServer, Ops
      <4> QED
        BY <3>3, <4>1 DEF DataOK, StartRun, NewGame, ShowSeed, Render,
           FinalRender, CloseGame, SaveCoverage, SendExitServer, handlerVars
    <3>4. CASE EndRun \/ Abort
      BY <3>4 DEF DataOK, EndRun, Abort, handlerVars
    <3> QED
      BY <2>1, <3>1, <3>2, <3>3, <3>4 DEF Client
  <2>2. CASE Handler
    <3>1. CASE HandleReset \/ ResetFails \/ HandleGetSeed \/ HandleRender
               \/ HandleClose \/ HandleCoverage \/ HandleExit
      <4>1. CASE HandleReset
        BY <4>1, TailTypes DEF DataOK, HandleReset, Receive, Raise, clientVars,
           handlerVars, Games, Faults
      <4>2. CASE ResetFails
        BY <4>2, TailTypes DEF DataOK, ResetFails, Receive, Raise, clientVars,
           handlerVars, Games, Faults
      <4>3. CASE HandleGetSeed
        BY <4>3, TailTypes DEF DataOK, HandleGetSeed, Receive, Raise, clientVars,
           handlerVars, Games, Faults
      <4>4. CASE HandleRender
        BY <4>4, TailTypes DEF DataOK, HandleRender, Receive, Raise, clientVars,
           handlerVars, Games, Faults
      <4>5. CASE HandleClose
        BY <4>5, TailTypes DEF DataOK, HandleClose, Receive, Raise, clientVars,
           handlerVars, Games, Faults
      <4>6. CASE HandleCoverage
        <5>1. c2s # <<>> /\ c2s' = Tail(c2s) /\ UNCHANGED clientVars
          BY <4>6 DEF HandleCoverage, Receive
        <5> QED
          BY <4>6, <5>1, TailTypes DEF DataOK, HandleCoverage, clientVars
      <4>7. CASE HandleExit
        BY <4>7, TailTypes DEF DataOK, HandleExit, Receive, Raise, clientVars,
           handlerVars, Games, Faults
      <4> QED
        BY <3>1, <4>1, <4>2, <4>3, <4>4, <4>5, <4>6, <4>7
    <3>2. CASE HandleSteps
      <4>1. left' \in 0..(ByteRange - 1)
        BY <3>2, TailTypes, RequestTypes DEF HandleSteps, Receive, Requests
      <4> QED
        BY <3>2, <4>1, TailTypes DEF DataOK, HandleSteps, Receive, clientVars
    <3>3. CASE WriteSeed \/ WriteObs \/ WriteStep \/ WriteNullByte
      <4>1. PICK tag \in Tags, ok \in BOOLEAN : Write(tag, ok)
        BY <3>3 DEF WriteSeed, WriteObs, WriteStep, WriteNullByte, Tags
      <4>2. s2c' \in Seq(Replies)
        BY <4>1, ReplyTypes DEF Write, DataOK
      <4>3. CASE WriteStep
        BY <4>2, <4>3 DEF DataOK, WriteStep, clientVars, Games
      <4>4. CASE WriteSeed \/ WriteNullByte
        <5>1. /\ hpc' = "read"
              /\ UNCHANGED <<clientVars, c2s, env, fresh, left, hdone, rc, fault>>
          BY <4>4 DEF WriteSeed, WriteNullByte
        <5> QED
          BY <4>2, <5>1 DEF DataOK, clientVars
      <4>5. CASE WriteObs
        <5>1. /\ hpc' = "stepOut"
              /\ UNCHANGED <<clientVars, c2s, env, fresh, left, hdone, rc, fault>>
          BY <4>5 DEF WriteObs
        <5> QED
          BY <4>2, <5>1 DEF DataOK, clientVars
      <4> QED
        BY <3>3, <4>3, <4>4, <4>5
    <3>4. CASE StepCommand
      <4>1. left' \in 0..(ByteRange - 1)
        BY <3>4, SessionAssumption DEF DataOK, StepCommand, Raise,
           SessionAssumption
      <4> QED
        BY <3>4, <4>1 DEF DataOK, StepCommand, Raise, clientVars, Games, Faults
    <3>5. CASE EndSteps \/ DismissMessage \/ MessageTooLong \/ EndOfStream
               \/ ConnectionLost \/ Finally
      BY <3>5 DEF DataOK, EndSteps, DismissMessage, MessageTooLong,
         EndOfStream, ConnectionLost, Finally, Raise, Game, clientVars, Games,
         Faults
    <3> QED
      BY <2>2, <3>1, <3>2, <3>3, <3>4, <3>5 DEF Handler
  <2>3. CASE Reap \/ Terminated \/ UNCHANGED vars
    BY <2>3 DEF DataOK, Reap, Terminated, vars, clientVars, handlerVars
  <2> QED
    BY <2>1, <2>2, <2>3 DEF Next
<1> QED
  BY <1>1, <1>2, PTL DEF Spec

\* TypeOK is an invariant of every connection: with DataOK, the flags stay
\* Boolean, the one that is read from a reply included.
THEOREM Typing == Spec => []TypeOK
<1>1. Init => FlagsOK
  BY DEF Init, FlagsOK
<1>2. DataOK /\ FlagsOK /\ [Next]_vars => FlagsOK'
  <2> SUFFICES ASSUME DataOK, FlagsOK, [Next]_vars PROVE FlagsOK'
    OBVIOUS
  <2>1. CASE ClientRead
    <3>1. s2c # <<>> => Head(s2c).ok \in BOOLEAN
      BY TailTypes DEF Replies
    <3> QED
      BY <2>1, <3>1, Zenon DEF FlagsOK, ClientRead, ReadObs, ReadStep, ReadSeed,
         ReadNullByte, ReadEOF, Arrived
  <2>2. CASE Client /\ ~ClientRead
    <3>1. cfg.restart \in BOOLEAN
      BY DEF DataOK
    <3> QED
      BY <2>2, <3>1, Zenon DEF FlagsOK, Client, StartRun, NewGame, TakeTurn,
         ShowSeed, Render, FinalRender, CloseGame, SaveCoverage, EndRun,
         SendExitServer, Abort
  <2>3. CASE Handler
    <3>1. UNCHANGED <<clientVars, sOpen>>
      BY <2>3, HandlerAlone
    <3> QED
      BY <3>1 DEF FlagsOK, clientVars
  <2>4. CASE Reap \/ Terminated \/ UNCHANGED vars
    BY <2>4 DEF FlagsOK, Reap, Terminated, vars, clientVars
  <2> QED
    BY <2>1, <2>2, <2>3, <2>4 DEF Next
<1> QED
  BY <1>1, <1>2, DataTyping, PTL DEF Spec, TypeOK

-----------------------------------------------------------------------------
(* Requests and replies in step: what each kind of step does to Matched.   *)

\* Every list of tags the invariant speaks of is a sequence.
LEMMA TagListTypes ==
  /\ \A op : Reply(op) \in Seq(Tags)
  /\ Expected \in Seq(Tags)
  /\ Owed \in Seq(Tags)
<1> DEFINE Lists == {<<>>, <<"Obs", "Step">>, <<"Step">>, <<"Seed">>, <<"Null">>}
<1>1. (\A op : Reply(op) \in Lists) /\ Expected \in Lists /\ Owed \in Lists
  BY DEF Reply, Expected, Owed
<1>2. Lists \subseteq Seq(Tags)
  BY DEF Tags
<1> QED
  BY <1>1, <1>2

\* A sequence is empty when it has no element.
LEMMA EmptyLen ==
  ASSUME NEW S, NEW s \in Seq(S)
  PROVE  Len(s) \in Nat /\ (s = <<>> <=> Len(s) = 0)
  BY EmptySeq, LenProperties

\* A client that expects nothing may send any request.
LEMMA SendMatched ==
  ASSUME NEW c \in Seq(Requests), NEW s \in Seq(Replies),
         NEW w \in Seq(Tags), NEW r \in Requests,
         Matched(c, s, w, <<>>), Foreseen(s, <<>>)
  PROVE  Matched(Append(c, r), s, w, Reply(r.op))
<1> DEFINE d == Append(c, r)
<1>1. s = <<>>
  <2>1. Len(s) = 0
    BY EmptyLen, EmptySeq DEF Foreseen
  <2> QED
    BY <2>1, EmptyLen
<1>2. c = <<>> \/ Reply(c[Len(c)].op) = <<>>
  BY DEF Matched
<1>3. w = <<>>
  BY <1>1, <1>2, EmptyLen, EmptySeq DEF Matched
<1>4. /\ Len(c) \in Nat /\ Len(d) = Len(c) + 1 /\ d # <<>> /\ d[Len(d)] = r
      /\ \A i \in 1..Len(c) : d[i] = c[i]
  BY AppendProperties, EmptyLen
<1>5. \A i \in 1..(Len(d) - 1) : Reply(d[i].op) = <<>>
  <2> SUFFICES ASSUME NEW i \in 1..(Len(d) - 1) PROVE Reply(d[i].op) = <<>>
    OBVIOUS
  <2>1. i \in 1..Len(c) /\ d[i] = c[i]
    BY <1>4
  <2>2. CASE i = Len(c)
    BY <1>2, <1>4, <2>1, <2>2, EmptyLen
  <2>3. CASE i # Len(c)
    BY <1>4, <2>1, <2>3 DEF Matched
  <2> QED
    BY <2>2, <2>3
<1>6. CASE Reply(r.op) = <<>>
  <2>1. Len(<<>>) = 0
    BY EmptySeq
  <2> HIDE DEF d
  <2> QED
    BY <1>1, <1>3, <1>4, <1>5, <1>6, <2>1 DEF Matched, d
<1>7. CASE Reply(r.op) # <<>>
  <2> HIDE DEF d
  <2> QED
    BY <1>1, <1>3, <1>4, <1>5, <1>7 DEF Matched, d
<1> QED
  BY <1>6, <1>7

\* The handler takes the next request; it owes the reply of a call from then on.
LEMMA ReceiveMatched ==
  ASSUME NEW c \in Seq(Requests), NEW s \in Seq(Replies),
         NEW e \in Seq(Tags), c # <<>>, Matched(c, s, <<>>, e)
  PROVE  Matched(Tail(c), s, Reply(Head(c).op), e)
<1> DEFINE d == Tail(c)
           R(i) == Reply(c[i].op)
<1>1. /\ Len(d) = Len(c) - 1 /\ Head(c) = c[1]
      /\ \A i \in 1..Len(d) : d[i] = c[i + 1]
      /\ Len(c) \in Nat /\ Len(c) > 0 /\ (d = <<>> <=> Len(d) = 0)
  <2>1. d \in Seq(Requests)
    BY HeadTailProperties
  <2>2. d = <<>> <=> Len(d) = 0
    BY <2>1, EmptyLen
  <2> QED
    BY <2>2, HeadTailProperties, EmptyLen
<1>2. Len(<<>>) = 0
  BY EmptySeq
<1>3. /\ \A i \in 1..(Len(c) - 1) : R(i) = <<>>
      /\ R(Len(c)) # <<>> => s = <<>> /\ R(Len(c)) = e
      /\ R(Len(c)) = <<>> => Len(s) = Len(e)
  BY <1>2 DEF Matched
<1>4. \A i \in 1..(Len(d) - 1) : Reply(d[i].op) = <<>>
  BY <1>1, <1>3
<1>5. CASE d = <<>>
  <2>1. Len(c) = 1 /\ Reply(Head(c).op) = R(1)
    BY <1>1, <1>5
  <2>2. CASE R(1) = <<>>
    BY <1>2, <1>3, <1>4, <1>5, <2>1, <2>2 DEF Matched
  <2>3. CASE R(1) # <<>>
    <3>1. s = <<>> /\ R(1) = e
      BY <1>3, <2>1, <2>3
    <3>2. Len(e) \in Nat
      BY EmptyLen
    <3> QED
      BY <1>2, <1>4, <1>5, <2>1, <3>1, <3>2 DEF Matched
  <2> QED
    BY <2>2, <2>3
<1>6. CASE d # <<>>
  <2>1. 1 \in 1..(Len(c) - 1) /\ Len(d) \in 1..Len(d)
    BY <1>1, <1>6
  <2>2. d[Len(d)] = c[Len(c)]
    BY <1>1, <2>1
  <2>3. R(1) = <<>>
    BY <1>3, <2>1
  <2>4. Reply(Head(c).op) = <<>> /\ Reply(d[Len(d)].op) = R(Len(c))
    BY <1>1, <2>2, <2>3
  <2>5. CASE R(Len(c)) = <<>>
    BY <1>2, <1>3, <1>4, <1>6, <2>4, <2>5 DEF Matched
  <2>6. CASE R(Len(c)) # <<>>
    BY <1>2, <1>3, <1>4, <1>6, <2>4, <2>6 DEF Matched
  <2> QED
    BY <2>5, <2>6
<1> QED
  BY <1>5, <1>6

\* The handler writes the first of the replies it owes.
LEMMA WriteMatched ==
  ASSUME NEW c \in Seq(Requests), NEW s \in Seq(Replies),
         NEW e \in Seq(Tags), NEW w \in Seq(Tags), NEW r \in Replies,
         w # <<>>, r.tag = Head(w), Matched(c, s, w, e), Foreseen(s, e)
  PROVE  Matched(c, Append(s, r), Tail(w), e) /\ Foreseen(Append(s, r), e)
<1> DEFINE t == Append(s, r)
           v == Tail(w)
<1>1. /\ Len(t) = Len(s) + 1 /\ t[Len(t)] = r /\ Len(s) \in Nat
      /\ \A i \in 1..Len(s) : t[i] = s[i]
  BY AppendProperties, EmptyLen
<1>2. /\ Len(v) = Len(w) - 1 /\ Len(w) \in Nat \ {0} /\ Head(w) = w[1]
      /\ \A i \in 1..Len(v) : v[i] = w[i + 1]
  BY HeadTailProperties, EmptyLen
<1>3. /\ \A i \in 1..(Len(c) - 1) : Reply(c[i].op) = <<>>
      /\ c = <<>> \/ Reply(c[Len(c)].op) = <<>>
      /\ Len(s) + Len(w) = Len(e)
      /\ \A i \in 1..Len(w) : w[i] = e[Len(s) + i]
  BY DEF Matched
<1>4. Matched(c, t, v, e)
  <2>1. Len(t) + Len(v) = Len(e) /\ \A i \in 1..Len(v) : v[i] = e[Len(t) + i]
    BY <1>1, <1>2, <1>3
  <2> HIDE DEF t, v
  <2> QED
    BY <1>3, <2>1 DEF Matched
<1>5. Foreseen(t, e)
  <2> SUFFICES ASSUME NEW i \in 1..Len(t)
               PROVE  i <= Len(e) /\ t[i].tag = e[i]
    BY DEF Foreseen
  <2>1. CASE i = Len(t)
    <3>1. w[1] = e[Len(s) + 1]
      BY <1>2, <1>3
    <3> QED
      BY <1>1, <1>2, <1>3, <2>1, <3>1
  <2>2. CASE i # Len(t)
    BY <1>1, <2>2 DEF Foreseen
  <2> QED
    BY <2>1, <2>2
<1> QED
  BY <1>4, <1>5

\* The client decodes the first of the replies it expects.
LEMMA ReadMatched ==
  ASSUME NEW s \in Seq(Replies), NEW e \in Seq(Tags), s # <<>>, Foreseen(s, e)
  PROVE  /\ Foreseen(Tail(s), Tail(e)) /\ Head(s).tag = Head(e) /\ e # <<>>
         /\ \A c \in Seq(Requests), w \in Seq(Tags) :
              Matched(c, s, w, e) => Matched(c, Tail(s), w, Tail(e))
<1> DEFINE t == Tail(s)
           f == Tail(e)
<1>1. /\ Len(t) = Len(s) - 1 /\ Len(s) \in Nat /\ Len(s) > 0
      /\ Head(s) = s[1] /\ \A i \in 1..Len(t) : t[i] = s[i + 1]
  BY HeadTailProperties, EmptyLen
<1>2. 1 <= Len(e) /\ s[1].tag = e[1] /\ Len(e) \in Nat /\ e # <<>>
  BY <1>1, EmptyLen, EmptySeq DEF Foreseen
<1>3. /\ Len(f) = Len(e) - 1 /\ Head(e) = e[1]
      /\ \A i \in 1..Len(f) : f[i] = e[i + 1]
  BY <1>2, HeadTailProperties
<1>4. Foreseen(t, f)
  <2> SUFFICES ASSUME NEW i \in 1..Len(t)
               PROVE  i <= Len(f) /\ t[i].tag = f[i]
    BY DEF Foreseen
  <2>1. i + 1 <= Len(e) /\ s[i + 1].tag = e[i + 1] /\ t[i] = s[i + 1]
    BY <1>1 DEF Foreseen
  <2> QED
    BY <1>1, <1>2, <1>3, <2>1
<1>5. ASSUME NEW c \in Seq(Requests), NEW w \in Seq(Tags), Matched(c, s, w, e)
      PROVE  Matched(c, t, w, f)
  <2>1. /\ \A i \in 1..(Len(c) - 1) : Reply(c[i].op) = <<>>
        /\ c = <<>> \/ Reply(c[Len(c)].op) = <<>>
        /\ Len(s) + Len(w) = Len(e) /\ Len(w) \in Nat
        /\ \A i \in 1..Len(w) : w[i] = e[Len(s) + i]
    BY <1>5, EmptyLen DEF Matched
  <2>2. Len(t) + Len(w) = Len(f)
    <3>1. Len(t) = Len(s) - 1 /\ Len(f) = Len(e) - 1
      BY <1>1, <1>3
    <3>2. Len(s) \in Nat /\ Len(e) \in Nat /\ Len(s) + Len(w) = Len(e)
          /\ Len(w) \in Nat
      BY <1>1, <1>2, <2>1
    <3> HIDE DEF t, f
    <3> QED
      BY <3>1, <3>2
  <2>3. ASSUME NEW i \in 1..Len(w) PROVE w[i] = f[Len(t) + i]
    <3>1. Len(t) + i \in 1..Len(f) /\ Len(t) + i + 1 = Len(s) + i
      BY <1>1, <1>2, <1>3, <2>1, <2>2
    <3>2. f[Len(t) + i] = e[Len(s) + i]
      BY <1>3, <3>1
    <3> QED
      BY <2>1, <3>2
  <2> HIDE DEF t, f
  <2> QED
    BY <2>1, <2>2, <2>3 DEF Matched
<1> QED
  BY <1>1, <1>2, <1>3, <1>4, <1>5

-----------------------------------------------------------------------------
(* Every step of an open connection is of one of six kinds.                *)

Sends  == /\ Expected = <<>>
          /\ \E r \in Requests : c2s' = Append(c2s, r) /\ Expected' = Reply(r.op)
          /\ s2c' = s2c /\ hpc' = hpc
Reads  == /\ s2c # <<>> /\ s2c' = Tail(s2c) /\ Expected' = Tail(Expected)
          /\ c2s' = c2s /\ hpc' = hpc
Takes  == /\ c2s # <<>> /\ c2s' = Tail(c2s) /\ s2c' = s2c
          /\ ~Stopped /\ Owed = <<>> /\ Owed' = Reply(Head(c2s).op)
          /\ Expected' = Expected
Writes == /\ ~Stopped /\ ~Stopped' /\ Owed # <<>> /\ Owed' = Tail(Owed)
          /\ \E r \in Replies : r.tag = Head(Owed) /\ s2c' = Append(s2c, r)
          /\ c2s' = c2s /\ Expected' = Expected
Ends   == Stopped' /\ s2c' = s2c /\ Expected' = Expected
Keeps  == /\ c2s' = c2s /\ s2c' = s2c /\ Owed' = Owed /\ Expected' = Expected
          /\ (Stopped' <=> Stopped)

\* The client's end is open until it is closed for good.
Opened == cOpen <=> cpc \notin {"closed", "crashed"}

\* Heads and tails of the lists of tags.
LEMMA TagTails ==
  /\ Tail(<<"Obs", "Step">>) = <<"Step">> /\ Head(<<"Obs", "Step">>) = "Obs"
  /\ Tail(<<"Step">>) = <<>> /\ Head(<<"Step">>) = "Step"
  /\ Tail(<<"Seed">>) = <<>> /\ Head(<<"Seed">>) = "Seed"
  /\ Tail(<<"Null">>) = <<>> /\ Head(<<"Null">>) = "Null"
  OBVIOUS

\* Opened is inductive.
THEOREM Opening == Spec => []Opened
<1>1. Init => Opened
  BY DEF Init, Opened
<1>2. Opened /\ DataOK /\ [Next]_vars => Opened'
  <2> SUFFICES ASSUME Opened, DataOK, [Next]_vars PROVE Opened'
    OBVIOUS
  <2>1. cfg.restart \in BOOLEAN
    BY DEF DataOK
  <2>2. CASE Client
    <3>1. CASE ClientRead
      BY <3>1, Zenon DEF Opened, ClientRead, ReadObs, ReadStep, ReadSeed,
         ReadNullByte, ReadEOF, Awaiting
    <3>2. CASE Client /\ ~ClientRead
      BY <2>1, <3>2, Zenon DEF Opened, Client, StartRun, NewGame, TakeTurn,
         ShowSeed, Render, FinalRender, CloseGame, SaveCoverage, EndRun,
         SendExitServer, Abort
    <3> QED
      BY <2>2, <3>1, <3>2
  <2>3. CASE Handler
    <3>1. UNCHANGED clientVars
      BY <2>3, HandlerAlone
    <3> QED
      BY <3>1 DEF Opened, clientVars
  <2>4. CASE Reap \/ Terminated \/ UNCHANGED vars
    BY <2>4 DEF Opened, Reap, Terminated, vars, clientVars
  <2> QED
    BY <2>2, <2>3, <2>4 DEF Next
<1> QED
  BY <1>1, <1>2, DataTyping, PTL DEF Spec

\* A request is sent where nothing is expected, and its reply expected then.
LEMMA SendKind ==
  ASSUME NEW op \in Ops, NEW arg \in 0..ByteRange, Send(op, arg),
         Expected = <<>>, Expected' = Reply(op), s2c' = s2c, hpc' = hpc
  PROVE  Sends
<1>1. [op |-> op, arg |-> arg] \in Requests
  BY DEF Requests
<1> QED
  BY <1>1 DEF Send, Sends

\* A step of the client that leaves its end open sends, reads or does neither.
LEMMA ClientKinds ==
  ASSUME DataOK, Opened, Client, cOpen'
  PROVE  Sends \/ Reads \/ Keeps
<1>1. CASE StartRun
  <2>1. Send("ResetCoverage", 0) /\ s2c' = s2c /\ hpc' = hpc
    BY <1>1 DEF StartRun, handlerVars
  <2>2. Expected = <<>> /\ Expected' = Reply("ResetCoverage")
    BY <1>1 DEF StartRun, Expected, Reply
  <2> QED
    BY <2>1, <2>2, SendKind, RequestTypes DEF Ops
<1>2. CASE NewGame
  <2>1. Send("Reset", 0) /\ s2c' = s2c /\ hpc' = hpc
    BY <1>2 DEF NewGame, handlerVars
  <2>2. Expected = <<>> /\ Expected' = Reply("Reset")
    BY <1>2 DEF NewGame, Expected, Reply
  <2> QED
    BY <2>1, <2>2, SendKind, RequestTypes DEF Ops
<1>3. CASE TakeTurn
  <2>1. PICK n \in Chains : Send("Step", n) /\ s2c' = s2c /\ hpc' = hpc
    BY <1>3 DEF TakeTurn, handlerVars
  <2>2. Expected = <<>> /\ Expected' = Reply("Step")
    BY <1>3 DEF TakeTurn, Expected, Reply
  <2> QED
    BY <2>1, <2>2, SendKind, RequestTypes DEF Ops
<1>4. CASE ShowSeed
  <2>1. Send("GetSeed", 0) /\ s2c' = s2c /\ hpc' = hpc
    BY <1>4 DEF ShowSeed, handlerVars
  <2>2. Expected = <<>> /\ Expected' = Reply("GetSeed")
    BY <1>4 DEF ShowSeed, Expected, Reply
  <2> QED
    BY <2>1, <2>2, SendKind, RequestTypes DEF Ops
<1>5. CASE Render
  <2>1. Send("Render", 0) /\ s2c' = s2c /\ hpc' = hpc
    BY <1>5 DEF Render, handlerVars
  <2>2. Expected = <<>> /\ Expected' = Reply("Render")
    BY <1>5 DEF Render, Expected, Reply
  <2> QED
    BY <2>1, <2>2, SendKind, RequestTypes DEF Ops
<1>6. CASE FinalRender
  <2>1. Send("Render", 0) /\ s2c' = s2c /\ hpc' = hpc
    BY <1>6 DEF FinalRender, handlerVars
  <2>2. Expected = <<>> /\ Expected' = Reply("Render")
    BY <1>6 DEF FinalRender, Expected, Reply
  <2> QED
    BY <2>1, <2>2, SendKind, RequestTypes DEF Ops
<1>7. CASE CloseGame
  <2>1. Send("Close", 0) /\ s2c' = s2c /\ hpc' = hpc
    BY <1>7 DEF CloseGame, handlerVars
  <2>2. Expected = <<>> /\ Expected' = Reply("Close")
    BY <1>7 DEF CloseGame, Expected, Reply
  <2> QED
    BY <2>1, <2>2, SendKind, RequestTypes DEF Ops
<1>8. CASE SaveCoverage
  <2>1. Send("SaveCoverage", 0) /\ s2c' = s2c /\ hpc' = hpc
    BY <1>8 DEF SaveCoverage, handlerVars
  <2>2. Expected = <<>> /\ Expected' = Reply("SaveCoverage")
    BY <1>8 DEF SaveCoverage, Expected, Reply
  <2> QED
    BY <2>1, <2>2, SendKind, RequestTypes DEF Ops
<1>9. CASE SendExitServer
  <2>1. Send("Exit", 0) /\ s2c' = s2c /\ hpc' = hpc
    BY <1>9 DEF SendExitServer, handlerVars
  <2>2. Expected = <<>> /\ Expected' = Reply("Exit")
    BY <1>9 DEF SendExitServer, Expected, Reply
  <2> QED
    BY <2>1, <2>2, SendKind, RequestTypes DEF Ops
<1>10. CASE EndRun
  BY <1>10 DEF EndRun, Keeps, Expected, Owed, Stopped, handlerVars
<1>11. CASE Abort \/ ReadEOF
  BY <1>11 DEF Abort, ReadEOF
<1>12. CASE ReadObs \/ ReadStep \/ ReadSeed \/ ReadNullByte
  <2>1. s2c # <<>> /\ s2c' = Tail(s2c) /\ c2s' = c2s /\ hpc' = hpc
    BY <1>12 DEF ReadObs, ReadStep, ReadSeed, ReadNullByte, Arrived, handlerVars
  <2>2. Expected' = Tail(Expected)
    <3>1. CASE ReadObs
      BY <3>1, TagTails DEF ReadObs, Expected
    <3>2. CASE ReadStep
      BY <3>2, TagTails DEF ReadStep, Expected
    <3>3. CASE ReadSeed
      BY <3>3, TagTails DEF ReadSeed, Expected
    <3>4. CASE ReadNullByte
      BY <3>4, TagTails DEF ReadNullByte, Expected
    <3> QED
      BY <1>12, <3>1, <3>2, <3>3, <3>4
  <2> QED
    BY <2>1, <2>2 DEF Reads
<1> QED
  BY <1>1, <1>2, <1>3, <1>4, <1>5, <1>6, <1>7, <1>8, <1>9, <1>10, <1>11, <1>12
     DEF Client, ClientRead

\* A step of the handler takes a request, writes a reply, ends or does neither.
LEMMA HandlerKinds ==
  ASSUME DataOK, Handler
  PROVE  Takes \/ Writes \/ Ends \/ Keeps
<1>1. CASE HandleReset
  <2>1. /\ c2s # <<>> /\ c2s' = Tail(c2s) /\ Head(c2s).op = "Reset"
        /\ hpc = "read" /\ s2c' = s2c /\ UNCHANGED clientVars
    BY <1>1 DEF HandleReset, Receive
  <2>2. Expected' = Expected /\ Owed = <<>> /\ ~Stopped
    BY <2>1 DEF Expected, Owed, Stopped, clientVars
  <2>3. Owed' = Reply("Reset")
    BY <1>1 DEF HandleReset, Owed, Reply
  <2> QED
    BY <2>1, <2>2, <2>3 DEF Takes, Ends
<1>2. CASE HandleSteps
  <2>1. /\ c2s # <<>> /\ c2s' = Tail(c2s) /\ Head(c2s).op = "Step"
        /\ hpc = "read" /\ s2c' = s2c /\ UNCHANGED clientVars
    BY <1>2 DEF HandleSteps, Receive
  <2>2. Expected' = Expected /\ Owed = <<>> /\ ~Stopped
    BY <2>1 DEF Expected, Owed, Stopped, clientVars
  <2>3. Owed' = Reply("Step")
    BY <1>2 DEF HandleSteps, Owed, Reply
  <2> QED
    BY <2>1, <2>2, <2>3 DEF Takes, Ends
<1>3. CASE HandleGetSeed
  <2>1. /\ c2s # <<>> /\ c2s' = Tail(c2s) /\ Head(c2s).op = "GetSeed"
        /\ hpc = "read" /\ s2c' = s2c /\ UNCHANGED clientVars
    BY <1>3 DEF HandleGetSeed, Receive
  <2>2. Expected' = Expected /\ Owed = <<>> /\ ~Stopped
    BY <2>1 DEF Expected, Owed, Stopped, clientVars
  <2>3. Stopped' \/ Owed' = Reply("GetSeed")
    BY <1>3, <2>1 DEF HandleGetSeed, Owed, Reply, Stopped, Raise, handlerVars
  <2> QED
    BY <2>1, <2>2, <2>3 DEF Takes, Ends
<1>4. CASE HandleRender
  <2>1. /\ c2s # <<>> /\ c2s' = Tail(c2s) /\ Head(c2s).op = "Render"
        /\ hpc = "read" /\ s2c' = s2c /\ UNCHANGED clientVars
    BY <1>4 DEF HandleRender, Receive
  <2>2. Expected' = Expected /\ Owed = <<>> /\ ~Stopped
    BY <2>1 DEF Expected, Owed, Stopped, clientVars
  <2>3. Stopped' \/ Owed' = Reply("Render")
    BY <1>4, <2>1 DEF HandleRender, Owed, Reply, Stopped, Raise, handlerVars
  <2> QED
    BY <2>1, <2>2, <2>3 DEF Takes, Ends
<1>5. CASE HandleClose
  <2>1. /\ c2s # <<>> /\ c2s' = Tail(c2s) /\ Head(c2s).op = "Close"
        /\ hpc = "read" /\ s2c' = s2c /\ UNCHANGED clientVars
    BY <1>5 DEF HandleClose, Receive
  <2>2. Expected' = Expected /\ Owed = <<>> /\ ~Stopped
    BY <2>1 DEF Expected, Owed, Stopped, clientVars
  <2>3. Stopped' \/ Owed' = Reply("Close")
    BY <1>5, <2>1 DEF HandleClose, Owed, Reply, Stopped, Raise
  <2> QED
    BY <2>1, <2>2, <2>3 DEF Takes, Ends
<1>6. CASE HandleCoverage
  <2>1. /\ c2s # <<>> /\ c2s' = Tail(c2s) /\ Reply(Head(c2s).op) = <<"Null">>
        /\ hpc = "read" /\ s2c' = s2c /\ UNCHANGED clientVars
    BY <1>6 DEF HandleCoverage, Receive, Reply
  <2>2. Expected' = Expected /\ Owed = <<>> /\ ~Stopped
    BY <2>1 DEF Expected, Owed, Stopped, clientVars
  <2>3. Owed' = <<"Null">>
    BY <1>6 DEF HandleCoverage, Owed
  <2> QED
    BY <2>1, <2>2, <2>3 DEF Takes
<1>7. CASE ResetFails \/ HandleExit \/ MessageTooLong \/ EndOfStream
          \/ ConnectionLost \/ Finally
  <2>1. s2c' = s2c /\ UNCHANGED clientVars /\ Stopped'
    BY <1>7 DEF ResetFails, HandleExit, MessageTooLong, EndOfStream,
       ConnectionLost, Finally, Receive, Raise, Stopped
  <2> QED
    BY <2>1 DEF Ends, Expected, clientVars
<1>8. CASE StepCommand \/ EndSteps \/ DismissMessage
  <2>1. c2s' = c2s /\ s2c' = s2c /\ UNCHANGED clientVars
    BY <1>8 DEF StepCommand, EndSteps, DismissMessage
  <2>2. Stopped' \/ (Owed' = Owed /\ ~Stopped /\ ~Stopped')
    BY <1>8 DEF StepCommand, EndSteps, DismissMessage, Raise, Stopped, Owed
  <2>3. Expected' = Expected
    BY <2>1 DEF Expected, clientVars
  <2>4. CASE Stopped'
    BY <2>1, <2>3, <2>4 DEF Ends
  <2>5. CASE Owed' = Owed /\ ~Stopped /\ ~Stopped'
    BY <2>1, <2>3, <2>5, Zenon DEF Keeps
  <2> QED
    BY <2>2, <2>4, <2>5
<1>9. CASE WriteObs
  <2>1. PICK ok \in BOOLEAN : Write("Obs", ok)
    BY <1>9 DEF WriteObs
  <2>2. PICK r \in Replies : r.tag = "Obs" /\ s2c' = Append(s2c, r)
    BY <2>1, ReplyTypes DEF Write, Tags
  <2>3. c2s' = c2s /\ UNCHANGED clientVars
    BY <1>9 DEF WriteObs
  <2>4. /\ ~Stopped /\ ~Stopped' /\ Owed # <<>>
        /\ Head(Owed) = "Obs" /\ Owed' = Tail(Owed)
    BY <1>9, TagTails DEF WriteObs, Owed, Stopped
  <2> QED
    BY <2>2, <2>3, <2>4 DEF Writes, Expected, clientVars
<1>10. CASE WriteStep
  <2>1. PICK ok \in BOOLEAN : Write("Step", ok)
    BY <1>10 DEF WriteStep
  <2>2. PICK r \in Replies : r.tag = "Step" /\ s2c' = Append(s2c, r)
    BY <2>1, ReplyTypes DEF Write, Tags
  <2>3. c2s' = c2s /\ UNCHANGED clientVars
    BY <1>10 DEF WriteStep
  <2>4. /\ ~Stopped /\ ~Stopped' /\ Owed # <<>>
        /\ Head(Owed) = "Step" /\ Owed' = Tail(Owed)
    BY <1>10, TagTails DEF WriteStep, Owed, Stopped
  <2> QED
    BY <2>2, <2>3, <2>4 DEF Writes, Expected, clientVars
<1>11. CASE WriteSeed
  <2>1. PICK ok \in BOOLEAN : Write("Seed", ok)
    BY <1>11 DEF WriteSeed
  <2>2. PICK r \in Replies : r.tag = "Seed" /\ s2c' = Append(s2c, r)
    BY <2>1, ReplyTypes DEF Write, Tags
  <2>3. c2s' = c2s /\ UNCHANGED clientVars
    BY <1>11 DEF WriteSeed
  <2>4. /\ ~Stopped /\ ~Stopped' /\ Owed # <<>>
        /\ Head(Owed) = "Seed" /\ Owed' = Tail(Owed)
    BY <1>11, TagTails DEF WriteSeed, Owed, Stopped
  <2> QED
    BY <2>2, <2>3, <2>4 DEF Writes, Expected, clientVars
<1>12. CASE WriteNullByte
  <2>1. PICK ok \in BOOLEAN : Write("Null", ok)
    BY <1>12 DEF WriteNullByte
  <2>2. PICK r \in Replies : r.tag = "Null" /\ s2c' = Append(s2c, r)
    BY <2>1, ReplyTypes DEF Write, Tags
  <2>3. c2s' = c2s /\ UNCHANGED clientVars
    BY <1>12 DEF WriteNullByte
  <2>4. /\ ~Stopped /\ ~Stopped' /\ Owed # <<>>
        /\ Head(Owed) = "Null" /\ Owed' = Tail(Owed)
    BY <1>12, TagTails DEF WriteNullByte, Owed, Stopped
  <2> QED
    BY <2>2, <2>3, <2>4 DEF Writes, Expected, clientVars
<1> QED
  BY <1>1, <1>2, <1>3, <1>4, <1>5, <1>6, <1>7, <1>8, <1>9, <1>10, <1>11, <1>12
     DEF Handler

\* RepliesInStep: with Opened, the six kinds of steps preserve it.
THEOREM InStep == Spec => []RepliesInStep
<1>1. Init => RepliesInStep
  <2> SUFFICES ASSUME Init PROVE RepliesInStep
    OBVIOUS
  <2>1. Expected = <<>> /\ Owed = <<>> /\ s2c = <<>> /\ c2s = <<>>
    BY DEF Init, Expected, Owed
  <2>2. Len(<<>>) = 0
    BY EmptySeq
  <2> QED
    BY <2>1, <2>2 DEF RepliesInStep, Foreseen, Matched
<1>2. RepliesInStep /\ DataOK /\ DataOK' /\ Opened /\ Opened' /\ [Next]_vars
        => RepliesInStep'
  <2> SUFFICES ASSUME RepliesInStep, DataOK, Opened, Opened', [Next]_vars, cOpen'
               PROVE  /\ Foreseen(s2c', Expected')
                      /\ Stopped' \/ Matched(c2s', s2c', Owed', Expected')
    BY DEF RepliesInStep
  <2>1. cOpen /\ (Sends \/ Reads \/ Takes \/ Writes \/ Ends \/ Keeps)
    <3>1. CASE Client
      <4>1. cOpen
        BY <3>1, Zenon DEF Opened, Client, StartRun, NewGame, TakeTurn,
           ShowSeed, Render, FinalRender, CloseGame, SaveCoverage, EndRun,
           SendExitServer, Abort, ClientRead, ReadObs, ReadStep, ReadSeed,
           ReadNullByte, ReadEOF, Awaiting
      <4> QED
        BY <3>1, <4>1, ClientKinds
    <3>2. CASE Handler
      <4>1. UNCHANGED clientVars
        BY <3>2, HandlerAlone
      <4> QED
        BY <3>2, <4>1, HandlerKinds DEF clientVars
    <3>3. CASE Reap \/ Terminated \/ UNCHANGED vars
      <4>1. UNCHANGED <<clientVars, c2s, s2c, hpc>>
        BY <3>3 DEF Reap, Terminated, vars, handlerVars
      <4>2. Expected' = Expected
        BY <4>1 DEF Expected, clientVars
      <4>3. Owed' = Owed /\ Stopped' = Stopped
        BY <4>1 DEF Owed, Stopped
      <4>4. cOpen
        BY <4>1 DEF clientVars
      <4> QED
        BY <4>1, <4>2, <4>3, <4>4 DEF Keeps
    <3> QED
      BY <3>1, <3>2, <3>3 DEF Next
  <2>2. /\ c2s \in Seq(Requests) /\ s2c \in Seq(Replies)
        /\ Expected \in Seq(Tags) /\ Owed \in Seq(Tags)
    BY TagListTypes DEF DataOK
  <2>3. Foreseen(s2c, Expected) /\ (Stopped \/ Matched(c2s, s2c, Owed, Expected))
    BY <2>1 DEF RepliesInStep
  <2>4. CASE Sends
    <3>1. PICK r \in Requests : c2s' = Append(c2s, r) /\ Expected' = Reply(r.op)
      BY <2>4 DEF Sends
    <3>2. Stopped' = Stopped /\ Owed' = Owed /\ s2c' = s2c /\ Expected = <<>>
      BY <2>4 DEF Sends, Stopped, Owed
    <3>3. Foreseen(s2c', Expected')
      <4>1. Len(s2c) = 0
        BY <2>2, <2>3, <3>2, EmptyLen, EmptySeq DEF Foreseen
      <4> QED
        BY <3>2, <4>1 DEF Foreseen
    <3>4. Matched(c2s, s2c, Owed, Expected) =>
            Matched(c2s', s2c', Owed', Expected')
      BY <2>2, <2>3, <3>1, <3>2, SendMatched
    <3> QED
      BY <2>3, <3>2, <3>3, <3>4
  <2>5. CASE Reads
    <3>1. Stopped' = Stopped /\ Owed' = Owed
      BY <2>5 DEF Reads, Stopped, Owed
    <3> QED
      BY <2>2, <2>3, <2>5, <3>1, ReadMatched DEF Reads
  <2>6. CASE Takes
    <3>1. Matched(c2s', s2c', Owed', Expected')
      BY <2>2, <2>3, <2>6, ReceiveMatched DEF Takes
    <3> QED
      BY <2>3, <2>6, <3>1 DEF Takes
  <2>7. CASE Writes
    <3>1. PICK r \in Replies : r.tag = Head(Owed) /\ s2c' = Append(s2c, r)
      BY <2>7 DEF Writes
    <3> QED
      BY <2>2, <2>3, <2>7, <3>1, WriteMatched DEF Writes
  <2>8. CASE Ends
    BY <2>3, <2>8 DEF Ends
  <2>9. CASE Keeps
    BY <2>3, <2>9 DEF Keeps
  <2> QED
    BY <2>1, <2>4, <2>5, <2>6, <2>7, <2>8, <2>9
<1> QED
  BY <1>1, <1>2, DataTyping, Opening, PTL DEF Spec

-----------------------------------------------------------------------------
(* What is in flight, and the game it is meant for.                        *)

\* The requests in flight, those that are answered, and those that are not.
Pending == {c2s[i].op : i \in 1..Len(c2s)}
Called  == {"Reset", "Step", "GetSeed", "SaveCoverage", "ResetCoverage"}

\* There is a game, and nothing on the way that closes it; or it is the opposite.
Playing == env \in {"running", "over"} /\ "Close" \notin Pending
Away    == env \in {"none", "closed"} \/ "Close" \in Pending

\* Where the handler is tells which of its two environments is alive, and what
\* the last command said of the game is still so when it is written.
HandlerOK ==
  /\ hpc = "cmds" => env \in {"running", "over"} /\ fresh = "none"
  /\ hpc \in {"obs", "obsOut", "stepOut"} =>
       \/ fresh = "none" /\ env \in {"running", "over"}
       \/ fresh # "none" /\ env \in {"none", "closed"}
  /\ hpc \notin {"obs", "obsOut", "stepOut"} => fresh = "none"
  /\ hpc \in {"cmds", "obs", "obsOut", "stepOut"} /\ hdone = "yes" =>
       fresh = "none" /\ env = "over"

\* A call is the last request in flight, and each request is meant for the game
\* it will meet.
CallsLast == \A i \in 1..(Len(c2s) - 1) : c2s[i].op \notin Called
Meant ==
  /\ Pending \cap {"Render", "Close"} # {} => env # "none"
  /\ Pending \cap {"GetSeed", "Step"} # {} => Playing
  /\ "Reset" \in Pending => Away
QueueOK == ~Stopped => (Owed # <<>> => c2s = <<>>) /\ CallsLast /\ Meant

\* Where the client is tells what its handler will have once it has read all.
ClientOK ==
  cOpen /\ ~Stopped =>
    /\ cpc \in {"play", "render", "leave", "show", "seed", "stepSeed", "step"} =>
         Playing /\ fresh = "none"
    /\ cpc = "reset" =>
         IF c2s = <<>> THEN fresh = "none" => Playing ELSE "Reset" \in Pending
    /\ cpc \in {"idle", "resetCov", "create", "closing", "saveCov", "ended"} =>
         Away

\* The end of the game, once told, is not taken back by a request in flight.
Told == \E i \in 1..Len(s2c) : s2c[i].tag = "Step" /\ s2c[i].ok
DoneOK ==
  done \/ Told => /\ env \in {"over", "closed"} /\ fresh = "none"
                  /\ "Reset" \notin Pending

GameInv == HandlerOK /\ QueueOK /\ ClientOK /\ DoneOK

\* The calls are the requests that are answered.
LEMMA CalledReply == \A op \in Ops : op \in Called <=> Reply(op) # <<>>
  BY DEF Ops, Called, Reply

\* Sending adds the request to those in flight.
LEMMA SendPending ==
  ASSUME DataOK, NEW op \in Ops, NEW arg \in 0..ByteRange, Send(op, arg)
  PROVE  /\ Pending' = Pending \cup {op} /\ c2s' # <<>>
         /\ Pending \cap Called = {} => CallsLast'
<1>1. [op |-> op, arg |-> arg] \in Requests /\ c2s \in Seq(Requests)
  BY DEF Requests, DataOK
<1>2. /\ Len(c2s) \in Nat /\ Len(c2s') = Len(c2s) + 1
      /\ c2s'[Len(c2s) + 1].op = op
      /\ \A i \in 1..Len(c2s) : c2s'[i] = c2s[i]
  <2>1. c2s' = Append(c2s, [op |-> op, arg |-> arg])
    BY DEF Send
  <2>2. /\ Len(c2s') = Len(c2s) + 1 /\ c2s'[Len(c2s) + 1] = [op |-> op, arg |-> arg]
        /\ \A i \in 1..Len(c2s) : c2s'[i] = c2s[i]
    BY <1>1, <2>1, AppendProperties
  <2> QED
    BY <1>1, <2>2, EmptyLen
<1>3. Pending' = Pending \cup {op}
  <2>1. ASSUME NEW x \in Pending' PROVE x \in Pending \cup {op}
    <3>1. PICK i \in 1..Len(c2s') : x = c2s'[i].op
      BY <2>1 DEF Pending
    <3> QED
      BY <1>2, <3>1 DEF Pending
  <2>2. Pending \subseteq Pending'
    <3> SUFFICES ASSUME NEW i \in 1..Len(c2s) PROVE c2s[i].op \in Pending'
      BY DEF Pending
    <3>1. i \in 1..Len(c2s') /\ c2s'[i].op = c2s[i].op
      BY <1>2
    <3> QED
      BY <3>1 DEF Pending
  <2>3. op \in Pending'
    <3>1. Len(c2s) + 1 \in 1..Len(c2s')
      BY <1>2
    <3> QED
      BY <1>2, <3>1 DEF Pending
  <2> QED
    BY <2>1, <2>2, <2>3
<1>4. c2s' # <<>>
  BY <1>2, EmptySeq
<1>5. ASSUME Pending \cap Called = {} PROVE CallsLast'
  BY <1>2, <1>5 DEF CallsLast, Pending
<1> QED
  BY <1>3, <1>4, <1>5

\* Taking a request leaves the others; a call was the only one.
LEMMA TakePending ==
  ASSUME DataOK, CallsLast, c2s # <<>>, c2s' = Tail(c2s)
  PROVE  /\ Pending = Pending' \cup {Head(c2s).op} /\ CallsLast'
         /\ Head(c2s).op \in Called => c2s' = <<>>
         /\ \A op \in Pending : op \in Called /\ Head(c2s).op # op => c2s' # <<>>
<1>1. c2s \in Seq(Requests)
  BY DEF DataOK
<1>2. /\ Len(c2s) \in Nat /\ Len(c2s) > 0 /\ Len(c2s') = Len(c2s) - 1
      /\ Head(c2s) = c2s[1] /\ \A i \in 1..Len(c2s') : c2s'[i] = c2s[i + 1]
  BY <1>1, HeadTailProperties, EmptyLen
<1>3. c2s' = <<>> <=> Len(c2s') = 0
  <2>1. c2s' \in Seq(Requests)
    BY <1>1, HeadTailProperties
  <2> QED
    BY <2>1, EmptyLen
<1>4. Pending = Pending' \cup {Head(c2s).op}
  <2>1. ASSUME NEW i \in 1..Len(c2s) PROVE c2s[i].op \in Pending' \cup {Head(c2s).op}
    <3>1. CASE i = 1
      BY <1>2, <3>1
    <3>2. CASE i # 1
      <4>1. i - 1 \in 1..Len(c2s') /\ c2s'[i - 1] = c2s[i]
        BY <1>2, <3>2
      <4> QED
        BY <4>1 DEF Pending
    <3> QED
      BY <3>1, <3>2
  <2>2. ASSUME NEW i \in 1..Len(c2s') PROVE c2s'[i].op \in Pending
    <3>1. i + 1 \in 1..Len(c2s) /\ c2s'[i] = c2s[i + 1]
      BY <1>2
    <3> QED
      BY <3>1 DEF Pending
  <2>3. Head(c2s).op \in Pending
    <3>1. 1 \in 1..Len(c2s)
      BY <1>2
    <3> QED
      BY <1>2, <3>1 DEF Pending
  <2>4. \A x \in Pending : x \in Pending' \cup {Head(c2s).op}
    BY <2>1 DEF Pending
  <2>5. \A x \in Pending' : x \in Pending
    BY <2>2 DEF Pending
  <2> QED
    BY <2>3, <2>4, <2>5
<1>5. CallsLast'
  BY <1>2 DEF CallsLast
<1>6. Head(c2s).op \in Called => c2s' = <<>>
  BY <1>2, <1>3 DEF CallsLast
<1>7. ASSUME NEW op \in Pending, op \in Called, Head(c2s).op # op PROVE c2s' # <<>>
  <2>1. op \in Pending'
    BY <1>4, <1>7
  <2> QED
    BY <2>1, <1>3 DEF Pending
<1> QED
  BY <1>4, <1>5, <1>6, <1>7

\* No list of tags is longer than that of an observation and a step.
LEMMA TagLists ==
  /\ Len(<<>>) = 0 /\ Len(<<"Step">>) = 1 /\ Len(<<"Seed">>) = 1
  /\ Len(<<"Null">>) = 1 /\ Len(<<"Obs", "Step">>) = 2
  /\ <<"Step">>[1] = "Step" /\ <<"Seed">>[1] = "Seed" /\ <<"Null">>[1] = "Null"
  /\ <<"Obs", "Step">>[1] = "Obs" /\ <<"Obs", "Step">>[2] = "Step"
  OBVIOUS

\* What RepliesInStep says of the three queues, by the place of the client: it
\* expects nothing, or the answer to the one call that is not yet answered.
LEMMA ReplyFacts ==
  ASSUME DataOK, RepliesInStep, cOpen, ~Stopped, CallsLast
  PROVE  /\ Expected = <<>> => s2c = <<>> /\ Owed = <<>> /\ Pending \cap Called = {}
         /\ s2c # <<>> \/ Owed # <<>> => Pending \cap Called = {}
         /\ Owed \in {<<"Obs", "Step">>, <<"Step">>} => cpc \in {"reset", "step"}
         /\ Expected = <<"Step">> /\ s2c # <<>> => Owed = <<>>
<1>1. /\ c2s \in Seq(Requests) /\ s2c \in Seq(Replies)
      /\ Expected \in Seq(Tags) /\ Owed \in Seq(Tags)
  BY TagListTypes DEF DataOK
<1>2. Foreseen(s2c, Expected) /\ Matched(c2s, s2c, Owed, Expected)
  BY DEF RepliesInStep
<1>3. /\ Len(c2s) \in Nat /\ Len(s2c) \in Nat /\ Len(Owed) \in Nat
      /\ Len(Expected) \in Nat
      /\ (s2c = <<>> <=> Len(s2c) = 0) /\ (Owed = <<>> <=> Len(Owed) = 0)
      /\ (c2s = <<>> <=> Len(c2s) = 0)
  BY <1>1, EmptyLen
<1>4. \A i \in 1..Len(c2s) : c2s[i].op \in Ops
  <2>1. \A i \in 1..Len(c2s) : c2s[i] \in Requests
    BY <1>1, ElementOfSeq
  <2> QED
    BY <2>1 DEF Requests
<1>5. CASE c2s # <<>> /\ Reply(c2s[Len(c2s)].op) # <<>>
  <2>1. s2c = <<>> /\ Owed = <<>> /\ Expected # <<>>
    BY <1>2, <1>5 DEF Matched
  <2> QED
    BY <2>1
<1>6. CASE ~(c2s # <<>> /\ Reply(c2s[Len(c2s)].op) # <<>>)
  <2>1. /\ Len(s2c) + Len(Owed) = Len(Expected)
        /\ \A i \in 1..Len(Owed) : Owed[i] = Expected[Len(s2c) + i]
    BY <1>2, <1>6 DEF Matched
  <2>2. Pending \cap Called = {}
    <3> SUFFICES ASSUME NEW i \in 1..Len(c2s) PROVE c2s[i].op \notin Called
      BY DEF Pending
    <3>1. CASE i = Len(c2s)
      BY <1>3, <1>4, <1>6, <3>1, CalledReply
    <3>2. CASE i # Len(c2s)
      BY <1>3, <3>2 DEF CallsLast
    <3> QED
      BY <3>1, <3>2
  <2>3. Expected = <<>> => s2c = <<>> /\ Owed = <<>>
    BY <1>3, <2>1, TagLists
  <2>4. Expected = <<"Step">> /\ s2c # <<>> => Owed = <<>>
    BY <1>3, <2>1, TagLists
  <2>5. Owed \in {<<"Obs", "Step">>, <<"Step">>} => cpc \in {"reset", "step"}
    <3> SUFFICES ASSUME Owed \in {<<"Obs", "Step">>, <<"Step">>},
                        cpc \notin {"reset", "step"}
                 PROVE  FALSE
      OBVIOUS
    <3>1. Expected \in {<<>>, <<"Seed">>, <<"Null">>}
      BY DEF Expected
    <3>2. CASE Owed = <<"Obs", "Step">>
      BY <1>3, <2>1, <3>1, <3>2, TagLists
    <3>3. CASE Owed = <<"Step">>
      <4>1. Len(s2c) = 0 /\ Len(Expected) = 1
        BY <1>3, <2>1, <3>1, <3>3, TagLists
      <4>2. Owed[1] = Expected[1]
        BY <2>1, <3>3, <4>1, TagLists
      <4> QED
        BY <3>1, <3>3, <4>1, <4>2, TagLists
    <3> QED
      BY <3>2, <3>3
  <2> QED
    BY <2>2, <2>3, <2>4, <2>5
<1> QED
  BY <1>5, <1>6

\* Nothing is in flight in an empty queue.
LEMMA NonePending ==
  (c2s = <<>> => Pending = {}) /\ (c2s' = <<>> => Pending' = {})
  BY TagLists DEF Pending

\* The client changes nothing of the handler.
LEMMA ClientAlone ==
  ASSUME Client
  PROVE  UNCHANGED <<handlerVars, sOpen>>
  BY Zenon DEF Client, StartRun, NewGame, TakeTurn, ShowSeed, Render,
     FinalRender, CloseGame, SaveCoverage, EndRun, SendExitServer, Abort,
     ClientRead, ReadObs, ReadStep, ReadSeed, ReadNullByte, ReadEOF

\* A request that is taken was in flight; after a call nothing is.
LEMMA Taking ==
  ASSUME DataOK, QueueOK, NEW op \in Ops, Receive(op)
  PROVE  /\ hpc = "read" /\ UNCHANGED <<clientVars, sOpen>> /\ Meant /\ CallsLast
         /\ Pending = Pending' \cup {op} /\ CallsLast'
         /\ op \in Called => c2s' = <<>> /\ Pending' = {}
         /\ \A p \in Pending : p \in Called /\ op # p => c2s' # <<>>
<1>1. /\ hpc = "read" /\ c2s # <<>> /\ Head(c2s).op = op /\ c2s' = Tail(c2s)
      /\ UNCHANGED <<clientVars, sOpen>>
  BY DEF Receive
<1>2. CallsLast /\ Meant
  BY <1>1 DEF QueueOK, Stopped
<1> QED
  BY <1>1, <1>2, TakePending, NonePending

\* While the handler works on a call nothing is in flight.
LEMMA Working ==
  ASSUME QueueOK, hpc \in {"cmds", "obs", "obsOut", "stepOut", "seedOut", "script"}
  PROVE  c2s = <<>> /\ Pending = {}
<1>1. Owed # <<>> /\ ~Stopped
  BY DEF Owed, Stopped
<1> QED
  BY <1>1, NonePending DEF QueueOK

\* Every step preserves HandlerOK.
LEMMA HandlerOKStep ==
  ASSUME DataOK, GameInv, [Next]_vars
  PROVE  HandlerOK'
<1>1. HandlerOK /\ QueueOK /\ fresh \in {"none", "running", "over"} /\ env \in Games
  BY DEF GameInv, DataOK
<1>2. CASE Client \/ Reap \/ Terminated \/ UNCHANGED vars
  <2>1. UNCHANGED handlerVars
    BY <1>2, ClientAlone DEF Reap, Terminated, vars
  <2> QED
    BY <1>1, <2>1 DEF HandlerOK, handlerVars
<1>3. CASE HandleReset
  <2>1. Receive("Reset")
    BY <1>3 DEF HandleReset
  <2>2. "Reset" \in Ops /\ "Reset" \in Called /\ "Close" \notin {"Reset"}
    BY DEF Ops, Called
  <2>3. Meant /\ Pending = {"Reset"}
    BY <1>1, <2>1, <2>2, Taking
  <2>4. env \in {"none", "closed"}
    BY <2>2, <2>3 DEF Meant, Away
  <2> QED
    BY <1>3, <2>4 DEF HandleReset, HandlerOK
<1>4. CASE HandleSteps
  <2>1. Receive("Step")
    BY <1>4 DEF HandleSteps
  <2>2. "Step" \in Ops
    BY DEF Ops
  <2>3. hpc = "read" /\ Meant /\ "Step" \in Pending
    BY <1>1, <2>1, <2>2, Taking
  <2>4. env \in {"running", "over"}
    BY <2>3 DEF Meant, Playing
  <2> QED
    BY <1>1, <1>4, <2>3, <2>4 DEF HandleSteps, HandlerOK
<1>5. CASE ResetFails \/ HandleGetSeed \/ HandleRender \/ HandleClose
          \/ HandleCoverage \/ HandleExit \/ EndOfStream \/ ConnectionLost
  <2>1. fresh' = "none" /\ hpc' \notin {"cmds", "obs", "obsOut", "stepOut"}
    BY <1>1, <1>5 DEF ResetFails, HandleGetSeed, HandleRender, HandleClose,
       HandleCoverage, HandleExit, EndOfStream, ConnectionLost, Receive, Raise,
       HandlerOK, handlerVars
  <2> QED
    BY <2>1 DEF HandlerOK
<1>6. CASE StepCommand \/ EndSteps \/ DismissMessage
  BY <1>1, <1>6 DEF StepCommand, EndSteps, DismissMessage, Raise, Game, HandlerOK
<1>7. CASE WriteObs \/ WriteStep \/ WriteSeed \/ WriteNullByte \/ MessageTooLong
          \/ Finally
  BY <1>1, <1>7 DEF WriteObs, WriteStep, WriteSeed, WriteNullByte,
     MessageTooLong, Finally, Raise, HandlerOK
<1> QED
  BY <1>2, <1>3, <1>4, <1>5, <1>6, <1>7 DEF Next, Handler

\* Where the client is when it sends a request, and where it goes.
Sent(op) ==
  \/ op = "Step" /\ cpc = "play" /\ cpc' = "step"
  \/ op = "GetSeed" /\ cpc \in {"play", "show"} /\ cpc' \in {"seed", "stepSeed"}
  \/ op = "Render" /\ cpc \in {"play", "render"} /\ cpc' \in {"play", "leave"}
  \/ op = "Close" /\ cpc \in {"play", "leave"} /\ cpc' = "closing"
  \/ op = "Reset" /\ cpc \in {"idle", "create"} /\ cpc' = "reset" /\ ~done'
  \/ op = "SaveCoverage" /\ cpc = "closing" /\ cpc' = "saveCov"
  \/ op = "ResetCoverage" /\ cpc = "idle" /\ cpc' = "resetCov"
  \/ op = "Exit" /\ cpc = "exit" /\ ~cOpen'

\* A client that sends expects nothing; another step leaves the requests alone.
LEMMA ClientSends ==
  ASSUME Opened, Client
  PROVE  \/ c2s' = c2s
         \/ \E op \in Ops, arg \in 0..ByteRange :
              /\ Send(op, arg) /\ Sent(op) /\ Expected = <<>> /\ cOpen
              /\ s2c' = s2c /\ (op # "Reset" => done' = done)
<1> DEFINE G(op, arg) == /\ Send(op, arg) /\ Sent(op) /\ Expected = <<>> /\ cOpen
                         /\ s2c' = s2c /\ (op # "Reset" => done' = done)
<1>1. CASE StartRun
  <2>1. G("ResetCoverage", 0)
    BY <1>1 DEF StartRun, Sent, Expected, Opened
  <2> QED
    BY <2>1, RequestTypes DEF Ops
<1>2. CASE NewGame
  <2>1. G("Reset", 0)
    BY <1>2 DEF NewGame, Sent, Expected, Opened
  <2> QED
    BY <2>1, RequestTypes DEF Ops
<1>3. CASE TakeTurn
  <2>1. PICK n \in Chains : Send("Step", n)
    BY <1>3 DEF TakeTurn
  <2>2. G("Step", n)
    BY <1>3, <2>1 DEF TakeTurn, Sent, Expected, Opened
  <2> QED
    BY <2>2, RequestTypes DEF Ops
<1>4. CASE ShowSeed
  <2>1. G("GetSeed", 0)
    BY <1>4 DEF ShowSeed, Sent, Expected, Opened
  <2> QED
    BY <2>1, RequestTypes DEF Ops
<1>5. CASE Render
  <2>1. G("Render", 0)
    BY <1>5 DEF Render, Sent, Expected, Opened
  <2> QED
    BY <2>1, RequestTypes DEF Ops
<1>6. CASE FinalRender
  <2>1. G("Render", 0)
    BY <1>6 DEF FinalRender, Sent, Expected, Opened
  <2> QED
    BY <2>1, RequestTypes DEF Ops
<1>7. CASE CloseGame
  <2>1. G("Close", 0)
    BY <1>7 DEF CloseGame, Sent, Expected, Opened
  <2> QED
    BY <2>1, RequestTypes DEF Ops
<1>8. CASE SaveCoverage
  <2>1. G("SaveCoverage", 0)
    BY <1>8 DEF SaveCoverage, Sent, Expected, Opened
  <2> QED
    BY <2>1, RequestTypes DEF Ops
<1>9. CASE SendExitServer
  <2>1. G("Exit", 0)
    BY <1>9 DEF SendExitServer, Sent, Expected, Opened
  <2> QED
    BY <2>1, RequestTypes DEF Ops
<1>10. CASE EndRun \/ Abort \/ ClientRead
  BY <1>10 DEF EndRun, Abort, ClientRead, ReadObs, ReadStep, ReadSeed,
     ReadNullByte, ReadEOF
<1> QED
  BY <1>1, <1>2, <1>3, <1>4, <1>5, <1>6, <1>7, <1>8, <1>9, <1>10 DEF Client

\* What a client does is to read, to leave, to end a run, or to send.
LEMMA OthersSend ==
  ASSUME DataOK, Client, ~(ClientRead \/ EndRun \/ Abort)
  PROVE  c2s' # c2s
<1>1. PICK op \in Ops, arg \in 0..ByteRange : Send(op, arg)
  BY RequestTypes DEF Client, StartRun, NewGame, TakeTurn, ShowSeed, Render,
     FinalRender, CloseGame, SaveCoverage, SendExitServer, Ops
<1>2. c2s \in Seq(Requests) /\ [op |-> op, arg |-> arg] \in Requests
  BY DEF DataOK, Requests
<1>3. Len(c2s') = Len(c2s) + 1 /\ Len(c2s) \in Nat
  BY <1>1, <1>2, AppendProperties, EmptyLen DEF Send
<1> QED
  BY <1>3

\* What is in flight before and after a request that a live handler will read.
LEMMA Sending ==
  ASSUME DataOK, RepliesInStep, QueueOK, cOpen, Expected = <<>>, ~Stopped,
         NEW op \in Ops, NEW arg \in 0..ByteRange, Send(op, arg)
  PROVE  /\ Pending' = Pending \cup {op} /\ Pending \cap Called = {}
         /\ Owed = <<>> /\ CallsLast' /\ Meant /\ c2s' # <<>>
<1>1. CallsLast /\ Meant
  BY DEF QueueOK
<1>2. Owed = <<>> /\ Pending \cap Called = {}
  BY <1>1, ReplyFacts
<1> QED
  BY <1>1, <1>2, SendPending

\* Every step preserves QueueOK.
LEMMA QueueOKStep ==
  ASSUME DataOK, Opened, RepliesInStep, GameInv, [Next]_vars
  PROVE  QueueOK'
<1> SUFFICES ASSUME ~Stopped'
             PROVE  (Owed' # <<>> => c2s' = <<>>) /\ CallsLast' /\ Meant'
  BY DEF QueueOK
<1>1. QueueOK /\ HandlerOK
  BY DEF GameInv
<1>2. ASSUME c2s' = <<>> PROVE CallsLast' /\ Meant'
  BY <1>2, NonePending, TagLists DEF CallsLast, Meant
<1>3. CASE c2s' = c2s /\ UNCHANGED <<hpc, env>>
  <2>1. Owed' = Owed /\ (Stopped' <=> Stopped) /\ Pending' = Pending
    BY <1>3 DEF Owed, Stopped, Pending
  <2>2. (CallsLast' <=> CallsLast) /\ (Meant' <=> Meant)
    BY <1>3, <2>1 DEF CallsLast, Meant, Playing, Away
  <2> QED
    BY <1>1, <1>3, <2>1, <2>2 DEF QueueOK
<1>4. CASE Client /\ c2s' # c2s
  <2>1. UNCHANGED <<hpc, env>> /\ ~Stopped /\ Owed' = Owed
    BY <1>4, ClientAlone DEF handlerVars, Stopped, Owed
  <2>2. PICK op \in Ops, arg \in 0..ByteRange :
          Send(op, arg) /\ Sent(op) /\ Expected = <<>> /\ cOpen
    BY <1>4, ClientSends
  <2>3. /\ Pending' = Pending \cup {op} /\ Pending \cap Called = {}
        /\ Owed = <<>> /\ CallsLast' /\ Meant
    BY <1>1, <2>1, <2>2, Sending
  <2>4. /\ cpc \in {"play", "render", "leave", "show"} => Playing
        /\ cpc \in {"idle", "create"} => Away
    BY <2>1, <2>2 DEF GameInv, ClientOK
  <2>5. Meant'
    BY <2>1, <2>2, <2>3, <2>4 DEF Meant, Playing, Away, Called, Sent
  <2> QED
    BY <2>1, <2>3, <2>5
<1>5. CASE HandleReset \/ HandleGetSeed \/ HandleSteps \/ HandleCoverage
  <2>1. PICK op \in {"Reset", "GetSeed", "Step", "SaveCoverage", "ResetCoverage"} :
          Receive(op)
    BY <1>5 DEF HandleReset, HandleGetSeed, HandleSteps, HandleCoverage
  <2>2. c2s' = <<>>
    BY <1>1, <2>1, Taking DEF Ops, Called
  <2> QED
    BY <1>2, <2>2
<1>6. CASE HandleRender \/ HandleClose
  <2>1. PICK op \in {"Render", "Close"} : 
          /\ Receive(op) /\ hpc' = "read"
          /\ IF op = "Render" THEN env' = env ELSE env' = "closed"
    <3>1. CASE HandleRender
      BY <1>6, <3>1 DEF HandleRender, Receive, Raise, Stopped, handlerVars
    <3>2. CASE HandleClose
      BY <1>6, <3>2 DEF HandleClose, Receive, Raise, Stopped
    <3> QED
      BY <1>6, <3>1, <3>2
  <2>2. Pending = Pending' \cup {op} /\ CallsLast' /\ Meant
    BY <1>1, <2>1, Taking DEF Ops
  <2>3. Meant'
    BY <2>1, <2>2 DEF Meant, Playing, Away
  <2>4. Owed' = <<>>
    BY <2>1 DEF Owed
  <2> QED
    BY <2>2, <2>3, <2>4
<1>7. CASE StepCommand \/ EndSteps \/ DismissMessage \/ WriteObs \/ WriteStep
           \/ WriteSeed \/ WriteNullByte
  <2>1. /\ c2s' = c2s
        /\ hpc \in {"cmds", "obs", "obsOut", "stepOut", "seedOut", "script"}
    BY <1>7 DEF StepCommand, EndSteps, DismissMessage, WriteObs, WriteStep,
       WriteSeed, WriteNullByte
  <2> QED
    BY <1>1, <1>2, <2>1, Working
<1>8. CASE ResetFails \/ HandleExit \/ MessageTooLong \/ EndOfStream
           \/ ConnectionLost \/ Finally
  BY <1>8 DEF ResetFails, HandleExit, MessageTooLong, EndOfStream,
     ConnectionLost, Finally, Raise, Stopped
<1>9. CASE Reap \/ Terminated \/ UNCHANGED vars
  BY <1>3, <1>9 DEF Reap, Terminated, vars, handlerVars
<1>10. CASE Client /\ c2s' = c2s
  BY <1>3, <1>10, ClientAlone DEF handlerVars
<1> QED
  BY <1>4, <1>5, <1>6, <1>7, <1>8, <1>9, <1>10 DEF Next, Handler

\* A step of the client preserves ClientOK.
LEMMA ClientOKClient ==
  ASSUME DataOK, Opened, Opened', RepliesInStep, GameInv, Client
  PROVE  ClientOK'
<1> SUFFICES ASSUME cOpen', ~Stopped' PROVE ClientOK'
  BY DEF ClientOK
<1>1. UNCHANGED <<hpc, env, fresh>> /\ ~Stopped
  BY ClientAlone DEF handlerVars, Stopped
<1>2. QueueOK /\ ClientOK /\ HandlerOK /\ CallsLast
  BY <1>1 DEF GameInv, QueueOK
<1>3. CASE c2s' # c2s
  <2>1. PICK op \in Ops, arg \in 0..ByteRange :
          Send(op, arg) /\ Sent(op) /\ Expected = <<>> /\ cOpen
    BY <1>3, ClientSends
  <2>2. Pending' = Pending \cup {op} /\ c2s' # <<>>
    BY <2>1, SendPending
  <2>3. /\ cpc \in {"play", "render", "leave", "show"} => Playing /\ fresh = "none"
        /\ cpc \in {"idle", "create", "closing"} => Away
    BY <1>1, <1>2, <2>1 DEF ClientOK
  <2> QED
    BY <1>1, <2>1, <2>2, <2>3 DEF ClientOK, Sent, Playing, Away
<1>4. CASE c2s' = c2s
  <2>1. (Playing' <=> Playing) /\ (Away' <=> Away) /\ Pending' = Pending
    BY <1>1, <1>4 DEF Playing, Away, Pending
  <2>2. CASE ReadStep
    <3>1. cOpen /\ cpc \in {"reset", "step"} /\ Expected = <<"Step">> /\ s2c # <<>>
      BY <2>2 DEF ReadStep, Expected, Arrived, Opened
    <3>2. Owed = <<>> /\ Pending \cap Called = {}
      BY <1>1, <1>2, <3>1, ReplyFacts
    <3>3. fresh = "none"
      BY <1>2, <3>2, TagLists DEF HandlerOK, Owed
    <3>4. cpc = "reset" => c2s = <<>>
      BY <1>1, <1>2, <3>1, <3>2 DEF ClientOK, Called
    <3>5. Playing
      BY <1>1, <1>2, <3>1, <3>3, <3>4 DEF ClientOK
    <3> QED
      BY <1>1, <2>1, <2>2, <3>3, <3>5 DEF ReadStep, ClientOK
  <2>3. CASE ReadObs
    BY <1>1, <1>2, <1>4, <2>1, <2>3 DEF ReadObs, ClientOK
  <2>4. CASE ReadSeed \/ ReadNullByte
    <3>1. cOpen
      BY <2>4 DEF ReadSeed, ReadNullByte, Opened
    <3> QED
      BY <1>1, <1>2, <2>1, <2>4, <3>1 DEF ReadSeed, ReadNullByte, ClientOK
  <2>5. CASE EndRun
    <3>1. cOpen /\ cpc \in {"ended", "closing"} /\ cpc' \in {"idle", "closed"}
      BY <2>5 DEF EndRun, Opened
    <3> QED
      BY <1>1, <1>2, <2>1, <3>1 DEF ClientOK
  <2>6. CASE Abort \/ ReadEOF
    BY <2>6 DEF Abort, ReadEOF
  <2>7. CASE ~(ClientRead \/ EndRun \/ Abort)
    BY <1>4, <2>7, OthersSend
  <2> QED
    BY <2>2, <2>3, <2>4, <2>5, <2>6, <2>7 DEF ClientRead
<1> QED
  BY <1>3, <1>4

\* Every step preserves ClientOK.
LEMMA ClientOKStep ==
  ASSUME DataOK, Opened, Opened', RepliesInStep, GameInv, [Next]_vars
  PROVE  ClientOK'
<1> SUFFICES ASSUME ~Client, cOpen', ~Stopped' PROVE ClientOK'
  BY ClientOKClient DEF ClientOK
<1>1. cOpen /\ UNCHANGED <<cpc, cOpen>>
  BY HandlerAlone DEF Next, Reap, Terminated, vars, clientVars
<1>2. ~Stopped
  BY Zenon DEF Next, Handler, Receive, Raise, HandleReset, ResetFails,
     HandleGetSeed, WriteSeed, HandleRender, HandleClose, HandleSteps,
     StepCommand, EndSteps, DismissMessage, WriteObs, MessageTooLong, WriteStep,
     HandleCoverage, WriteNullByte, HandleExit, EndOfStream, ConnectionLost,
     Finally, Reap, Terminated, vars, clientVars, handlerVars, Stopped
<1>3. QueueOK /\ ClientOK /\ HandlerOK /\ CallsLast
  BY <1>2 DEF GameInv, QueueOK
<1>4. CASE UNCHANGED <<c2s, env, fresh>>
  <2>1. (Playing' <=> Playing) /\ (Away' <=> Away) /\ Pending' = Pending
    BY <1>4 DEF Playing, Away, Pending
  <2> QED
    BY <1>1, <1>2, <1>3, <1>4, <2>1 DEF ClientOK
<1>5. CASE HandleReset \/ HandleGetSeed \/ HandleSteps \/ HandleCoverage
  <2>1. PICK op \in {"Reset", "GetSeed", "Step", "SaveCoverage", "ResetCoverage"} :
          /\ Receive(op) /\ env' = env
          /\ IF op = "Reset" THEN fresh' = "running" ELSE fresh' = fresh
    <3>1. CASE HandleGetSeed
      BY <1>5, <3>1 DEF HandleGetSeed, Receive, Raise, Stopped
    <3>2. CASE HandleReset \/ HandleSteps \/ HandleCoverage
      BY <1>5, <3>2 DEF HandleReset, HandleSteps, HandleCoverage
    <3> QED
      BY <1>5, <3>1, <3>2
  <2>2. c2s' = <<>> /\ Pending = {op} /\ Pending' = {} /\ Meant /\ c2s # <<>>
    BY <1>3, <2>1, Taking DEF Ops, Called, Receive
  <2>3. op = "Reset" => ~Playing
    BY <2>2 DEF Meant, Away, Playing
  <2> QED
    BY <1>1, <1>2, <1>3, <2>1, <2>2, <2>3 DEF ClientOK, Playing, Away
<1>6. CASE HandleRender \/ HandleClose
  <2>1. PICK op \in {"Render", "Close"} :
          /\ Receive(op) /\ fresh' = fresh
          /\ IF op = "Render" THEN env' = env ELSE env' = "closed"
    <3>1. CASE HandleRender
      BY <1>6, <3>1 DEF HandleRender, Receive, Raise, Stopped, handlerVars
    <3>2. CASE HandleClose
      BY <1>6, <3>2 DEF HandleClose, Receive, Raise, Stopped
    <3> QED
      BY <1>6, <3>1, <3>2
  <2>2. /\ Pending = Pending' \cup {op} /\ c2s # <<>>
        /\ "Reset" \in Pending => c2s' # <<>>
    BY <1>3, <2>1, Taking DEF Ops, Called, Receive
  <2> QED
    BY <1>1, <1>2, <1>3, <2>1, <2>2 DEF ClientOK, Playing, Away
<1>7. CASE StepCommand \/ DismissMessage \/ WriteStep
  <2>1. c2s' = c2s /\ hpc \in {"cmds", "obs", "obsOut", "stepOut"}
    BY <1>7 DEF StepCommand, DismissMessage, WriteStep
  <2>2. c2s = <<>> /\ Pending = {} /\ Pending' = {}
    BY <1>3, <2>1, Working, NonePending
  <2>3. CASE StepCommand
    <3>1. env = "running" /\ env' \in {"running", "over"} /\ fresh' = fresh
      BY <2>3 DEF StepCommand, Raise, Stopped
    <3> QED
      BY <1>1, <1>2, <1>3, <2>1, <2>2, <3>1 DEF ClientOK, Playing, Away
  <2>4. CASE DismissMessage
    <3>1. \/ fresh = "none" /\ env = "running" /\ env' \in {"running", "over"}
               /\ fresh' = fresh
          \/ fresh # "none" /\ fresh' # "none" /\ env' = env
      BY <2>4 DEF DismissMessage, Raise, Stopped, Game
    <3> QED
      BY <1>1, <1>2, <1>3, <2>1, <2>2, <3>1 DEF ClientOK, Playing, Away
  <2>5. CASE WriteStep
    <3>1. Owed = <<"Step">> /\ fresh' = "none"
      BY <2>5 DEF WriteStep, Owed
    <3>2. cpc \in {"reset", "step"}
      BY <1>1, <1>2, <1>3, <3>1, ReplyFacts
    <3>3. fresh # "none" => env' \in {"running", "over"}
      BY <2>5 DEF WriteStep, DataOK
    <3>4. fresh = "none" => env' = env
      BY <2>5 DEF WriteStep
    <3> QED
      BY <1>1, <1>2, <1>3, <2>1, <2>2, <3>1, <3>2, <3>3, <3>4
         DEF ClientOK, Playing, Away
  <2> QED
    BY <1>7, <2>3, <2>4, <2>5
<1>8. CASE EndSteps \/ WriteObs \/ WriteSeed \/ WriteNullByte
  <2>1. UNCHANGED <<c2s, env, fresh>>
    BY <1>8 DEF EndSteps, WriteObs, WriteSeed, WriteNullByte, Raise, Stopped
  <2> QED
    BY <1>4, <2>1
<1>9. CASE ResetFails \/ HandleExit \/ MessageTooLong \/ EndOfStream
           \/ ConnectionLost \/ Finally
  BY <1>9 DEF ResetFails, HandleExit, MessageTooLong, EndOfStream,
     ConnectionLost, Finally, Raise, Stopped
<1>10. CASE Reap \/ Terminated \/ UNCHANGED vars
  BY <1>4, <1>10 DEF Reap, Terminated, vars, handlerVars
<1> QED
  BY <1>5, <1>6, <1>7, <1>8, <1>9, <1>10 DEF Next, Handler

\* What the client is told when the queue of replies changes.
LEMMA TellingFacts ==
  ASSUME DataOK
  PROVE  /\ s2c = <<>> => ~Told
         /\ s2c # <<>> /\ s2c' = Tail(s2c) =>
              (Told' => Told) /\ (Head(s2c).tag = "Step" /\ Head(s2c).ok => Told)
         /\ \A r \in Replies : s2c' = Append(s2c, r) =>
              (Told' => Told \/ (r.tag = "Step" /\ r.ok))
<1>1. s2c \in Seq(Replies)
  BY DEF DataOK
<1>2. s2c = <<>> => ~Told
  BY TagLists DEF Told
<1>3. ASSUME s2c # <<>>, s2c' = Tail(s2c)
      PROVE  (Told' => Told) /\ (Head(s2c).tag = "Step" /\ Head(s2c).ok => Told)
  <2>1. /\ Len(s2c') = Len(s2c) - 1 /\ Head(s2c) = s2c[1] /\ Len(s2c) \in Nat
        /\ \A i \in 1..Len(s2c') : s2c'[i] = s2c[i + 1]
        /\ Len(s2c) > 0
    BY <1>1, <1>3, HeadTailProperties, EmptyLen
  <2>2. ASSUME NEW i \in 1..Len(s2c'), s2c'[i].tag = "Step", s2c'[i].ok PROVE Told
    <3>1. i + 1 \in 1..Len(s2c) /\ s2c'[i] = s2c[i + 1]
      BY <2>1
    <3> QED
      BY <2>2, <3>1, Zenon DEF Told
  <2>3. 1 \in 1..Len(s2c)
    BY <2>1
  <2>4. Told' => Told
    BY <2>2, Zenon DEF Told
  <2>5. Head(s2c).tag = "Step" /\ Head(s2c).ok => Told
    BY <2>1, <2>3, Zenon DEF Told
  <2> QED
    BY <2>4, <2>5
<1>4. ASSUME NEW r \in Replies, s2c' = Append(s2c, r), Told'
      PROVE  Told \/ (r.tag = "Step" /\ r.ok)
  <2>1. /\ Len(s2c') = Len(s2c) + 1 /\ Len(s2c) \in Nat /\ s2c'[Len(s2c) + 1] = r
        /\ \A i \in 1..Len(s2c) : s2c'[i] = s2c[i]
    BY <1>1, <1>4, AppendProperties, EmptyLen
  <2>2. PICK i \in 1..Len(s2c') : s2c'[i].tag = "Step" /\ s2c'[i].ok
    BY <1>4 DEF Told
  <2>3. CASE i = Len(s2c) + 1
    BY <2>1, <2>2, <2>3
  <2>4. CASE i # Len(s2c) + 1
    <3>1. i \in 1..Len(s2c) /\ s2c'[i] = s2c[i]
      BY <2>1, <2>4
    <3> QED
      BY <2>2, <3>1, Zenon DEF Told
  <2> QED
    BY <2>3, <2>4
<1> QED
  BY <1>2, <1>3, <1>4

\* Every step preserves DoneOK.
LEMMA DoneOKStep ==
  ASSUME DataOK, Opened, RepliesInStep, GameInv, [Next]_vars
  PROVE  DoneOK'
<1> SUFFICES ASSUME done' \/ Told'
             PROVE  /\ env' \in {"over", "closed"} /\ fresh' = "none"
                    /\ "Reset" \notin Pending'
  BY DEF DoneOK
<1>1. HandlerOK /\ QueueOK /\ DoneOK
  BY DEF GameInv
<1>2. s2c' = s2c => (Told' <=> Told)
  BY Zenon DEF Told
<1>3. CASE Client
  <2>1. UNCHANGED <<env, fresh>>
    BY <1>3, ClientAlone DEF handlerVars
  <2>2. CASE c2s' # c2s
    <3>1. PICK op \in Ops, arg \in 0..ByteRange :
            /\ Send(op, arg) /\ Sent(op) /\ Expected = <<>> /\ cOpen
            /\ s2c' = s2c /\ (op # "Reset" => done' = done)
      BY <1>3, <2>2, ClientSends
    <3>2. s2c = <<>>
      <4>1. Foreseen(s2c, <<>>) /\ s2c \in Seq(Replies)
        BY <3>1 DEF RepliesInStep, DataOK
      <4>2. Len(s2c) = 0
        BY <4>1, TagLists, EmptyLen DEF Foreseen
      <4> QED
        BY <4>1, <4>2, EmptyLen
    <3>3. done'
      BY <1>2, <3>1, <3>2, TellingFacts
    <3>4. op # "Reset" /\ done
      BY <3>1, <3>3 DEF Sent
    <3>5. Pending' = Pending \cup {op}
      BY <3>1, SendPending
    <3> QED
      BY <1>1, <2>1, <3>4, <3>5 DEF DoneOK
  <2>3. CASE c2s' = c2s
    <3>1. done \/ Told
      <4>1. CASE ReadStep
        <5>1. /\ s2c # <<>> /\ s2c' = Tail(s2c) /\ Head(s2c).tag = "Step"
              /\ done' = Head(s2c).ok
          BY <4>1 DEF ReadStep, Arrived
        <5> QED
          BY <5>1, TellingFacts
      <4>2. CASE ReadObs \/ ReadSeed \/ ReadNullByte
        <5>1. s2c # <<>> /\ s2c' = Tail(s2c) /\ done' = done
          BY <4>2 DEF ReadObs, ReadSeed, ReadNullByte, Arrived
        <5> QED
          BY <5>1, TellingFacts
      <4>3. CASE ~(ReadObs \/ ReadStep \/ ReadSeed \/ ReadNullByte)
        <5>1. s2c' = s2c /\ (done' = done \/ done' = FALSE)
          BY <1>3, <4>3, Zenon DEF Client, StartRun, NewGame, TakeTurn,
             ShowSeed, Render, FinalRender, CloseGame, SaveCoverage, EndRun,
             SendExitServer, Abort, ClientRead, ReadEOF
        <5> QED
          BY <1>2, <5>1
      <4> QED
        BY <4>1, <4>2, <4>3
    <3>2. Pending' = Pending
      BY <2>3 DEF Pending
    <3> QED
      BY <1>1, <2>1, <3>1, <3>2 DEF DoneOK
  <2> QED
    BY <2>2, <2>3
<1>4. CASE WriteStep
  <2>1. /\ hpc = "stepOut" /\ c2s' = c2s /\ fresh' = "none" /\ done' = done
        /\ env' = (IF fresh # "none" THEN fresh ELSE env)
        /\ s2c' = Append(s2c, [tag |-> "Step", ok |-> hdone = "yes"])
    BY <1>4 DEF WriteStep, Write, clientVars
  <2>2. Pending' = {}
    BY <1>1, <2>1, Working, NonePending
  <2>3. done \/ Told \/ hdone = "yes"
    <3>1. [tag |-> "Step", ok |-> hdone = "yes"] \in Replies
      BY ReplyTypes DEF Tags
    <3>2. done' \/ Told \/ [tag |-> "Step", ok |-> hdone = "yes"].ok
      BY <2>1, <3>1, TellingFacts
    <3> QED
      BY <2>1, <3>2
  <2>4. env \in {"over", "closed"} /\ fresh = "none"
    BY <1>1, <2>1, <2>3 DEF DoneOK, HandlerOK
  <2> QED
    BY <2>1, <2>2, <2>4
<1>5. CASE Handler /\ ~WriteStep
  <2>1. done \/ Told
    <3>1. done' = done
      BY <1>5, HandlerAlone DEF clientVars
    <3>2. CASE WriteObs \/ WriteSeed \/ WriteNullByte
      <4>1. PICK tag \in Tags \ {"Step"}, ok \in BOOLEAN : Write(tag, ok)
        BY <3>2 DEF WriteObs, WriteSeed, WriteNullByte, Tags
      <4>2. [tag |-> tag, ok |-> ok] \in Replies
        BY ReplyTypes
      <4>3. [tag |-> tag, ok |-> ok].tag # "Step"
        BY <4>1
      <4>4. Told' => Told
        BY <4>1, <4>2, <4>3, TellingFacts DEF Write
      <4> QED
        BY <3>1, <4>4
    <3>3. CASE ~(WriteObs \/ WriteSeed \/ WriteNullByte)
      <4>1. s2c' = s2c
        BY <1>5, <3>3, Zenon DEF Handler, Receive, Raise, HandleReset, ResetFails,
           HandleGetSeed, HandleRender, HandleClose, HandleSteps, StepCommand,
           EndSteps, DismissMessage, MessageTooLong, HandleCoverage, HandleExit,
           EndOfStream, ConnectionLost, Finally
      <4> QED
        BY <1>2, <3>1, <4>1
    <3> QED
      BY <3>2, <3>3
  <2>2. env \in {"over", "closed"} /\ fresh = "none" /\ "Reset" \notin Pending
    BY <1>1, <2>1 DEF DoneOK
  <2>3. "Reset" \notin Pending'
    <3>1. CASE c2s' = c2s
      BY <2>2, <3>1 DEF Pending
    <3>2. CASE c2s' # c2s
      <4>1. PICK op \in Ops : Receive(op)
        BY <1>5, <3>2 DEF Handler, HandleReset, ResetFails, HandleGetSeed,
           WriteSeed, HandleRender, HandleClose, HandleSteps, StepCommand,
           EndSteps, DismissMessage, WriteObs, MessageTooLong, HandleCoverage,
           WriteNullByte, HandleExit, EndOfStream, ConnectionLost, Finally, Ops
      <4> QED
        BY <1>1, <2>2, <4>1, Taking
    <3> QED
      BY <3>1, <3>2
  <2>4. ~HandleReset
    <3>1. HandleReset => "Reset" \in Pending
      BY <1>1, Taking DEF HandleReset, Ops
    <3> QED
      BY <2>2, <3>1
  <2>5. env' \in {"over", "closed"} /\ fresh' = "none"
    BY <1>5, <2>2, <2>4 DEF Handler, Receive, Raise, ResetFails, HandleGetSeed,
       WriteSeed, HandleRender, HandleClose, HandleSteps, StepCommand, EndSteps,
       DismissMessage, WriteObs, MessageTooLong, HandleCoverage, WriteNullByte,
       HandleExit, EndOfStream, ConnectionLost, Finally, Game, handlerVars
  <2> QED
    BY <2>3, <2>5
<1>6. CASE Reap \/ Terminated \/ UNCHANGED vars
  <2>1. UNCHANGED <<done, c2s, s2c, env, fresh>>
    BY <1>6 DEF Reap, Terminated, vars, clientVars, handlerVars
  <2>2. done \/ Told
    BY <1>2, <2>1
  <2>3. Pending' = Pending
    BY <2>1 DEF Pending
  <2> QED
    BY <1>1, <2>1, <2>2, <2>3 DEF DoneOK
<1> QED
  BY <1>3, <1>4, <1>5, <1>6 DEF Next

\* GameInv is an invariant: the requests in flight fit the game they will meet.
THEOREM RequestsFitGame == Spec => []GameInv
<1>1. Init => GameInv
  <2> SUFFICES ASSUME Init PROVE GameInv
    OBVIOUS
  <2>1. c2s = <<>> /\ s2c = <<>> /\ Pending = {} /\ Len(c2s) = 0 /\ Len(s2c) = 0
    BY NonePending, TagLists DEF Init
  <2>2. HandlerOK /\ ClientOK
    BY <2>1 DEF Init, HandlerOK, ClientOK, Away
  <2>3. QueueOK
    BY <2>1 DEF Init, QueueOK, CallsLast, Meant
  <2>4. DoneOK
    BY <2>1 DEF Init, DoneOK, Told
  <2> QED
    BY <2>2, <2>3, <2>4 DEF GameInv
<1>2. GameInv /\ DataOK /\ Opened /\ Opened' /\ RepliesInStep /\ [Next]_vars
        => GameInv'
  <2> SUFFICES ASSUME GameInv, DataOK, Opened, Opened', RepliesInStep, [Next]_vars
               PROVE  HandlerOK' /\ QueueOK' /\ ClientOK' /\ DoneOK'
    BY DEF GameInv
  <2> QED
    BY HandlerOKStep, QueueOKStep, ClientOKStep, DoneOKStep
<1> QED
  BY <1>1, <1>2, DataTyping, Opening, InStep, PTL DEF Spec

\* NoOrphanRequest: render, close, step and get_seeds are never called on an env
\* that is not there, for each of them meets the game it was meant for.
THEOREM RequestsFindTheirGame == Spec => []NoOrphanRequest
<1>1. Init => NoOrphanRequest
  BY DEF Init, NoOrphanRequest
<1>2. NoOrphanRequest /\ DataOK /\ GameInv /\ [Next]_vars => NoOrphanRequest'
  <2> SUFFICES ASSUME NoOrphanRequest, DataOK, GameInv, [Next]_vars
               PROVE  fault' # "absent"
    BY DEF NoOrphanRequest
  <2>1. fault # "absent" /\ QueueOK /\ HandlerOK
    BY DEF NoOrphanRequest, GameInv
  <2>2. CASE HandleGetSeed
    <3>1. Meant /\ "GetSeed" \in Pending
      BY <2>1, <2>2, Taking DEF HandleGetSeed, Ops
    <3> QED
      BY <2>1, <2>2, <3>1 DEF Meant, Playing, HandleGetSeed
  <2>3. CASE HandleRender
    <3>1. Meant /\ "Render" \in Pending
      BY <2>1, <2>3, Taking DEF HandleRender, Ops
    <3> QED
      BY <2>1, <2>3, <3>1 DEF Meant, HandleRender, handlerVars
  <2>4. CASE HandleClose
    <3>1. Meant /\ "Close" \in Pending
      BY <2>1, <2>4, Taking DEF HandleClose, Ops
    <3> QED
      BY <2>1, <2>4, <3>1 DEF Meant, HandleClose
  <2>5. CASE StepCommand
    BY <2>1, <2>5 DEF StepCommand, HandlerOK, Raise
  <2>6. CASE Handler /\ ~(HandleGetSeed \/ HandleRender \/ HandleClose \/ StepCommand)
    BY <2>1, <2>6 DEF Handler, Receive, Raise, HandleReset, ResetFails,
       WriteSeed, HandleSteps, EndSteps, DismissMessage, WriteObs,
       MessageTooLong, WriteStep, HandleCoverage, WriteNullByte, HandleExit,
       EndOfStream, ConnectionLost, Finally
  <2>7. CASE Client \/ Reap \/ Terminated \/ UNCHANGED vars
    BY <2>1, <2>7, ClientAlone DEF Reap, Terminated, vars, handlerVars
  <2> QED
    BY <2>2, <2>3, <2>4, <2>5, <2>6, <2>7 DEF Next
<1> QED
  BY <1>1, <1>2, DataTyping, RequestsFitGame, PTL DEF Spec

\* DoneIsTrue: a client that believes its game over has a handler whose game is.
THEOREM DoneStaysTrue == Spec => []DoneIsTrue
<1>1. GameInv => DoneIsTrue
  BY DEF GameInv, DoneOK, DoneIsTrue
<1> QED
  BY <1>1, RequestsFitGame, PTL

\* NoGameLeaked: handle_reset replaces only an environment that has been closed.
THEOREM GamesAreClosed == Spec => NoGameLeaked
<1>1. GameInv /\ [Next]_vars =>
        [env' # env /\ fresh # "none" => env \in {"none", "closed"}]_vars
  BY DEF GameInv, HandlerOK
<1> QED
  BY <1>1, RequestsFitGame, PTL DEF Spec, NoGameLeaked

-----------------------------------------------------------------------------
(* NetHackSession implements RemoteCall.                                   *)

\* While the handler has a call to answer, no older reply is in flight, also
\* when the client has left and will not read what is written.
OneReply ==
  ~Stopped =>
    /\ Pending \cap Called # {} => s2c = <<>>
    /\ Owed \in {<<"Obs", "Step">>, <<"Seed">>, <<"Null">>} => s2c = <<>>
    /\ Owed = <<"Step">> => s2c = <<>> \/ (Len(s2c) = 1 /\ s2c[1].tag = "Obs")

\* A sequence with a first element, and what is left without it.
LEMMA OneLess ==
  ASSUME NEW S, NEW s \in Seq(S), s # <<>>
  PROVE  /\ Len(s) \in Nat /\ Len(s) > 0 /\ Head(s) = s[1]
         /\ Len(Tail(s)) = Len(s) - 1 /\ Tail(s) \in Seq(S)
         /\ \A i \in 1..(Len(s) - 1) : Tail(s)[i] = s[i + 1]
         /\ Len(s) = 1 => Tail(s) = <<>>
<1>1. /\ Len(s) \in Nat /\ Len(s) > 0 /\ Head(s) = s[1] /\ Tail(s) \in Seq(S)
      /\ Len(Tail(s)) = Len(s) - 1
      /\ \A i \in 1..(Len(s) - 1) : Tail(s)[i] = s[i + 1]
  BY HeadTailProperties, EmptyLen
<1>2. Len(s) = 1 => Tail(s) = <<>>
  <2>1. Tail(s) = <<>> <=> Len(Tail(s)) = 0
    BY <1>1, EmptyLen
  <2> QED
    BY <1>1, <2>1
<1> QED
  BY <1>1, <1>2

\* A step of the client that sends nothing reads at most one reply.
LEMMA ClientReads ==
  ASSUME Client, c2s' = c2s
  PROVE  s2c' = s2c \/ (s2c # <<>> /\ s2c' = Tail(s2c))
  BY Zenon DEF Client, StartRun, NewGame, TakeTurn, ShowSeed, Render,
     FinalRender, CloseGame, SaveCoverage, EndRun, SendExitServer, Abort,
     ClientRead, ReadObs, ReadStep, ReadSeed, ReadNullByte, ReadEOF, Arrived

\* OneReply is an invariant.
THEOREM RepliesOneByOne == Spec => []OneReply
<1>1. Init => OneReply
  BY DEF Init, OneReply
<1>2. OneReply /\ DataOK /\ Opened /\ RepliesInStep /\ GameInv /\ [Next]_vars
        => OneReply'
  <2> SUFFICES ASSUME OneReply, DataOK, Opened, RepliesInStep, GameInv, [Next]_vars,
                      ~Stopped'
               PROVE  OneReply'
    BY DEF OneReply
  <2>1. QueueOK /\ s2c \in Seq(Replies) /\ c2s \in Seq(Requests)
    BY DEF GameInv, DataOK
  <2>2. ASSUME ~Stopped, UNCHANGED <<c2s, s2c, Owed>> PROVE OneReply'
    <3>1. Pending' = Pending
      BY <2>2 DEF Pending
    <3> QED
      BY <2>2, <3>1 DEF OneReply
  <2>3. CASE Client
    <3>1. Owed' = Owed /\ Stopped' = Stopped /\ ~Stopped
      BY <2>3, ClientAlone DEF Owed, Stopped, handlerVars
    <3>2. CASE c2s' # c2s
      <4>1. s2c' = s2c /\ Expected = <<>> /\ cOpen
        BY <2>3, <3>2, ClientSends
      <4>2. s2c' = <<>>
        BY <2>1, <3>1, <4>1, ReplyFacts DEF QueueOK
      <4> QED
        BY <4>2 DEF OneReply
    <3>3. CASE c2s' = c2s /\ s2c # <<>> /\ s2c' = Tail(s2c)
      <4>1. Pending' = Pending
        BY <3>3 DEF Pending
      <4>2. Owed = <<"Step">> => s2c' = <<>>
        BY <2>1, <3>1, <3>3, OneLess DEF OneReply
      <4> QED
        BY <3>1, <3>3, <4>1, <4>2 DEF OneReply
    <3>4. CASE c2s' = c2s /\ s2c' = s2c
      BY <2>2, <3>1, <3>4
    <3> QED
      BY <2>3, <3>2, <3>3, <3>4, ClientReads
  <2>4. CASE Handler /\ Takes
    <3>1. c2s # <<>> /\ c2s' = Tail(c2s) /\ s2c' = s2c /\ ~Stopped
          /\ Owed' = Reply(Head(c2s).op)
      BY <2>4 DEF Takes
    <3>2. /\ Pending = Pending' \cup {Head(c2s).op}
          /\ Head(c2s).op \in Called => c2s' = <<>>
      BY <2>1, <3>1, TakePending DEF QueueOK
    <3>3. Head(c2s).op \in Ops
      BY <2>1, <3>1, TailTypes DEF Requests
    <3>4. CASE Head(c2s).op \in Called
      <4>1. s2c' = <<>>
        BY <3>1, <3>2, <3>4 DEF OneReply
      <4> QED
        BY <4>1 DEF OneReply
    <3>5. CASE Head(c2s).op \notin Called
      <4>1. Owed' = <<>>
        BY <3>1, <3>3, <3>5, CalledReply
      <4>2. Pending' \cap Called # {} => s2c' = <<>>
        BY <3>1, <3>2 DEF OneReply
      <4> QED
        BY <4>1, <4>2, TagLists DEF OneReply
    <3> QED
      BY <3>4, <3>5
  <2>5. CASE Handler /\ Writes
    <3>1. /\ ~Stopped /\ Owed # <<>> /\ Owed' = Tail(Owed) /\ c2s' = c2s
          /\ \E r \in Replies : r.tag = Head(Owed) /\ s2c' = Append(s2c, r)
      BY <2>5 DEF Writes
    <3>2. Pending' = {}
      BY <2>1, <3>1, NonePending DEF QueueOK
    <3>3. Owed \in {<<"Obs", "Step">>, <<"Step">>, <<"Seed">>, <<"Null">>}
      BY <3>1 DEF Owed
    <3>4. CASE Owed = <<"Obs", "Step">>
      <4>1. PICK r \in Replies : r.tag = "Obs" /\ s2c' = Append(s2c, r)
        BY <3>1, <3>4, TagTails
      <4>2. s2c = <<>>
        BY <3>1, <3>4 DEF OneReply
      <4>3. Len(s2c') = 1 /\ s2c'[1] = r
        BY <2>1, <4>1, <4>2, AppendProperties, TagLists
      <4> QED
        BY <3>1, <3>2, <3>4, <4>1, <4>3, TagTails, TagLists DEF OneReply
    <3>5. CASE Owed # <<"Obs", "Step">>
      <4>1. Owed' = <<>>
        BY <3>1, <3>3, <3>5, TagTails
      <4> QED
        BY <3>2, <4>1, TagLists DEF OneReply
    <3> QED
      BY <3>4, <3>5
  <2>6. CASE Handler /\ Keeps
    BY <2>2, <2>6, Zenon DEF Keeps
  <2>7. CASE Reap \/ Terminated \/ UNCHANGED vars
    BY <2>2, <2>7 DEF Reap, Terminated, vars, handlerVars, Owed, Stopped
  <2> QED
    BY <2>3, <2>4, <2>5, <2>6, <2>7, HandlerKinds DEF Next, Ends
<1> QED
  BY <1>1, <1>2, DataTyping, Opening, InStep, RequestsFitGame, PTL DEF Spec

\* The kinds of the requests: those of the calls, and one for the others.
LEMMA KindFacts ==
  /\ Kind("Reset") = "Obs" /\ Kind("Step") = "Obs" /\ Kind("GetSeed") = "Seed"
  /\ Kind("SaveCoverage") = "Null" /\ Kind("ResetCoverage") = "Null"
  /\ Kind("Render") = "Post" /\ Kind("Close") = "Post" /\ Kind("Exit") = "Post"
  /\ \A op \in Ops : Kind(op) \in {"Obs", "Seed", "Null", "Post"}
<1>1. /\ Kind("Reset") = "Obs" /\ Kind("Step") = "Obs" /\ Kind("GetSeed") = "Seed"
      /\ Kind("SaveCoverage") = "Null" /\ Kind("ResetCoverage") = "Null"
  BY TagTails DEF Kind, Reply
<1>2. Kind("Render") = "Post" /\ Kind("Close") = "Post" /\ Kind("Exit") = "Post"
  BY DEF Kind, Reply
<1> QED
  BY <1>1, <1>2 DEF Ops

\* The list of the kinds in flight follows the queue of the requests.
LEMMA KindsFacts ==
  ASSUME DataOK
  PROVE  /\ Kinds \in Seq({"Obs", "Seed", "Null", "Post"})
         /\ (c2s = <<>> => Kinds = <<>>) /\ (c2s' = <<>> => Kinds' = <<>>)
         /\ (c2s' = c2s => Kinds' = Kinds)
         /\ \A op \in Ops, arg \in 0..ByteRange :
              Send(op, arg) => Kinds' = Append(Kinds, Kind(op))
         /\ c2s # <<>> /\ c2s' = Tail(c2s) =>
              /\ Kinds # <<>> /\ Head(Kinds) = Kind(Head(c2s).op)
              /\ Kinds' = Tail(Kinds)
<1> DEFINE K == {"Obs", "Seed", "Null", "Post"}
<1>1. /\ c2s \in Seq(Requests) /\ Len(c2s) \in Nat
      /\ \A i \in 1..Len(c2s) : Kind(c2s[i].op) \in K
  <2>1. c2s \in Seq(Requests) /\ Len(c2s) \in Nat
    BY EmptyLen DEF DataOK
  <2>2. ASSUME NEW i \in 1..Len(c2s) PROVE Kind(c2s[i].op) \in K
    <3>1. c2s[i] \in Requests
      BY <2>1, ElementOfSeq
    <3> QED
      BY <3>1, KindFacts DEF Requests
  <2> QED
    BY <2>1, <2>2
<1>2. /\ Kinds \in Seq(K) /\ Len(Kinds) = Len(c2s)
      /\ \A i \in 1..Len(c2s) : Kinds[i] = Kind(c2s[i].op)
  BY <1>1, SeqDef DEF Kinds
<1>3. (c2s = <<>> => Kinds = <<>>) /\ (c2s' = <<>> => Kinds' = <<>>)
  BY TagLists DEF Kinds
<1>4. c2s' = c2s => Kinds' = Kinds
  BY DEF Kinds
<1>5. c2s' \in Seq(Requests) =>
        /\ Kinds' \in Seq(K) /\ Len(Kinds') = Len(c2s')
        /\ \A i \in 1..Len(c2s') : Kinds'[i] = Kind(c2s'[i].op)
  <2> SUFFICES ASSUME c2s' \in Seq(Requests)
               PROVE  /\ Kinds' \in Seq(K) /\ Len(Kinds') = Len(c2s')
                      /\ \A i \in 1..Len(c2s') : Kinds'[i] = Kind(c2s'[i].op)
    OBVIOUS
  <2>1. Len(c2s') \in Nat
    BY EmptyLen
  <2>2. \A i \in 1..Len(c2s') : Kind(c2s'[i].op) \in K
    <3>1. \A i \in 1..Len(c2s') : c2s'[i] \in Requests
      BY ElementOfSeq
    <3> QED
      BY <3>1, KindFacts DEF Requests
  <2> QED
    BY <2>1, <2>2, SeqDef DEF Kinds
<1>6. ASSUME NEW op \in Ops, NEW arg \in 0..ByteRange, Send(op, arg)
      PROVE  Kinds' = Append(Kinds, Kind(op))
  <2>1. /\ Len(c2s') = Len(c2s) + 1 /\ c2s'[Len(c2s) + 1].op = op
        /\ \A i \in 1..Len(c2s) : c2s'[i] = c2s[i]
    <3>1. [op |-> op, arg |-> arg] \in Requests
      BY DEF Requests
    <3>2. /\ c2s'[Len(c2s) + 1] = [op |-> op, arg |-> arg]
          /\ Len(c2s') = Len(c2s) + 1
          /\ \A i \in 1..Len(c2s) : c2s'[i] = c2s[i]
      BY <1>1, <1>6, <3>1, AppendProperties DEF Send
    <3> QED
      BY <3>2
  <2>2. c2s' \in Seq(Requests)
    BY <1>6, SendTypes
  <2>3. /\ Kinds' \in Seq(K) /\ Len(Kinds') = Len(c2s) + 1
        /\ \A i \in 1..(Len(c2s) + 1) : Kinds'[i] = Kind(c2s'[i].op)
    BY <1>5, <2>1, <2>2
  <2> DEFINE k == Kind(op)
  <2>4. k \in K
    BY KindFacts
  <2> HIDE DEF k
  <2>5. /\ Append(Kinds, k) \in Seq(K) /\ Len(Append(Kinds, k)) = Len(c2s) + 1
        /\ \A i \in 1..Len(c2s) : Append(Kinds, k)[i] = Kinds[i]
        /\ Append(Kinds, k)[Len(c2s) + 1] = k
    BY <1>1, <1>2, <2>4, AppendProperties
  <2>6. ASSUME NEW i \in 1..(Len(c2s) + 1) PROVE Kinds'[i] = Append(Kinds, k)[i]
    <3>1. CASE i = Len(c2s) + 1
      BY <2>1, <2>3, <2>5, <3>1 DEF k
    <3>2. CASE i # Len(c2s) + 1
      <4>1. i \in 1..Len(c2s) /\ c2s'[i] = c2s[i]
        BY <1>1, <2>1, <3>2
      <4> QED
        BY <1>2, <2>3, <2>5, <4>1
    <3> QED
      BY <3>1, <3>2
  <2> HIDE DEF K
  <2>7. Kinds' = Append(Kinds, k)
    BY <2>3, <2>5, <2>6, SeqEqual
  <2> QED
    BY <2>7 DEF k
<1>7. ASSUME c2s # <<>>, c2s' = Tail(c2s)
      PROVE  /\ Kinds # <<>> /\ Head(Kinds) = Kind(Head(c2s).op)
             /\ Kinds' = Tail(Kinds)
  <2>1. /\ Len(c2s) > 0 /\ Head(c2s) = c2s[1] /\ Len(c2s') = Len(c2s) - 1
        /\ \A i \in 1..(Len(c2s) - 1) : c2s'[i] = c2s[i + 1]
    BY <1>1, <1>7, OneLess
  <2>2. Kinds # <<>>
    BY <1>2, <2>1, TagLists
  <2>3. Head(Kinds) = Kinds[1]
    BY <1>2, <2>2, OneLess
  <2>4. /\ Tail(Kinds) \in Seq(K) /\ Len(Tail(Kinds)) = Len(c2s) - 1
        /\ \A i \in 1..(Len(c2s) - 1) : Tail(Kinds)[i] = Kinds[i + 1]
    BY <1>2, <2>2, OneLess
  <2>5. Kinds' = Tail(Kinds)
    <3>1. c2s' \in Seq(Requests)
      BY <1>1, <1>7, OneLess
    <3>2. /\ Kinds' \in Seq(K) /\ Len(Kinds') = Len(c2s) - 1
          /\ \A i \in 1..(Len(c2s) - 1) : Kinds'[i] = Kind(c2s'[i].op)
      BY <1>5, <2>1, <3>1
    <3>3. \A i \in 1..(Len(c2s) - 1) : Kinds'[i] = Tail(Kinds)[i]
      BY <1>1, <1>2, <2>1, <2>4, <3>2
    <3> HIDE DEF K
    <3> QED
      BY <2>4, <3>2, <3>3, SeqEqual
  <2>6. Kinds[1] = Kind(c2s[1].op)
    BY <1>1, <1>2, <2>1
  <2> QED
    BY <2>1, <2>2, <2>3, <2>5, <2>6
<1> QED
  BY <1>2, <1>3, <1>4, <1>6, <1>7

\* The answer that is ready follows the queue of the replies.
LEMMA ReadyFacts ==
  ASSUME DataOK
  PROVE  /\ (s2c' = s2c => Ready' = Ready)
         /\ (s2c = <<>> => Ready = "no") /\ (s2c' = <<>> => Ready' = "no")
         /\ s2c # <<>> /\ s2c' = Tail(s2c) =>
              IF Len(s2c) = 1
              THEN /\ s2c' = <<>>
                   /\ Ready = CASE Head(s2c).tag = "Obs" -> "no"
                                [] Head(s2c).tag = "Step" -> "Obs"
                                [] OTHER -> Head(s2c).tag
              ELSE Ready' = Ready
         /\ \A tag \in Tags, ok \in BOOLEAN : Write(tag, ok) =>
              Ready' = CASE tag = "Obs" -> "no" [] tag = "Step" -> "Obs"
                         [] OTHER -> tag
<1>1. s2c \in Seq(Replies) /\ Len(s2c) \in Nat
  BY EmptyLen DEF DataOK
<1>2. (s2c = <<>> => Ready = "no") /\ (s2c' = <<>> => Ready' = "no")
  BY DEF Ready
<1>3. s2c' = s2c => Ready' = Ready
  BY DEF Ready
<1>4. ASSUME s2c # <<>>, s2c' = Tail(s2c)
      PROVE  IF Len(s2c) = 1
             THEN /\ s2c' = <<>>
                  /\ Ready = CASE Head(s2c).tag = "Obs" -> "no"
                               [] Head(s2c).tag = "Step" -> "Obs"
                               [] OTHER -> Head(s2c).tag
             ELSE Ready' = Ready
  <2>1. /\ Len(s2c) > 0 /\ Head(s2c) = s2c[1] /\ Len(s2c') = Len(s2c) - 1
        /\ \A i \in 1..(Len(s2c) - 1) : s2c'[i] = s2c[i + 1]
        /\ Len(s2c) = 1 => s2c' = <<>>
    BY <1>1, <1>4, OneLess
  <2>2. CASE Len(s2c) = 1
    BY <1>4, <2>1, <2>2 DEF Ready
  <2>3. CASE Len(s2c) # 1
    <3>1. s2c'[Len(s2c')] = s2c[Len(s2c)] /\ s2c' # <<>>
      BY <1>1, <2>1, <2>3, TagLists
    <3> QED
      BY <1>4, <2>3, <3>1 DEF Ready
  <2> QED
    BY <2>2, <2>3
<1>5. ASSUME NEW tag \in Tags, NEW ok \in BOOLEAN, Write(tag, ok)
      PROVE  Ready' = CASE tag = "Obs" -> "no" [] tag = "Step" -> "Obs"
                        [] OTHER -> tag
  <2>1. [tag |-> tag, ok |-> ok] \in Replies
    BY ReplyTypes
  <2>2. /\ Len(s2c') = Len(s2c) + 1
        /\ s2c'[Len(s2c) + 1] = [tag |-> tag, ok |-> ok]
    BY <1>1, <1>5, <2>1, AppendProperties DEF Write
  <2>3. s2c' # <<>> /\ s2c'[Len(s2c')].tag = tag
    BY <1>1, <2>2, TagLists
  <2> QED
    BY <2>3 DEF Ready
<1> QED
  BY <1>2, <1>3, <1>4, <1>5

\* A request that is sent is issued: the client calls, posts, or leaves with it.
LEMMA SendStep ==
  ASSUME DataOK, Opened, Opened', RepliesInStep, GameInv, Client, c2s' # c2s
  PROVE  Promise!Call \/ Promise!Post \/ Promise!Leave
<1>1. PICK op \in Ops, arg \in 0..ByteRange :
        /\ Send(op, arg) /\ Sent(op) /\ Expected = <<>> /\ cOpen /\ s2c' = s2c
  BY ClientSends
<1>2. hpc' = hpc /\ (Stopped' <=> Stopped) /\ Owed' = Owed
  BY ClientAlone DEF handlerVars, Stopped, Owed
<1>3. WaitingFor = "no"
  BY <1>1, TagLists DEF WaitingFor, Expected
<1>4. Ready' = Ready
  BY <1>1, ReadyFacts
<1>5. ToDo' = IF ~Stopped THEN Append(ToDo, Kind(op)) ELSE ToDo
  <2>1. CASE Stopped
    BY <1>2, <2>1 DEF ToDo
  <2>2. CASE ~Stopped
    <3>1. Owed = <<>>
      BY <1>1, <2>2, Sending DEF GameInv
    <3>2. Busy = <<>> /\ Busy' = <<>>
      BY <1>2, <3>1 DEF Busy
    <3>3. Kinds \in Seq({"Obs", "Seed", "Null", "Post"})
          /\ Kinds' = Append(Kinds, Kind(op))
          /\ Kind(op) \in {"Obs", "Seed", "Null", "Post"}
      BY <1>1, KindsFacts, KindFacts
    <3>4. ToDo = Kinds
      BY <2>2, <3>2, <3>3, ConcatEmptySeq DEF ToDo
    <3>5. Kinds' \in Seq({"Obs", "Seed", "Null", "Post"})
      BY <3>3, AppendProperties
    <3>6. ToDo' = Kinds'
      BY <1>2, <2>2, <3>2, <3>5, ConcatEmptySeq DEF ToDo
    <3> QED
      BY <2>2, <3>3, <3>4, <3>6
  <2> QED
    BY <2>1, <2>2
<1>6. CASE op \in {"Step", "GetSeed", "Reset", "SaveCoverage", "ResetCoverage"}
  <2>1. cOpen'
    BY <1>1, <1>6 DEF Sent, Opened
  <2>2. WaitingFor' = Kind(op) /\ Kind(op) \in {"Obs", "Seed", "Null"}
    BY <1>1, <1>6, <2>1, KindFacts DEF Sent, WaitingFor
  <2>3. Promise!Issue(Kind(op))
    BY <1>5 DEF Promise!Issue
  <2> QED
    BY <1>2, <1>3, <1>4, <2>2, <2>3 DEF Promise!Call
<1>7. CASE op \in {"Render", "Close"}
  <2>1. cOpen'
    BY <1>1, <1>7 DEF Sent, Opened
  <2>2. WaitingFor' = "no" /\ Kind(op) = "Post"
    BY <1>1, <1>7, <2>1, KindFacts DEF Sent, WaitingFor
  <2> QED
    BY <1>2, <1>3, <1>4, <1>5, <2>2 DEF Promise!Post, Promise!Issue
<1>8. CASE op = "Exit"
  <2>1. WaitingFor' = "gone" /\ Kind(op) = "Post"
    BY <1>1, <1>8, KindFacts DEF Sent, WaitingFor
  <2> QED
    BY <1>2, <1>3, <1>4, <1>5, <2>1 DEF Promise!Leave, Promise!Issue
<1> QED
  BY <1>6, <1>7, <1>8 DEF Ops

\* A client that sends nothing gets the answer it waits for, leaves, or does
\* nothing a caller could see.
LEMMA ReadStepOfClient ==
  ASSUME DataOK, Opened, Opened', RepliesInStep, Client, c2s' = c2s
  PROVE  \/ Promise!Return \/ Promise!Leave
         \/ UNCHANGED <<WaitingFor, ToDo, Ready>> /\ (Stopped' <=> Stopped)
<1>1. /\ hpc' = hpc /\ (Stopped' <=> Stopped) /\ ToDo' = ToDo
  <2>1. hpc' = hpc /\ (Stopped' <=> Stopped) /\ Owed' = Owed
    BY ClientAlone DEF handlerVars, Stopped, Owed
  <2>2. Kinds' = Kinds
    BY KindsFacts
  <2>3. Busy' = Busy
    BY <2>1 DEF Busy
  <2> QED
    BY <2>1, <2>2, <2>3 DEF ToDo
<1>2. s2c \in Seq(Replies) /\ Len(s2c) \in Nat
  BY EmptyLen DEF DataOK
<1>3. CASE ReadStep \/ ReadSeed \/ ReadNullByte
  <2>1. /\ s2c # <<>> /\ s2c' = Tail(s2c) /\ cOpen' = cOpen
        /\ cpc \notin {"closed", "crashed"}
    BY <1>3 DEF ReadStep, ReadSeed, ReadNullByte, Arrived
  <2>2. cOpen /\ cOpen'
    BY <2>1 DEF Opened
  <2>3. Foreseen(s2c, Expected)
    BY <2>2 DEF RepliesInStep
  <2>4. Expected \in {<<"Step">>, <<"Seed">>, <<"Null">>}
    BY <1>3 DEF ReadStep, ReadSeed, ReadNullByte, Expected
  <2>5. Len(Expected) = 1
    BY <2>4, TagLists
  <2>6. Len(s2c) = 1
    <3>1. Len(s2c) > 0
      BY <1>2, <2>1, OneLess
    <3>2. Len(s2c) \in 1..Len(s2c)
      BY <1>2, <3>1
    <3>3. Len(s2c) <= 1
      BY <2>3, <2>5, <3>2 DEF Foreseen
    <3>4. Len(s2c) \in Nat
      BY <1>2
    <3> DEFINE n == Len(s2c)
    <3>5. n > 0 /\ n <= 1 /\ n \in Nat
      BY <3>1, <3>3, <3>4
    <3> HIDE DEF n
    <3>6. n = 1
      BY <3>5
    <3> QED
      BY <3>6 DEF n
  <2>7. /\ s2c' = <<>> /\ Ready' = "no"
        /\ Ready = CASE Head(s2c).tag = "Obs" -> "no"
                     [] Head(s2c).tag = "Step" -> "Obs"
                     [] OTHER -> Head(s2c).tag
    BY <2>1, <2>6, ReadyFacts
  <2>8. /\ WaitingFor \in {"Obs", "Seed", "Null"} /\ Ready = WaitingFor
        /\ WaitingFor' = "no"
    <3>1. CASE ReadStep
      <4>1. /\ Head(s2c).tag = "Step" /\ cpc \in {"reset", "step"}
            /\ cpc' \in {"render", "play", "show"}
        BY <3>1 DEF ReadStep, Arrived
      <4> QED
        BY <2>2, <2>7, <4>1 DEF WaitingFor
    <3>2. CASE ReadSeed
      BY <2>2, <2>7, <3>2 DEF ReadSeed, Arrived, WaitingFor
    <3>3. CASE ReadNullByte
      BY <2>2, <2>7, <3>3 DEF ReadNullByte, Arrived, WaitingFor
    <3> QED
      BY <1>3, <3>1, <3>2, <3>3
  <2> QED
    BY <1>1, <2>7, <2>8 DEF Promise!Return
<1>4. CASE ReadObs
  <2>1. /\ s2c # <<>> /\ s2c' = Tail(s2c) /\ Head(s2c).tag = "Obs"
        /\ cpc \in {"reset", "step"}
    BY <1>4 DEF ReadObs, Arrived
  <2>2. Ready' = Ready
    BY <2>1, ReadyFacts
  <2>3. cOpen /\ WaitingFor = "Obs"
    BY <2>1 DEF Opened, WaitingFor
  <2>4. WaitingFor' \in {"Obs", "gone"}
    BY <1>4, <2>1, <2>3 DEF ReadObs, WaitingFor
  <2> QED
    BY <1>1, <2>2, <2>3, <2>4 DEF Promise!Leave
<1>5. CASE ReadEOF \/ Abort \/ EndRun
  <2>1. s2c' = s2c /\ cpc \notin {"closed", "crashed"}
    BY <1>5 DEF ReadEOF, Abort, EndRun, Awaiting, Opened
  <2>2. Ready' = Ready
    BY <2>1, ReadyFacts
  <2>3. cOpen /\ WaitingFor # "gone"
    BY <2>1 DEF Opened, WaitingFor
  <2>4. WaitingFor' = "gone" \/ WaitingFor' = WaitingFor
    BY <1>5, <2>3 DEF ReadEOF, Abort, EndRun, WaitingFor
  <2> QED
    BY <1>1, <2>2, <2>3, <2>4 DEF Promise!Leave
<1>6. CASE ~(ClientRead \/ EndRun \/ Abort)
  BY <1>6, OthersSend
<1> QED
  BY <1>3, <1>4, <1>5, <1>6 DEF ClientRead

\* A list of one tag, and one that is left with nothing.
LEMMA OneTag ==
  /\ \A t : /\ <<t>> # <<>> /\ Head(<<t>>) = t /\ Tail(<<t>>) = <<>>
            /\ <<t>> \o <<>> = <<t>> /\ <<>> \o <<t>> = <<t>>
  /\ \A S : \A s \in Seq(S) :
       /\ <<>> \o s = s
       /\ s # <<>> /\ Tail(s) = <<>> => s = <<Head(s)>>
<1>1. ASSUME NEW S, NEW s \in Seq(S)
      PROVE  /\ <<>> \o s = s
             /\ s # <<>> /\ Tail(s) = <<>> => s = <<Head(s)>>
  <2>1. <<>> \o s = s
    BY ConcatEmptySeq
  <2>2. ASSUME s # <<>>, Tail(s) = <<>> PROVE s = <<Head(s)>>
    <3>1. /\ Len(s) \in Nat /\ Len(s) > 0 /\ Head(s) = s[1]
          /\ Len(Tail(s)) = Len(s) - 1
      BY <2>2, OneLess
    <3> DEFINE n == Len(s)
    <3>2. n \in Nat /\ n - 1 = 0
      BY <2>2, <3>1, TagLists
    <3> HIDE DEF n
    <3>5. n = 1
      BY <3>2
    <3>3. Head(s) \in S
      BY <2>2, HeadTailProperties
    <3>4. <<Head(s)>> \in Seq(S) /\ Len(<<Head(s)>>) = 1 /\ <<Head(s)>>[1] = s[1]
      BY <3>1, <3>3
    <3> QED
      BY <3>4, <3>5, SeqEqual DEF n
  <2> QED
    BY <2>1, <2>2
<1>2. ASSUME NEW t
      PROVE  /\ <<t>> # <<>> /\ Head(<<t>>) = t /\ Tail(<<t>>) = <<>>
             /\ <<t>> \o <<>> = <<t>> /\ <<>> \o <<t>> = <<t>>
  <2>1. <<t>> \in Seq({t})
    OBVIOUS
  <2>2. <<t>> \o <<>> = <<t>> /\ <<>> \o <<t>> = <<t>>
    BY <2>1, ConcatEmptySeq
  <2> QED
    BY <2>2
<1> QED
  BY <1>1, <1>2

\* What the handler works on, by the tags it owes.
LEMMA BusyFacts ==
  /\ (Owed = <<>> => Busy = <<>>) /\ (Owed' = <<>> => Busy' = <<>>)
  /\ Owed = <<"Obs", "Step">> => Busy = <<"Obs">>
  /\ Owed = <<"Step">> => Busy = <<"Obs">>
  /\ Owed' = <<"Step">> => Busy' = <<"Obs">>
  /\ Owed = <<"Seed">> => Busy = <<"Seed">>
  /\ Owed = <<"Null">> => Busy = <<"Null">>
  /\ \A op \in Called : Owed' = Reply(op) => Busy' = <<Kind(op)>>
<1>1. <<"Obs", "Step">> # <<"Step">> /\ <<"Seed">> # <<"Step">> /\ <<"Null">> # <<"Step">>
      /\ <<"Step">> # <<>> /\ <<"Seed">> # <<>> /\ <<"Null">> # <<>>
      /\ <<"Obs", "Step">> # <<>>
  BY TagLists
<1>2. ASSUME NEW op \in Called
      PROVE  Reply(op) # <<>> /\ Reply(op) # <<"Step">>
  BY <1>1 DEF Called, Reply
<1>3. \A op \in Called : Owed' = Reply(op) => Busy' = <<Kind(op)>>
  BY <1>2 DEF Busy, Kind
<1> QED
  BY <1>1, <1>3, TagTails DEF Busy

\* The handler executes a request, stops, or does nothing a caller could see.
LEMMA HandlerStep ==
  ASSUME DataOK, GameInv, OneReply, Handler
  PROVE  \/ Promise!Execute \/ Promise!Stop
         \/ UNCHANGED <<WaitingFor, ToDo, Ready>> /\ (Stopped' <=> Stopped)
<1>1. WaitingFor' = WaitingFor
  BY HandlerAlone DEF WaitingFor, clientVars
<1>2. /\ QueueOK /\ Kinds \in Seq({"Obs", "Seed", "Null", "Post"})
      /\ s2c' = s2c => Ready' = Ready
  BY KindsFacts, ReadyFacts DEF GameInv
<1>3. CASE Stopped'
  <2>1. s2c' = s2c
    BY <1>3, HandlerKinds DEF Takes, Writes, Ends, Keeps
  <2>2. ToDo' = <<>> /\ (Stopped => ToDo = <<>>)
    BY <1>3 DEF ToDo
  <2> QED
    BY <1>1, <1>2, <1>3, <2>1, <2>2 DEF Promise!Stop
<1>4. CASE Keeps
  <2>1. Kinds' = Kinds /\ Busy' = Busy
    BY <1>4, KindsFacts DEF Keeps, Busy
  <2> QED
    BY <1>1, <1>2, <1>4, <2>1 DEF Keeps, ToDo
<1>5. CASE Takes /\ ~Stopped'
  <2>1. /\ c2s # <<>> /\ c2s' = Tail(c2s) /\ s2c' = s2c /\ ~Stopped
        /\ Owed = <<>> /\ Owed' = Reply(Head(c2s).op)
    BY <1>5 DEF Takes
  <2>2. /\ Kinds # <<>> /\ Head(Kinds) = Kind(Head(c2s).op)
        /\ Kinds' = Tail(Kinds) /\ (c2s' = <<>> => Kinds' = <<>>)
    BY <2>1, KindsFacts
  <2>3. Head(c2s).op \in Ops
    BY <2>1, TailTypes DEF Requests
  <2>4. ToDo = Kinds
    BY <1>2, <2>1, BusyFacts, OneTag DEF ToDo
  <2>5. CASE Head(c2s).op \in Called
    <3>1. c2s' = <<>>
      BY <1>2, <2>1, <2>5, TakePending DEF QueueOK
    <3>2. Kinds = <<Kind(Head(c2s).op)>> /\ Kinds' = <<>>
      BY <1>2, <2>2, <3>1, OneTag
    <3>3. Busy' = <<Kind(Head(c2s).op)>>
      BY <2>1, <2>5, BusyFacts
    <3>4. ToDo' = <<Kind(Head(c2s).op)>>
      BY <1>5, <3>2, <3>3, OneTag DEF ToDo
    <3> QED
      BY <1>1, <1>2, <1>5, <2>1, <2>4, <3>2, <3>4
  <2>6. CASE Head(c2s).op \notin Called
    <3>1. Owed' = <<>> /\ Kind(Head(c2s).op) = "Post"
      BY <2>1, <2>3, <2>6, CalledReply DEF Kind
    <3>2. Busy' = <<>>
      BY <3>1, BusyFacts
    <3>3. Kinds' \in Seq({"Obs", "Seed", "Null", "Post"})
      BY <1>2, <2>2, OneLess
    <3>4. ToDo' = Tail(ToDo)
      BY <1>5, <2>2, <2>4, <3>2, <3>3, OneTag DEF ToDo
    <3> QED
      BY <1>1, <1>2, <1>5, <2>1, <2>2, <2>4, <3>1, <3>4 DEF Promise!Execute
  <2> QED
    BY <2>5, <2>6
<1>6. CASE Writes
  <2>1. /\ ~Stopped /\ ~Stopped' /\ Owed # <<>> /\ Owed' = Tail(Owed) /\ c2s' = c2s
        /\ \E r \in Replies : r.tag = Head(Owed) /\ s2c' = Append(s2c, r)
    BY <1>6 DEF Writes
  <2>2. Kinds = <<>> /\ Kinds' = <<>>
    BY <1>2, <2>1, KindsFacts DEF QueueOK
  <2>3. ToDo = Busy \o <<>> /\ ToDo' = Busy' \o <<>>
    BY <2>1, <2>2 DEF ToDo
  <2>4. Owed \in {<<"Obs", "Step">>, <<"Step">>, <<"Seed">>, <<"Null">>}
    BY <2>1 DEF Owed
  <2>5. PICK tag \in Tags, ok \in BOOLEAN : tag = Head(Owed) /\ Write(tag, ok)
    <3>1. PICK r \in Replies : r.tag = Head(Owed) /\ s2c' = Append(s2c, r)
      BY <2>1
    <3>2. r = [tag |-> r.tag, ok |-> r.ok] /\ r.tag \in Tags /\ r.ok \in BOOLEAN
      BY DEF Replies
    <3> QED
      BY <3>1, <3>2 DEF Write
  <2>6. Ready' = CASE tag = "Obs" -> "no" [] tag = "Step" -> "Obs" [] OTHER -> tag
    BY <2>5, ReadyFacts
  <2>7. CASE Owed = <<"Obs", "Step">>
    <3>1. tag = "Obs" /\ Owed' = <<"Step">>
      BY <2>1, <2>5, <2>7, TagTails
    <3>2. ToDo = <<"Obs">> /\ ToDo' = <<"Obs">>
      BY <2>3, <2>7, <3>1, BusyFacts, OneTag
    <3>3. Ready = "no"
      BY <2>1, <2>7, ReadyFacts DEF OneReply
    <3> QED
      BY <1>1, <2>1, <2>6, <3>1, <3>2, <3>3
  <2>8. CASE Owed # <<"Obs", "Step">>
    <3>1. PICK kind \in {"Obs", "Seed", "Null"} : Busy = <<kind>> /\ Ready' = kind
      <4>1. CASE Owed = <<"Step">>
        <5>1. Busy = <<"Obs">> /\ tag = "Step"
          BY <2>5, <4>1, BusyFacts, TagTails
        <5> QED
          BY <2>6, <5>1
      <4>2. CASE Owed = <<"Seed">>
        <5>1. Busy = <<"Seed">> /\ tag = "Seed"
          BY <2>5, <4>2, BusyFacts, TagTails
        <5> QED
          BY <2>6, <5>1
      <4>3. CASE Owed = <<"Null">>
        <5>1. Busy = <<"Null">> /\ tag = "Null"
          BY <2>5, <4>3, BusyFacts, TagTails
        <5> QED
          BY <2>6, <5>1
      <4> QED
        BY <2>4, <2>8, <4>1, <4>2, <4>3
    <3>2. Owed' = <<>>
      BY <2>1, <2>4, <2>8, TagTails
    <3>3. ToDo = <<kind>> /\ ToDo' = <<>>
      BY <2>3, <3>1, <3>2, BusyFacts, OneTag, TagLists
    <3>4. ToDo # <<>> /\ Head(ToDo) = kind /\ ToDo' = Tail(ToDo)
      BY <3>3, OneTag
    <3> QED
      BY <1>1, <2>1, <3>1, <3>4 DEF Promise!Execute
  <2> QED
    BY <2>7, <2>8
<1> QED
  BY <1>3, <1>4, <1>5, <1>6, HandlerKinds DEF Ends

\* ImplementsRemoteCall: the connection keeps the promise of RemoteCall.  Every
\* request is executed at most once and in order, and a call returns at most
\* once, after its own execution.
THEOREM SessionImplementsRemoteCall == Spec => ImplementsRemoteCall
<1>1. Init => Promise!Init
  <2> SUFFICES ASSUME Init PROVE Promise!Init
    OBVIOUS
  <2>1. c2s = <<>> /\ s2c = <<>> /\ Owed = <<>> /\ ~Stopped
    BY DEF Init, Owed, Stopped
  <2>2. Kinds = <<>> /\ Busy = <<>> /\ Ready = "no"
    BY <2>1, TagLists, BusyFacts DEF Kinds, Ready
  <2>3. ToDo = <<>>
    <3>1. <<>> \in Seq({})
      BY EmptySeq
    <3> QED
      BY <2>1, <2>2, <3>1, OneTag DEF ToDo
  <2>4. WaitingFor = "no"
    BY DEF Init, WaitingFor
  <2> QED
    BY <2>1, <2>2, <2>3, <2>4 DEF Promise!Init
<1>2. DataOK /\ Opened /\ Opened' /\ RepliesInStep /\ GameInv /\ OneReply /\ [Next]_vars
        => [Promise!Next]_(Promise!vars)
  <2> SUFFICES ASSUME DataOK, Opened, Opened', RepliesInStep, GameInv, OneReply,
                      [Next]_vars
               PROVE  Promise!Next \/ UNCHANGED Promise!vars
    OBVIOUS
  <2>1. ASSUME UNCHANGED <<WaitingFor, ToDo, Ready>>, Stopped' <=> Stopped
        PROVE  UNCHANGED Promise!vars
    BY <2>1 DEF Promise!vars
  <2>2. CASE Client
    BY <2>1, <2>2, SendStep, ReadStepOfClient DEF Promise!Next
  <2>3. CASE Handler
    BY <2>1, <2>3, HandlerStep DEF Promise!Next
  <2>4. CASE Reap \/ Terminated \/ UNCHANGED vars
    <3>1. UNCHANGED <<cOpen, cpc, c2s, s2c, hpc>>
      BY <2>4 DEF Reap, Terminated, vars, clientVars, handlerVars
    <3>2. WaitingFor' = WaitingFor /\ Ready' = Ready /\ Kinds' = Kinds
      BY <3>1 DEF WaitingFor, Ready, Kinds
    <3>3. Owed' = Owed /\ (Stopped' <=> Stopped)
      BY <3>1 DEF Owed, Stopped
    <3>4. Busy' = Busy
      BY <3>3 DEF Busy
    <3>5. ToDo' = ToDo
      BY <3>2, <3>3, <3>4 DEF ToDo
    <3> QED
      BY <2>1, <3>2, <3>3, <3>5
  <2> QED
    BY <2>2, <2>3, <2>4 DEF Next
<1> QED
  BY <1>1, <1>2, DataTyping, Opening, InStep, RequestsFitGame, RepliesOneByOne, PTL
     DEF Spec, ImplementsRemoteCall, Promise!Spec
=============================================================================
