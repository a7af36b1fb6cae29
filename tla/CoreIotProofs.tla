----------------------------- MODULE CoreIotProofs -----------------------------
(* The session of task_coreiot for any times that respect the assumptions:   *)
(* telemetry goes only to a broker that accepted the session, the broker is  *)
(* not left in silence beyond its grace, publishes keep their distance, and  *)
(* the client gives up a connection in time if it is dead, and else never.   *)
EXTENDS CoreIot, TLAPS

-----------------------------------------------------------------------------
(* What makes the properties inductive                                       *)

\* The two ends agree about an open connection: the broker's part of it, what it
\* owes, and how long it has heard nothing.
EndsAgree ==
    /\ broker # "none" \/ owed # "nothing" => socket = "open"
    /\ owed = "connack" => broker = "connection" /\ pc = "connack" /\ silent = owedFor
    /\ owed = "pingresp" => broker = "session"
    /\ socket = "open" =>
           /\ silent <= KeepAlive => outAge = silent
           /\ silent > KeepAlive => outAge = KeepAlive + 1
           /\ \A i \in 1 .. Len(inbox) : inbox[i] # "partial"
           /\ broker = "connection" => inbox = <<>>
           /\ broker = "none" => inbox = <<"refusal">>
\* Where the task is without a connection, in connect(), and in a session.
TaskKnows ==
    /\ pc \in {"setup", "tcp", "delay"} => socket = "closed" /\ ~state
    /\ pc = "connack" => ~state
    /\ pc = "connack" /\ broker = "session" => inbox # <<>>
    /\ pc = "stall" => socket # "open"
    /\ pc \notin {"connack", "stall"} /\ socket # "closed" => state
    /\ state /\ socket = "open" => broker = "session"
\* The broker's patience at each point of the task.
Patience ==
    /\ broker # "none" /\ ~sampled => silent <= warm \/ warm > WarmUp
    /\ broker = "session" =>
           /\ pc \in {"read", "yield"} => silent <= KeepAlive
           /\ pc \in {"get", "have"} =>
                  silent <= KeepAlive \/ silent <= warm \/ warm > WarmUp
           /\ pc \in {"top", "loop"} =>
                  silent <= KeepAlive + 1 \/ silent <= warm \/ warm > WarmUp
           /\ pc = "connack" => silent <= AnswerTime
\* The difference of the ticks is right as long as it matters.
TicksAgree ==
    sincePublish < PublishInterval =>
        \/ tick >= lastPublishTick /\ tick - lastPublishTick <= sincePublish
        \/ tick < lastPublishTick
               /\ tick - lastPublishTick + TickModulus <= sincePublish

IInv == TypeOK /\ EndsAgree /\ TaskKnows /\ Patience /\ TicksAgree

\* For the keep-alive timer.  An open connection has at most one answer on its way,
\* the one that the client waits for.
OneAnswer ==
    socket = "open" =>
        /\ Len(inbox) <= InboxSize + 1
        /\ \A i \in 1 .. Len(inbox) : inbox[i] # "message" =>
               /\ \A j \in 1 .. Len(inbox) : inbox[j] # "message" => j = i
               /\ owed = "nothing"
               /\ state => inbox[i] = "pingresp" /\ pingOutstanding
        /\ (\A i \in 1 .. Len(inbox) : inbox[i] = "message") => Len(inbox) <= InboxSize
        /\ owed = "pingresp" => state /\ pingOutstanding
        /\ state /\ pingOutstanding =>
               owed = "pingresp" \/ \E i \in 1 .. Len(inbox) : inbox[i] = "pingresp"
\* Before the first record the task goes round once, without a ping.
FirstRound ==
    ~sampled =>
        /\ ~pingOutstanding /\ ~tooSoon
        /\ pc \notin {"have", "yield"}
        /\ pc \in {"top", "loop"} /\ state => inAge = 0 /\ outAge = 0
\* Whether a packet will be read before more time passes.
ReadsNow == IF pc \in {"top", "loop", "read"} THEN 1 ELSE 0
\* The answer to a ping will be read before the keep-alive time is over.
AnswerInTime ==
    socket = "open" /\ state /\ pingOutstanding =>
        \A age \in {inAge, outAge} :
            /\ owed = "pingresp" => age <= owedFor
            /\ \A i \in 1 .. Len(inbox) : inbox[i] = "pingresp" =>
                   age + i <= AnswerTime + InboxSize + 1 + ReadsNow
\* How long a dead socket can still go unnoticed.
Waiting == pc \in {"connack", "stall"}
Silence ==    \* ... when there is nothing to be read,
    (IF ReadsNow = 0 /\ inAge > KeepAlive THEN 1 ELSE KeepAlive + 1 - inAge)
        + IF pingOutstanding THEN 0 ELSE KeepAlive + 1
Partial == inbox # <<>> /\ inbox[Len(inbox)] = "partial"
Unnoticed ==
    IF Waiting /\ inbox = <<>> THEN SocketTimeout - wait
    ELSE IF inbox = <<>> THEN Silence
    ELSE 2 * (KeepAlive + 1) + Len(inbox) - ReadsNow
             + IF pc = "stall" THEN SocketTimeout - wait - 1
               ELSE IF Partial THEN SocketTimeout ELSE 0
DeadTime ==
    /\ pc = "read" => inAge <= KeepAlive
    /\ Waiting => wait <= SocketTimeout
    /\ socket # "dead" => deadFor = 0
    /\ pc = "stall" => socket = "closed" \/ inbox = <<"partial">>
    /\ socket = "dead" =>
           /\ Len(inbox) <= InboxSize + (IF Partial THEN 2 ELSE 1)
           /\ \A i \in 1 .. Len(inbox) - 1 : inbox[i] # "partial"
           /\ deadFor + Unnoticed <= Detection

TInv == OneAnswer /\ FirstRound /\ AnswerInTime /\ DeadTime

-----------------------------------------------------------------------------
LEMMA Constants ==
  /\ KeepAlive \in Nat /\ KeepAlive > 0
  /\ SocketTimeout \in Nat /\ SocketTimeout > 0
  /\ Grace \in Nat /\ AnswerTime \in Nat /\ AnswerTime > 0 /\ InboxSize \in Nat
  /\ ReconnectDelay \in Nat /\ WarmUp \in Nat
  /\ PublishInterval \in Nat /\ PublishInterval > 0
  /\ TickModulus \in Nat /\ PublishInterval < TickModulus
  /\ KeepAlive < Grace /\ AnswerTime <= Grace /\ WarmUp <= Grace
  /\ MaxWait \in Nat /\ SocketTimeout <= MaxWait /\ ReconnectDelay <= MaxWait
  /\ Detection \in Nat
  BY SessionAssumption, CoreIotAssumption DEF MaxWait, Detection

LEMMA Packets ==
  /\ "connack" \in Packet /\ "refusal" \in Packet /\ "pingresp" \in Packet
  /\ "message" \in Packet /\ "partial" \in Packet
  BY DEF Packet

USE Constants, Packets

LEMMA InitIInv == Init => IInv
  <1> SUFFICES ASSUME Init PROVE IInv
    OBVIOUS
  <1>1. SessionTypeOK
    <2>1. inAge \in 0 .. KeepAlive + 1 /\ outAge \in 0 .. KeepAlive + 1
      BY DEF Init, SessionInit
    <2>2. owedFor \in 0 .. AnswerTime /\ silent \in 0 .. Grace + 1
      BY DEF Init, SessionInit
    <2>3. deadFor \in 0 .. Detection + 1
      BY DEF Init, SessionInit
    <2>4. state \in BOOLEAN /\ pingOutstanding \in BOOLEAN
      BY DEF Init, SessionInit
    <2>5. inbox \in Seq(Packet)
      BY DEF Init, SessionInit
    <2> QED  BY <2>1, <2>2, <2>3, <2>4, <2>5 DEF Init, SessionInit, SessionTypeOK
  <1>2. TypeOK
    <2>1. wait \in 0 .. MaxWait /\ warm \in 0 .. WarmUp + 1
      BY DEF Init
    <2>2. tick \in 0 .. TickModulus - 1 /\ lastPublishTick \in 0 .. TickModulus - 1
      BY DEF Init
    <2>3. sincePublish \in 0 .. PublishInterval
      BY DEF Init
    <2> QED  BY <1>1, <2>1, <2>2, <2>3 DEF Init, TypeOK
  <1>3. EndsAgree /\ TaskKnows /\ Patience /\ TicksAgree
    BY DEF Init, SessionInit, EndsAgree, TaskKnows, Patience, TicksAgree
  <1> QED  BY <1>2, <1>3 DEF IInv

(* A step of the broker or the network.                                      *)
LEMMA NetworkIInv == IInv /\ Network => IInv'
  <1> SUFFICES ASSUME IInv, Network PROVE IInv'
    OBVIOUS
  <1>1. CASE BrokerAccepts
    <2>1. SessionTypeOK'
      BY <1>1 DEF Network, BrokerAccepts, taskVars, recordVars, publishVars, IInv, TypeOK,
               SessionTypeOK
    <2>2. TypeOK'
      BY <1>1, <2>1 DEF Network, BrokerAccepts, taskVars, recordVars, publishVars, IInv, TypeOK
    <2>3. EndsAgree'
      BY <1>1 DEF Network, BrokerAccepts, taskVars, recordVars, publishVars, Connected,
               IInv, TypeOK, SessionTypeOK, EndsAgree, TaskKnows
    <2>7. inbox' # <<>>
      BY <1>1 DEF BrokerAccepts, IInv, TypeOK, SessionTypeOK
    <2>4. TaskKnows'
      BY <1>1, <2>7 DEF Network, BrokerAccepts, taskVars, recordVars, publishVars, Connected,
               IInv, TypeOK, SessionTypeOK, EndsAgree, TaskKnows
    <2>5. Patience'
      BY <1>1 DEF Network, BrokerAccepts, taskVars, recordVars, publishVars, IInv, TypeOK,
               SessionTypeOK, EndsAgree, TaskKnows, Patience
    <2>6. TicksAgree'
      BY <1>1 DEF Network, BrokerAccepts, taskVars, recordVars, publishVars, IInv, TypeOK,
               TicksAgree
    <2> QED  BY <2>1, <2>2, <2>3, <2>4, <2>5, <2>6 DEF IInv
  <1> USE DEF IInv, TypeOK, SessionTypeOK, EndsAgree, TaskKnows, Patience, TicksAgree,
         Network, taskVars, recordVars, publishVars
  <1>2. CASE BrokerRefuses
    BY <1>2 DEF BrokerRefuses
  <1>3. CASE BrokerPongs
    BY <1>3 DEF BrokerPongs
  <1>4. CASE BrokerSends
    BY <1>4 DEF BrokerSends
  <1>5. CASE BrokerHasWaited
    BY <1>5 DEF BrokerHasWaited, Gone
  <1>6. CASE LinkDies
    BY <1>6 DEF LinkDies, Gone
  <1>7. CASE Reset
    BY <1>7 DEF Reset, Gone
  <1> QED  BY <1>1, <1>2, <1>3, <1>4, <1>5, <1>6, <1>7

(* A step of the task up to a session.                                       *)
LEMMA ReconnectIInv ==
  ASSUME IInv,
         InternetTaken \/ Top \/ TcpConnects \/ TcpFails \/ ConnackRead \/ ConnectFails \/ DelayEnds
  PROVE  IInv'
  <1>5. CASE ConnackRead
    <2>7. state' \in BOOLEAN /\ pingOutstanding' \in BOOLEAN
      BY <1>5 DEF ConnackRead, ReadConnack, Heard, LoopReturns, IInv, TypeOK, SessionTypeOK
    <2>8. inbox' \in Seq(Packet)
      BY <1>5 DEF ConnackRead, ReadConnack, Heard, LoopReturns, IInv, TypeOK, SessionTypeOK
    <2>1. SessionTypeOK'
      BY <1>5, <2>7, <2>8 DEF ConnackRead, ReadConnack, Heard, Go, recordVars, publishVars, IInv,
               TypeOK, SessionTypeOK
    <2>2. TypeOK'
      BY <1>5, <2>1 DEF ConnackRead, ReadConnack, Heard, Go, recordVars, publishVars, IInv,
               TypeOK
    <2>3. EndsAgree'
      BY <1>5 DEF ConnackRead, ReadConnack, Heard, Go, recordVars, publishVars, Connected,
               IInv, TypeOK, SessionTypeOK, EndsAgree, TaskKnows
    <2>4. TaskKnows'
      BY <1>5 DEF ConnackRead, ReadConnack, Heard, Go, recordVars, publishVars, Connected,
               IInv, TypeOK, SessionTypeOK, EndsAgree, TaskKnows
    <2>5. Patience'
      BY <1>5 DEF ConnackRead, ReadConnack, Heard, Go, recordVars, publishVars, IInv,
               TypeOK, SessionTypeOK, EndsAgree, TaskKnows, Patience
    <2>6. TicksAgree'
      BY <1>5 DEF ConnackRead, ReadConnack, Heard, Go, recordVars, publishVars, IInv,
               TypeOK, TicksAgree
    <2> QED  BY <2>1, <2>2, <2>3, <2>4, <2>5, <2>6 DEF IInv
  <1> USE DEF IInv, TypeOK, SessionTypeOK, EndsAgree, TaskKnows, Patience, TicksAgree,
         sessionVars, recordVars, publishVars, Go, Connected
  <1>1. CASE InternetTaken
    BY <1>1 DEF InternetTaken
  <1>2. CASE Top
    <2>1. SessionTypeOK'
      BY <1>2 DEF Top, Forget
    <2>2. EndsAgree'
      BY <1>2 DEF Top, Forget
    <2>3. TaskKnows' /\ Patience' /\ TicksAgree'
      BY <1>2 DEF Top, Forget
    <2>4. TypeOK'
      BY <1>2, <2>1 DEF Top, Forget
    <2> QED  BY <2>1, <2>2, <2>3, <2>4
  <1>3. CASE TcpConnects
    BY <1>3 DEF TcpConnects, SendConnect
  <1>4. CASE TcpFails
    BY <1>4 DEF TcpFails
  <1>6. CASE ConnectFails
    BY <1>6 DEF ConnectFails, Stop, Gone
  <1>7. CASE DelayEnds
    BY <1>7 DEF DelayEnds
  <1> QED  BY <1>1, <1>2, <1>3, <1>4, <1>5, <1>6, <1>7

(* A step of client.loop().                                                  *)
LEMMA LoopIInv ==
  ASSUME IInv,
         Loop \/ LoopTimesOut \/ LoopNotConnected \/ LoopReads \/ LoopReadsNothing \/ Stall
              \/ StallEnds
  PROVE  IInv'
  <1>2. CASE LoopTimesOut
    <2>7. state' \in BOOLEAN /\ pingOutstanding' \in BOOLEAN
      BY <1>2 DEF LoopTimesOut, PingTimeout, Gone, LoopReturns, IInv, TypeOK, SessionTypeOK
    <2>8. inbox' \in Seq(Packet)
      BY <1>2 DEF LoopTimesOut, PingTimeout, Gone, LoopReturns, IInv, TypeOK, SessionTypeOK
    <2>1. SessionTypeOK'
      BY <1>2, <2>7, <2>8 DEF LoopTimesOut, PingTimeout, Gone, LoopReturns, Go, recordVars,
               publishVars, IInv, TypeOK, SessionTypeOK
    <2>2. TypeOK'
      BY <1>2, <2>1 DEF LoopTimesOut, PingTimeout, Gone, LoopReturns, Go, recordVars,
               publishVars, IInv, TypeOK
    <2>3. EndsAgree'
      BY <1>2 DEF LoopTimesOut, PingTimeout, Gone, LoopReturns, Go, recordVars,
               publishVars, Connected, IInv, TypeOK, SessionTypeOK, EndsAgree, TaskKnows
    <2>4. TaskKnows'
      BY <1>2 DEF LoopTimesOut, PingTimeout, Gone, LoopReturns, Go, recordVars,
               publishVars, Connected, IInv, TypeOK, SessionTypeOK, EndsAgree, TaskKnows
    <2>5. Patience'
      BY <1>2 DEF LoopTimesOut, PingTimeout, Gone, LoopReturns, Go, recordVars,
               publishVars, IInv, TypeOK, SessionTypeOK, EndsAgree, TaskKnows, Patience
    <2>6. TicksAgree'
      BY <1>2 DEF LoopTimesOut, PingTimeout, Gone, LoopReturns, Go, recordVars,
               publishVars, IInv, TypeOK, TicksAgree
    <2> QED  BY <2>1, <2>2, <2>3, <2>4, <2>5, <2>6 DEF IInv
  <1>7. CASE StallEnds
    <2>7. state' \in BOOLEAN /\ pingOutstanding' \in BOOLEAN
      BY <1>7 DEF StallEnds, DropPartial, Stop, Gone, LoopReturns, IInv, TypeOK, SessionTypeOK
    <2>8. inbox' \in Seq(Packet)
      <3>1. inbox' = <<>>
        BY <1>7 DEF StallEnds, DropPartial, Stop
      <3> QED  BY <3>1
    <2>1. SessionTypeOK'
      BY <1>7, <2>7, <2>8 DEF StallEnds, DropPartial, Stop, Gone, LoopReturns, Go, recordVars,
               publishVars, IInv, TypeOK, SessionTypeOK
    <2>2. TypeOK'
      BY <1>7, <2>1 DEF StallEnds, DropPartial, Stop, Gone, LoopReturns, Go, recordVars,
               publishVars, IInv, TypeOK
    <2>3. EndsAgree'
      BY <1>7 DEF StallEnds, DropPartial, Stop, Gone, LoopReturns, Go, recordVars,
               publishVars, Connected, IInv, TypeOK, SessionTypeOK, EndsAgree, TaskKnows
    <2>4. TaskKnows'
      BY <1>7 DEF StallEnds, DropPartial, Stop, Gone, LoopReturns, Go, recordVars,
               publishVars, Connected, IInv, TypeOK, SessionTypeOK, EndsAgree, TaskKnows
    <2>5. Patience'
      BY <1>7 DEF StallEnds, DropPartial, Stop, Gone, LoopReturns, Go, recordVars,
               publishVars, IInv, TypeOK, SessionTypeOK, EndsAgree, TaskKnows, Patience
    <2>6. TicksAgree'
      BY <1>7 DEF StallEnds, DropPartial, Stop, Gone, LoopReturns, Go, recordVars,
               publishVars, IInv, TypeOK, TicksAgree
    <2> QED  BY <2>1, <2>2, <2>3, <2>4, <2>5, <2>6 DEF IInv
  <1> USE DEF IInv, TypeOK, SessionTypeOK, EndsAgree, TaskKnows, Patience, TicksAgree,
         sessionVars, recordVars, publishVars, Go, Connected, LoopReturns
  <1>1. CASE Loop
    <2>1. CASE NoPing
      BY <1>1, <2>1 DEF Loop, NoPing, KeepAliveOver
    <2>2. CASE Ping
      BY <1>1, <2>2 DEF Loop, Ping, Heard
    <2> QED  BY <1>1, <2>1, <2>2 DEF Loop
  <1>3. CASE LoopNotConnected
    BY <1>3 DEF LoopNotConnected, Forget
  <1>4. CASE LoopReads
    BY <1>4 DEF LoopReads, ReadPacket
  <1>5. CASE LoopReadsNothing
    BY <1>5 DEF LoopReadsNothing
  <1>6. CASE Stall
    BY <1>6 DEF Stall
  <1> QED  BY <1>1, <1>2, <1>3, <1>4, <1>5, <1>6, <1>7

(* A step with the record.                                                   *)
LEMMA RecordIInv ==
  ASSUME IInv,
         GetData \/ TooSoon \/ Publish \/ PublishFailed \/ NotPublished \/ Yielded
  PROVE  IInv'
  <1>4. CASE PublishFailed
    <2>7. inbox' \in Seq(Packet) /\ deadFor' \in 0 .. Detection + 1
      <3>1. inbox' \in {inbox, <<>>} /\ deadFor' \in {deadFor, 0}
        BY <1>4 DEF PublishFailed, PublishFails, Gone
      <3>2. <<>> \in Seq(Packet)
        OBVIOUS
      <3>3. inbox \in Seq(Packet) /\ deadFor \in 0 .. Detection + 1
        BY DEF IInv, TypeOK, SessionTypeOK
      <3>4. deadFor' \in 0 .. Detection + 1
        BY <3>1, <3>3
      <3> QED  BY <3>1, <3>2, <3>3, <3>4
    <2>8. socket' \in {socket, "closed"} /\ broker' \in {broker, "none"}
          /\ owed' \in {owed, "nothing"} /\ owedFor' \in {owedFor, 0}
      BY <1>4 DEF PublishFailed, PublishFails, Gone
    <2>1. SessionTypeOK'
      BY <1>4, <2>7, <2>8 DEF PublishFailed, PublishFails, Gone, Go, recordVars, IInv, TypeOK,
               SessionTypeOK
    <2>2. TypeOK'
      BY <1>4, <2>1 DEF PublishFailed, PublishFails, Gone, Go, recordVars, IInv, TypeOK
    <2>3. EndsAgree'
      BY <1>4 DEF PublishFailed, PublishFails, Gone, Go, recordVars, Connected, IInv,
               TypeOK, SessionTypeOK, EndsAgree, TaskKnows
    <2>4. TaskKnows'
      BY <1>4 DEF PublishFailed, PublishFails, Gone, Go, recordVars, Connected, IInv,
               TypeOK, SessionTypeOK, EndsAgree, TaskKnows
    <2>5. Patience'
      BY <1>4 DEF PublishFailed, PublishFails, Gone, Go, recordVars, IInv, TypeOK,
               SessionTypeOK, EndsAgree, TaskKnows, Patience
    <2>6. TicksAgree'
      BY <1>4 DEF PublishFailed, PublishFails, Gone, Go, recordVars, IInv, TypeOK, TicksAgree
    <2> QED  BY <2>1, <2>2, <2>3, <2>4, <2>5, <2>6 DEF IInv
  <1>6. CASE Yielded
    <2>1. SessionTypeOK'
      BY <1>6 DEF Yielded, Go, sessionVars, recordVars, publishVars, IInv, TypeOK,
               SessionTypeOK
    <2>7. tooSoon' \in BOOLEAN
      BY <1>6 DEF Yielded
    <2>2. TypeOK'
      BY <1>6, <2>1, <2>7 DEF Yielded, Go, sessionVars, recordVars, publishVars, IInv, TypeOK
    <2>3. EndsAgree'
      BY <1>6 DEF Yielded, Go, sessionVars, recordVars, publishVars, Connected, IInv,
               TypeOK, SessionTypeOK, EndsAgree, TaskKnows
    <2>4. TaskKnows'
      BY <1>6 DEF Yielded, Go, sessionVars, recordVars, publishVars, Connected, IInv,
               TypeOK, SessionTypeOK, EndsAgree, TaskKnows
    <2>5. Patience'
      BY <1>6 DEF Yielded, Go, sessionVars, recordVars, publishVars, IInv, TypeOK,
               SessionTypeOK, EndsAgree, TaskKnows, Patience
    <2>6. TicksAgree'
      BY <1>6 DEF Yielded, Go, sessionVars, recordVars, publishVars, IInv, TypeOK, TicksAgree
    <2> QED  BY <2>1, <2>2, <2>3, <2>4, <2>5, <2>6 DEF IInv
  <1> USE DEF IInv, TypeOK, SessionTypeOK, EndsAgree, TaskKnows, Patience, TicksAgree,
         sessionVars, recordVars, publishVars, Go, Connected
  <1>1. CASE GetData
    BY <1>1 DEF GetData
  <1>2. CASE TooSoon
    BY <1>2 DEF TooSoon
  <1>3. CASE Publish
    BY <1>3 DEF Publish, SendPublish, Heard
  <1>5. CASE NotPublished
    BY <1>5 DEF NotPublished, Forget
  <1> QED  BY <1>1, <1>2, <1>3, <1>4, <1>5, <1>6

(* A unit of time.                                                           *)
LEMMA TickIInv == IInv /\ Tick => IInv'
  <1> SUFFICES ASSUME IInv, Tick PROVE IInv'
    OBVIOUS
  <1> USE DEF IInv, Tick, SessionTick, TickCount
  <1>1. TypeOK'
    <2>1. SessionTypeOK'
      BY DEF TypeOK, SessionTypeOK, UpTo
    <2>2. wait' \in 0 .. MaxWait
      BY DEF TypeOK, TaskTick, Patient, taskVars, Go
    <2>5. pc' \in {pc, "top"} /\ tooSoon' \in BOOLEAN
      BY DEF TypeOK, TaskTick, Patient, taskVars, Go
    <2>3. {tick, lastPublishTick}' \subseteq 0 .. TickModulus - 1
      BY DEF TypeOK
    <2>4. warm' \in 0 .. WarmUp + 1 /\ sincePublish' \in 0 .. PublishInterval
      BY DEF TypeOK, UpTo
    <2> QED  BY <2>1, <2>2, <2>3, <2>4, <2>5 DEF TypeOK
  <1>2. EndsAgree'
    BY DEF TypeOK, SessionTypeOK, EndsAgree, UpTo, TaskTick, Patient, Go, taskVars
  <1>3. TaskKnows'
    BY DEF TaskKnows, TaskTick, Patient, Go, taskVars
  <1>4. Patience'
    BY DEF TypeOK, SessionTypeOK, Patience, EndsAgree, TaskKnows, UpTo, TaskTick, Patient, Go, taskVars
  <1>5. TicksAgree'
    BY DEF TypeOK, TicksAgree, UpTo
  <1> QED  BY <1>1, <1>2, <1>3, <1>4, <1>5

LEMMA StepIInv == IInv /\ [Next]_vars => IInv'
  <1> SUFFICES ASSUME IInv, [Next]_vars PROVE IInv'
    OBVIOUS
  <1>1. CASE InternetGiven
    BY <1>1 DEF InternetGiven, IInv, TypeOK, SessionTypeOK, EndsAgree, TaskKnows, Patience,
                TicksAgree, sessionVars, taskVars, publishVars
  <1>2. CASE FirstRecord
    BY <1>2 DEF FirstRecord, IInv, TypeOK, SessionTypeOK, EndsAgree, TaskKnows, Patience,
                TicksAgree, sessionVars, taskVars, publishVars
  <1>3. CASE Network
    BY <1>3, NetworkIInv
  <1>4. CASE Task
    BY <1>4, ReconnectIInv, LoopIInv, RecordIInv DEF Task
  <1>5. CASE Tick
    BY <1>5, TickIInv
  <1>6. CASE UNCHANGED vars
    BY <1>6 DEF vars, IInv, TypeOK, SessionTypeOK, EndsAgree, TaskKnows, Patience,
                TicksAgree, sessionVars, taskVars, recordVars, publishVars
  <1> QED  BY <1>1, <1>2, <1>3, <1>4, <1>5, <1>6 DEF Next

LEMMA AlwaysIInv == Spec => []IInv
  BY InitIInv, StepIInv, PTL DEF Spec

(* Every variable of the task and the session keeps its type, the ticks      *)
(* within their width.                                                       *)
THEOREM TypeCorrect == Spec => []TypeOK
  <1>1. IInv => TypeOK
    BY DEF IInv
  <1> QED  BY <1>1, AlwaysIInv, PTL

(* connected() is never true for a TCP connection whose broker has not       *)
(* accepted the session.                                                     *)
THEOREM SessionFirst == Spec => []PublishesInSession
  <1>1. IInv => PublishesInSession
    BY DEF IInv, TypeOK, SessionTypeOK, TaskKnows, PublishesInSession, Connected
  <1> QED  BY <1>1, AlwaysIInv, PTL

(* With any keep-alive time below the broker's grace, and any publish        *)
(* interval, the broker of a live session is heard from in time.             *)
THEOREM HeardInTime == Spec => []BrokerHearsInTime
  <1>1. IInv => BrokerHearsInTime
    BY DEF IInv, TypeOK, SessionTypeOK, TaskKnows, Patience, EndsAgree, BrokerHearsInTime
  <1> QED  BY <1>1, AlwaysIInv, PTL

(* Whenever the task publishes, at least a publish interval has passed since  *)
(* it published before, wherever the tick count has wrapped meanwhile.       *)
THEOREM Spaced == Spec => PublishSpacing
  <1>1. IInv /\ [Next]_vars => [Publish => sincePublish = PublishInterval]_vars
    <2> SUFFICES ASSUME IInv, Publish PROVE sincePublish = PublishInterval
      OBVIOUS
    <2>1. ~IsTooSoon
      BY DEF Publish
    <2> QED  BY <2>1 DEF IsTooSoon, IInv, TypeOK, TicksAgree
  <1> QED  BY <1>1, AlwaysIInv, PTL DEF Spec, PublishSpacing
-----------------------------------------------------------------------------
(* The keep-alive timer: TInv.                                               *)

LEMMA InboxAppend ==
  ASSUME NEW p \in Packet, inbox \in Seq(Packet), inbox' = Append(inbox, p)
  PROVE  /\ Len(inbox') = Len(inbox) + 1
         /\ \A i \in 1 .. Len(inbox) : inbox'[i] = inbox[i]
         /\ inbox'[Len(inbox) + 1] = p
  OBVIOUS

LEMMA InboxTail ==
  ASSUME inbox \in Seq(Packet), inbox # <<>>, inbox' = Tail(inbox)
  PROVE  /\ Len(inbox) \in Nat \ {0}
         /\ Len(inbox') = Len(inbox) - 1
         /\ \A i \in 1 .. Len(inbox') : inbox'[i] = inbox[i + 1]
         /\ Head(inbox) = inbox[1]
  OBVIOUS

LEMMA TailLast ==
  ASSUME NEW s \in Seq(Packet), s # <<>>
  PROVE  IF Tail(s) = <<>> THEN Len(s) = 1
         ELSE Tail(s)[Len(Tail(s))] = s[Len(s)]
  <1>1. /\ Len(s) \in Nat \ {0} /\ Len(Tail(s)) = Len(s) - 1
        /\ \A i \in 1 .. Len(s) - 1 : Tail(s)[i] = s[i + 1]
        /\ Tail(s) \in Seq(Packet)
    OBVIOUS
  <1> DEFINE t == Tail(s)
  <1> HIDE DEF t
  <1>2. t \in Seq(Packet) /\ Len(t) = Len(s) - 1 /\ \A i \in 1 .. Len(s) - 1 : t[i] = s[i + 1]
    BY <1>1 DEF t
  <1>3. t = <<>> => Len(s) = 1
    <2>1. \A n \in Nat : n - 1 = 0 => n = 1
      OBVIOUS
    <2> QED  BY <1>1, <1>2, <2>1
  <1>4. t # <<>> => Len(t) \in 1 .. Len(s) - 1 /\ Len(t) + 1 = Len(s)
    <2>1. \A n, m \in Nat : m = n - 1 /\ m # 0 => m \in 1 .. n - 1 /\ m + 1 = n
      OBVIOUS
    <2>2. Len(t) \in Nat /\ (t # <<>> => Len(t) # 0)
      BY <1>2
    <2> QED  BY <1>1, <1>2, <2>1, <2>2
  <1>5. t # <<>> => t[Len(t)] = s[Len(s)]
    BY <1>2, <1>4
  <1> QED  BY <1>3, <1>5 DEF t

LEMMA OnePartial ==
  ASSUME NEW s \in Seq(Packet), s # <<>>, s[1] = "partial",
         \A i \in 1 .. Len(s) - 1 : s[i] # "partial"
  PROVE  s = <<"partial">> /\ Len(s) = 1
  <1>1. Len(s) = 1
    <2>1. 1 \notin 1 .. Len(s) - 1 /\ Len(s) \in Nat \ {0}
      OBVIOUS
    <2>2. \A n \in Nat \ {0} : 1 \notin 1 .. n - 1 => n = 1
      OBVIOUS
    <2> QED  BY <2>1, <2>2
  <1>2. s = <<"partial">>
    BY <1>1
  <1> QED  BY <1>1, <1>2

LEMMA OneLess ==
  ASSUME NEW d \in Nat, NEW e \in Nat, NEW u \in Nat, NEW v \in Nat, NEW b \in Nat,
         d + u <= b, v + 1 <= u, e = 0 \/ e <= d + 1
  PROVE  e + v <= b
  OBVIOUS

LEMMA InitTInv == Init => TInv
  BY DEF Init, SessionInit, TInv, OneAnswer, FirstRound, AnswerInTime, DeadTime, Waiting

LEMMA OneAnswerStep == IInv /\ TInv /\ [Next]_vars => OneAnswer'
  <1> SUFFICES ASSUME IInv, TInv, [Next]_vars PROVE OneAnswer'
    OBVIOUS
  <1> USE DEF IInv, TypeOK, SessionTypeOK, EndsAgree, TaskKnows, TInv, OneAnswer, Go, Connected
  <1>1. CASE UNCHANGED sessionVars
    BY <1>1 DEF sessionVars
  <1>2. CASE Network
    <2>1. CASE BrokerAccepts
      BY <1>2, <2>1 DEF Network, BrokerAccepts
    <2>2. CASE BrokerRefuses
      BY <1>2, <2>2 DEF Network, BrokerRefuses
    <2>3. CASE BrokerPongs
      <3>1. /\ Len(inbox') = Len(inbox) + 1
            /\ \A i \in 1 .. Len(inbox) : inbox'[i] = inbox[i]
            /\ inbox'[Len(inbox) + 1] = "pingresp"
        BY <2>3, InboxAppend DEF BrokerPongs
      <3>2. socket = "open" => \A i \in 1 .. Len(inbox) : inbox[i] = "message"
        BY <2>3 DEF BrokerPongs
      <3>3. Len(inbox) + 1 \in 1 .. Len(inbox')
        BY <3>1
      <3>4. UNCHANGED <<socket, state, pingOutstanding>> /\ owed' = "nothing"
        BY <2>3 DEF BrokerPongs
      <3>5. socket = "open" => pingOutstanding
        BY <2>3 DEF BrokerPongs
      <3> QED  BY <3>1, <3>2, <3>3, <3>4, <3>5
    <2>4. CASE BrokerSends
      BY <1>2, <2>4 DEF Network, BrokerSends
    <2>5. CASE BrokerHasWaited
      BY <2>5 DEF BrokerHasWaited, Gone
    <2>6. CASE LinkDies
      BY <2>6 DEF LinkDies, Gone
    <2>7. CASE Reset
      BY <2>7 DEF Reset, Gone
    <2> QED  BY <1>2, <2>1, <2>2, <2>3, <2>4, <2>5, <2>6, <2>7 DEF Network
  <1>3. CASE Top
    BY <1>3 DEF Top, Forget
  <1>4. CASE TcpConnects
    BY <1>4 DEF TcpConnects, SendConnect
  <1>5. CASE ConnackRead
    BY <1>5 DEF ConnackRead, ReadConnack
  <1>6. CASE ConnectFails
    BY <1>6 DEF ConnectFails, Stop, Gone
  <1>7. CASE Loop /\ Ping
    BY <1>7 DEF Loop, Ping
  <1>8. CASE LoopTimesOut
    BY <1>8 DEF LoopTimesOut, PingTimeout, Gone
  <1>9. CASE LoopNotConnected
    BY <1>9 DEF LoopNotConnected, Forget, LoopReturns
  <1>10. CASE LoopReads
    <2>1. inbox # <<>> /\ inbox' = Tail(inbox)
      BY <1>10 DEF LoopReads, ReadPacket
    <2>2. /\ Len(inbox) \in Nat \ {0}
          /\ Len(inbox') = Len(inbox) - 1
          /\ \A i \in 1 .. Len(inbox') : inbox'[i] = inbox[i + 1]
          /\ Head(inbox) = inbox[1]
      BY <2>1, InboxTail
    <2>3. \A i \in 1 .. Len(inbox') : i + 1 \in 1 .. Len(inbox) /\ i + 1 # 1
      BY <2>2
    <2>4. pingOutstanding' = (pingOutstanding /\ inbox[1] # "pingresp")
          /\ UNCHANGED <<socket, state, owed>>
      BY <1>10, <2>2 DEF LoopReads, ReadPacket
    <2> SUFFICES ASSUME socket = "open" PROVE OneAnswer'
      BY <2>4
    <2>5. state /\ 1 \in 1 .. Len(inbox)
      BY <1>10, <2>2 DEF LoopReads, LoopReturns
    <2>6. Len(inbox') <= InboxSize + 1
      BY <2>2
    <2>7. ASSUME NEW i \in 1 .. Len(inbox'), inbox'[i] # "message"
          PROVE  /\ \A j \in 1 .. Len(inbox') : inbox'[j] # "message" => j = i
                 /\ owed = "nothing" /\ inbox'[i] = "pingresp" /\ pingOutstanding'
      BY <2>2, <2>3, <2>4, <2>5, <2>7
    <2>8. (\A i \in 1 .. Len(inbox') : inbox'[i] = "message") => Len(inbox') <= InboxSize
      BY <2>2
    <2>9. pingOutstanding' => owed = "pingresp" \/ \E i \in 1 .. Len(inbox') : inbox'[i] = "pingresp"
      <3> SUFFICES ASSUME pingOutstanding', owed # "pingresp"
                   PROVE  \E i \in 1 .. Len(inbox') : inbox'[i] = "pingresp"
        OBVIOUS
      <3>1. PICK i \in 1 .. Len(inbox) : inbox[i] = "pingresp"
        BY <2>4, <2>5
      <3>2. i # 1
        BY <3>1, <2>4
      <3>3. i - 1 \in 1 .. Len(inbox') /\ inbox'[i - 1] = inbox[i]
        BY <3>2, <2>2
      <3> QED  BY <3>1, <3>3
    <2> QED  BY <2>4, <2>5, <2>6, <2>7, <2>8, <2>9
  <1>11. CASE StallEnds
    BY <1>11 DEF StallEnds, DropPartial, Stop, Gone, LoopReturns
  <1>12. CASE Publish
    BY <1>12 DEF Publish, SendPublish
  <1>13. CASE PublishFailed
    BY <1>13 DEF PublishFailed, PublishFails, Gone
  <1>14. CASE NotPublished
    BY <1>14 DEF NotPublished, Forget
  <1>15. CASE Tick
    BY <1>15 DEF Tick, SessionTick
  <1> QED
    BY <1>1, <1>2, <1>3, <1>4, <1>5, <1>6, <1>7, <1>8, <1>9, <1>10, <1>11, <1>12, <1>13, <1>14,
       <1>15
    DEF Next, InternetGiven, FirstRecord, Task, InternetTaken, TcpFails, DelayEnds, Loop, NoPing,
        LoopReadsNothing, Stall, GetData, TooSoon, Yielded, vars

LEMMA FirstRoundStep == IInv /\ TInv /\ [Next]_vars => FirstRound'
  <1> SUFFICES ASSUME IInv, TInv, [Next]_vars, ~sampled' PROVE FirstRound'
    BY DEF FirstRound
  <1> USE DEF IInv, TypeOK, SessionTypeOK, EndsAgree, TaskKnows, TInv, FirstRound, Go, Connected
  <1>1. ~sampled
    BY DEF Next, InternetGiven, FirstRecord, Network, Task, Tick, InternetTaken, Top, TcpConnects,
           TcpFails, ConnackRead, ConnectFails, DelayEnds, Loop, LoopTimesOut, LoopNotConnected,
           LoopReads, LoopReadsNothing, LoopReturns, Stall, StallEnds, GetData, TooSoon, Publish,
           PublishFailed, NotPublished, Yielded, vars, recordVars
  <1>2. CASE InternetGiven \/ UNCHANGED vars
    BY <1>1, <1>2 DEF InternetGiven, sessionVars, taskVars, vars, recordVars
  <1>3. CASE Network
    BY <1>1, <1>3
    DEF Network, BrokerAccepts, BrokerRefuses, BrokerPongs, BrokerSends, BrokerHasWaited, LinkDies,
        Reset, taskVars
  <1>4. CASE InternetTaken \/ Top \/ TcpConnects \/ TcpFails \/ DelayEnds
    BY <1>1, <1>4
    DEF InternetTaken, Top, Forget, TcpConnects, SendConnect, TcpFails, DelayEnds, sessionVars
  <1>5. CASE ConnackRead \/ ConnectFails
    BY <1>1, <1>5 DEF ConnackRead, ReadConnack, ConnectFails, Stop
  <1>6. CASE Loop
    <2>1. ~KeepAliveOver
      BY <1>1, <1>6 DEF Loop, KeepAliveOver
    <2> QED  BY <1>1, <1>6, <2>1 DEF Loop, NoPing, Ping, sessionVars
  <1>7. CASE LoopTimesOut \/ LoopNotConnected \/ LoopReads \/ LoopReadsNothing
    BY <1>1, <1>7
    DEF LoopTimesOut, PingTimeout, LoopNotConnected, Forget, LoopReads, ReadPacket,
        LoopReadsNothing, LoopReturns, sessionVars
  <1>8. CASE Stall \/ StallEnds
    BY <1>1, <1>8 DEF Stall, StallEnds, DropPartial, Stop, LoopReturns, sessionVars
  <1>9. CASE Tick
    BY <1>1, <1>9 DEF Tick, SessionTick, TaskTick, Patient, taskVars
  <1> QED
    BY <1>1, <1>2, <1>3, <1>4, <1>5, <1>6, <1>7, <1>8, <1>9
    DEF Next, Task, FirstRecord, GetData, TooSoon, Publish, PublishFailed, NotPublished, Yielded

LEMMA AnswerInTimeStep == IInv /\ TInv /\ [Next]_vars => AnswerInTime'
  <1> SUFFICES ASSUME IInv, TInv, [Next]_vars PROVE AnswerInTime'
    OBVIOUS
  <1> USE DEF IInv, TypeOK, SessionTypeOK, EndsAgree, TaskKnows, TInv, OneAnswer, FirstRound,
          AnswerInTime, ReadsNow, Go, Connected
  <1>1. CASE InternetGiven \/ FirstRecord \/ UNCHANGED vars
    BY <1>1 DEF InternetGiven, FirstRecord, sessionVars, taskVars, vars
  <1>2. CASE Network
    <2>1. CASE BrokerAccepts
      BY <1>2, <2>1 DEF Network, BrokerAccepts
    <2>2. CASE BrokerRefuses
      BY <1>2, <2>2 DEF Network, BrokerRefuses
    <2>3. CASE BrokerPongs
      <3>1. /\ Len(inbox') = Len(inbox) + 1
            /\ \A i \in 1 .. Len(inbox) : inbox'[i] = inbox[i]
        BY <2>3, InboxAppend DEF BrokerPongs
      <3>2. socket = "open" => \A i \in 1 .. Len(inbox) : inbox[i] = "message"
        BY <2>3 DEF BrokerPongs
      <3>3. socket = "open" => Len(inbox) <= InboxSize
        BY <3>2
      <3>4. UNCHANGED <<socket, state, pingOutstanding, inAge, outAge, pc>> /\ owed' = "nothing"
        BY <1>2, <2>3 DEF Network, BrokerPongs, taskVars
      <3>5. socket = "open" /\ state => \A age \in {inAge, outAge} : age <= AnswerTime
        BY <2>3 DEF BrokerPongs
      <3> QED  BY <3>1, <3>2, <3>3, <3>4, <3>5
    <2>4. CASE BrokerSends
      BY <1>2, <2>4 DEF Network, BrokerSends, taskVars
    <2>5. CASE BrokerHasWaited
      BY <2>5 DEF BrokerHasWaited, Gone
    <2>6. CASE LinkDies
      BY <2>6 DEF LinkDies, Gone
    <2>7. CASE Reset
      BY <2>7 DEF Reset, Gone
    <2> QED  BY <1>2, <2>1, <2>2, <2>3, <2>4, <2>5, <2>6, <2>7 DEF Network
  <1>3. CASE InternetTaken \/ TcpFails \/ DelayEnds
    BY <1>3 DEF InternetTaken, TcpFails, DelayEnds, sessionVars
  <1>4. CASE Top
    BY <1>4 DEF Top, Forget
  <1>5. CASE TcpConnects
    BY <1>5 DEF TcpConnects, SendConnect
  <1>6. CASE ConnackRead
    BY <1>6 DEF ConnackRead, ReadConnack
  <1>7. CASE ConnectFails
    BY <1>7 DEF ConnectFails, Stop, Gone
  <1>8. CASE Loop
    <2>1. CASE NoPing
      BY <1>8, <2>1 DEF Loop, NoPing, sessionVars
    <2>2. CASE Ping
      BY <1>8, <2>2 DEF Loop, Ping
    <2> QED  BY <1>8, <2>1, <2>2 DEF Loop
  <1>9. CASE LoopTimesOut
    BY <1>9 DEF LoopTimesOut, PingTimeout, Gone
  <1>10. CASE LoopNotConnected
    BY <1>10 DEF LoopNotConnected, Forget, LoopReturns
  <1>11. CASE LoopReads
    <2>1. /\ Len(inbox) \in Nat \ {0}
          /\ Len(inbox') = Len(inbox) - 1
          /\ \A i \in 1 .. Len(inbox') : inbox'[i] = inbox[i + 1]
      BY <1>11, InboxTail DEF LoopReads, ReadPacket
    <2>2. \A i \in 1 .. Len(inbox') : i + 1 \in 1 .. Len(inbox)
      BY <2>1
    <2>3. /\ UNCHANGED <<socket, state, outAge, owed, owedFor>>
          /\ inAge' = 0 /\ (pingOutstanding' => pingOutstanding)
          /\ pc = "read" /\ pc' \in {"yield", "get"}
      BY <1>11 DEF LoopReads, ReadPacket, LoopReturns
    <2> SUFFICES ASSUME socket = "open", state, pingOutstanding PROVE AnswerInTime'
      BY <2>3
    <2>4. owed = "pingresp" => inAge' <= owedFor /\ outAge <= owedFor
      BY <2>3
    <2>5. ASSUME NEW i \in 1 .. Len(inbox'), inbox'[i] = "pingresp"
          PROVE  /\ outAge + i <= AnswerTime + InboxSize + 1
                 /\ inAge' + i <= AnswerTime + InboxSize + 1
      <3>1. outAge + (i + 1) <= AnswerTime + InboxSize + 1 + 1
        BY <2>1, <2>2, <2>3, <2>5
      <3> QED  BY <2>3, <3>1
    <2> QED  BY <2>3, <2>4, <2>5
  <1>12. CASE LoopReadsNothing
    BY <1>12 DEF LoopReadsNothing, LoopReturns, sessionVars
  <1>13. CASE Stall \/ StallEnds
    <2>1. inbox # <<>> /\ Head(inbox) = "partial" => socket # "open"
      <3>1. inbox # <<>> => 1 \in 1 .. Len(inbox) /\ Head(inbox) = inbox[1]
        OBVIOUS
      <3> QED  BY <3>1
    <2>2. socket # "open" /\ socket' # "open"
      BY <1>13, <2>1 DEF Stall, StallEnds, DropPartial, Stop, Gone, LoopReturns, sessionVars
    <2> QED  BY <2>2
  <1>14. CASE GetData \/ TooSoon \/ Yielded
    <2>1. UNCHANGED <<socket, state, pingOutstanding, inAge, outAge, owed, owedFor, inbox>>
      BY <1>14 DEF GetData, TooSoon, Yielded, sessionVars
    <2>2. {ReadsNow, ReadsNow'} \subseteq {0, 1} /\ ReadsNow <= ReadsNow'
      BY <1>14 DEF GetData, TooSoon, Yielded
    <2> HIDE DEF ReadsNow
    <2> QED  BY <2>1, <2>2, SessionAssumption
  <1>15. CASE Publish
    BY <1>15 DEF Publish, SendPublish
  <1>16. CASE PublishFailed
    BY <1>16 DEF PublishFailed, PublishFails, Gone
  <1>17. CASE NotPublished
    BY <1>17 DEF NotPublished, Forget
  <1>18. CASE Tick
    BY <1>18 DEF Tick, SessionTick, TaskTick, Patient, UpTo, taskVars
  <1> QED
    BY <1>1, <1>2, <1>3, <1>4, <1>5, <1>6, <1>7, <1>8, <1>9, <1>10, <1>11, <1>12, <1>13, <1>14,
       <1>15, <1>16, <1>17, <1>18
    DEF Next, Task

(* However much there is to be read, it takes no longer than Detection.      *)
LEMMA UnnoticedBound ==
  /\ IInv /\ pc # "stall" /\ (Waiting => wait <= SocketTimeout)
  /\ Len(inbox) <= InboxSize + (IF Partial THEN 2 ELSE 1)
  => Unnoticed \in 0 .. Detection /\ (deadFor = 0 => deadFor + Unnoticed <= Detection)
  <1> SUFFICES ASSUME IInv, pc # "stall", Waiting => wait <= SocketTimeout,
                      Len(inbox) <= InboxSize + (IF Partial THEN 2 ELSE 1)
               PROVE  Unnoticed \in 0 .. Detection
    BY DEF Detection
  <1>1. /\ inAge \in 0 .. KeepAlive + 1 /\ wait \in Nat
        /\ pingOutstanding \in BOOLEAN
    BY DEF IInv, TypeOK, SessionTypeOK
  <1>2. Silence \in 0 .. 2 * (KeepAlive + 1)
    BY <1>1 DEF Silence, ReadsNow
  <1>3. Len(inbox) \in Nat
    BY DEF IInv, TypeOK, SessionTypeOK
  <1>4. ReadsNow \in {0, 1}
    BY DEF ReadsNow
  <1>5. CASE inbox = <<>> /\ Waiting
    BY <1>1, <1>5 DEF Unnoticed, Detection
  <1>6. CASE inbox = <<>> /\ ~Waiting
    BY <1>2, <1>6 DEF Unnoticed, Detection
  <1>7. CASE inbox # <<>> /\ Partial
    BY <1>3, <1>4, <1>7 DEF Unnoticed, Detection
  <1>8. CASE inbox # <<>> /\ ~Partial
    BY <1>3, <1>4, <1>8 DEF Unnoticed, Detection
  <1> QED  BY <1>5, <1>6, <1>7, <1>8

LEMMA UnnoticedBoundNext ==
  ( /\ IInv /\ pc # "stall" /\ (Waiting => wait <= SocketTimeout)
    /\ Len(inbox) <= InboxSize + (IF Partial THEN 2 ELSE 1)
    => Unnoticed \in 0 .. Detection /\ (deadFor = 0 => deadFor + Unnoticed <= Detection) )'
  BY UnnoticedBound, PTL

LEMMA DeadTimeStep == IInv /\ TInv /\ [Next]_vars => DeadTime'
  <1> SUFFICES ASSUME IInv, TInv, [Next]_vars PROVE DeadTime'
    OBVIOUS
  <1> USE DEF IInv, TypeOK, SessionTypeOK, EndsAgree, TaskKnows, TInv, DeadTime, Waiting, Go
  <1>0. IInv'
    BY StepIInv
  <1>1. CASE InternetGiven \/ FirstRecord \/ UNCHANGED vars
    <2>1. UNCHANGED <<sessionVars, pc, wait>>
      BY <1>1 DEF InternetGiven, FirstRecord, taskVars, vars
    <2>2. UNCHANGED Unnoticed /\ UNCHANGED Partial
      BY <2>1 DEF sessionVars, Unnoticed, Silence, Partial, ReadsNow
    <2> QED  BY <2>1, <2>2 DEF sessionVars, Detection
  <1>2. CASE Network
    <2>1. UNCHANGED <<pc, wait, inAge>>
      BY <1>2 DEF Network, BrokerAccepts, BrokerRefuses, BrokerPongs, BrokerSends,
                  BrokerHasWaited, LinkDies, Reset, taskVars
    <2>2. CASE BrokerAccepts \/ BrokerRefuses \/ BrokerPongs \/ BrokerSends
      BY <2>1, <2>2 DEF BrokerAccepts, BrokerRefuses, BrokerPongs, BrokerSends
    <2>3. CASE BrokerHasWaited \/ Reset
      BY <2>1, <2>3 DEF BrokerHasWaited, Reset, Gone
    <2>4. CASE LinkDies
      <3>1. /\ socket = "open" /\ socket' = "dead" /\ deadFor' = 0
            /\ pc # "stall"
            /\ Len(inbox) <= InboxSize + 1
            /\ \A i \in 1 .. Len(inbox) : inbox[i] # "partial"
        BY <2>4 DEF LinkDies, Gone, OneAnswer
      <3>2. /\ Len(inbox') <= InboxSize + (IF Partial' THEN 2 ELSE 1)
            /\ \A i \in 1 .. Len(inbox') - 1 : inbox'[i] # "partial"
        <4>1. CASE inbox' = inbox
          BY <3>1, <4>1
        <4>2. CASE inbox' = Append(inbox, "partial")
          <5>1. /\ Len(inbox') = Len(inbox) + 1
                /\ \A i \in 1 .. Len(inbox) : inbox'[i] = inbox[i]
                /\ inbox'[Len(inbox) + 1] = "partial"
            BY <4>2, InboxAppend
          <5>2. Partial'
            BY <4>2, <5>1 DEF Partial
          <5> QED  BY <3>1, <5>1, <5>2
        <4> QED  BY <2>4, <4>1, <4>2 DEF LinkDies
      <3>3. (deadFor + Unnoticed <= Detection)'
        <4>1. (Waiting => wait <= SocketTimeout)' /\ (pc # "stall")'
          BY <2>1, <3>1
        <4> HIDE DEF IInv, Waiting
        <4> QED  BY <1>0, <3>1, <3>2, <4>1, UnnoticedBoundNext
      <3>5. (Waiting => wait <= SocketTimeout)' /\ (pc = "read" => inAge <= KeepAlive)'
        BY <2>1
      <3> HIDE DEF IInv, TInv, Waiting
      <3> QED  BY <2>1, <3>1, <3>2, <3>3, <3>5
    <2> QED  BY <1>2, <2>2, <2>3, <2>4 DEF Network
  <1>3. CASE InternetTaken \/ TcpConnects \/ TcpFails \/ DelayEnds
    <2>1. socket' # "dead" /\ deadFor' = 0 /\ pc' \notin {"read", "stall"} /\ wait' = 0
      BY <1>3 DEF InternetTaken, TcpConnects, SendConnect, TcpFails, DelayEnds, sessionVars
    <2> QED  BY <2>1
  <1>4. CASE Top
    <2>1. socket = "dead" => pc' = "loop"
      BY <1>4 DEF Top, Connected
    <2>2. UNCHANGED <<inbox, pingOutstanding, inAge, deadFor, socket>>
          /\ pc = "top" /\ pc' \in {"loop", "tcp"} /\ wait' = 0
      BY <1>4 DEF Top
    <2> QED  BY <2>1, <2>2 DEF Unnoticed, Silence, Partial, ReadsNow, Detection
  <1>5. CASE ConnectFails \/ LoopTimesOut
    BY <1>5 DEF ConnectFails, Stop, LoopTimesOut, PingTimeout, Gone, LoopReturns
  <1>6. CASE LoopNotConnected
    <2>1. socket # "dead"
      BY <1>6 DEF LoopNotConnected, LoopReturns, Connected
    <2> QED  BY <1>6, <2>1 DEF LoopNotConnected, LoopReturns
  <1>7. CASE NoPing /\ Loop
    BY <1>7 DEF NoPing, KeepAliveOver, Loop, sessionVars, Unnoticed, Silence, Partial, ReadsNow,
                Detection
  <1>8. CASE Ping /\ Loop
    BY <1>8 DEF Ping, KeepAliveOver, Loop, Unnoticed, Silence, Partial, ReadsNow,
                Detection
  <1>9. CASE LoopReads \/ ConnackRead
    <2>1. /\ Len(inbox) \in Nat \ {0} /\ Head(inbox) # "partial" /\ Head(inbox) = inbox[1]
          /\ Len(inbox') = Len(inbox) - 1
          /\ \A k \in 1 .. Len(inbox') : inbox'[k] = inbox[k + 1]
      BY <1>9, InboxTail DEF LoopReads, ReadPacket, ConnackRead, ReadConnack
    <2>2. Partial <=> Partial'
      <3>1. inbox' = Tail(inbox) /\ inbox # <<>>
        BY <1>9 DEF LoopReads, ReadPacket, ConnackRead, ReadConnack
      <3> QED  BY <2>1, <3>1, TailLast DEF Partial
    <2>3. /\ UNCHANGED <<socket, deadFor>> /\ inAge' = 0
          /\ pc \in {"read", "connack"} /\ pc' \in {"yield", "get", "top"} /\ wait' = 0
          /\ pc = "read" => pc' \in {"yield", "get"}
          /\ pc = "connack" => pc' = "top"
      BY <1>9 DEF LoopReads, ReadPacket, ConnackRead, ReadConnack, LoopReturns
    <2>4. \A k \in 1 .. Len(inbox') - 1 : k + 1 \in 1 .. Len(inbox) - 1 /\ k \in 1 .. Len(inbox')
      BY <2>1
    <2>5. socket = "dead" =>
              /\ Len(inbox') <= InboxSize + (IF Partial' THEN 2 ELSE 1)
              /\ \A k \in 1 .. Len(inbox') - 1 : inbox'[k] # "partial"
      BY <2>1, <2>2, <2>4
    <2>6. ASSUME socket = "dead" PROVE deadFor' + Unnoticed' <= Detection'
      <3>1. inbox # <<>> /\ pc # "stall" /\ pc' \notin {"stall", "connack"}
        BY <2>1, <2>3
      <3>2. CASE inbox' = <<>>
        BY <2>1, <2>2, <2>3, <2>6, <3>1, <3>2 DEF Unnoticed, Silence, ReadsNow, Detection
      <3>3. CASE inbox' # <<>>
        BY <2>1, <2>2, <2>3, <2>6, <3>1, <3>3 DEF Unnoticed, ReadsNow, Detection
      <3> QED  BY <3>2, <3>3
    <2> QED  BY <2>3, <2>5, <2>6
  <1>10. CASE LoopReadsNothing
    BY <1>10 DEF LoopReadsNothing, LoopReturns, sessionVars, Unnoticed, Silence, Partial, ReadsNow,
                 Detection
  <1>11. CASE Stall
    <2>1. /\ inbox # <<>> /\ inbox[1] = "partial" /\ Len(inbox) \in Nat \ {0}
          /\ 1 \in 1 .. Len(inbox)
      BY <1>11 DEF Stall
    <2>2. socket # "open"
      BY <2>1
    <2>3. ASSUME socket = "dead" PROVE inbox = <<"partial">> /\ Len(inbox) = 1
      BY <2>1, <2>3, OnePartial
    <2>4. /\ UNCHANGED <<sessionVars>> /\ pc \in {"read", "connack"}
          /\ pc' = "stall" /\ wait' = 0
      BY <1>11 DEF Stall
    <2>5. ASSUME socket = "dead" PROVE deadFor' + Unnoticed' <= Detection'
      BY <2>1, <2>3, <2>4, <2>5 DEF sessionVars, Unnoticed, Partial, ReadsNow, Detection
    <2> QED  BY <2>2, <2>3, <2>4, <2>5 DEF sessionVars, Partial
  <1>12. CASE StallEnds
    <2>1. CASE ~state
      BY <1>12, <2>1 DEF StallEnds, Stop, Gone
    <2>2. CASE state
      <3>1. /\ pc = "stall" /\ pc' \in {"yield", "get"} /\ wait' = 0 /\ inbox' = <<>>
            /\ UNCHANGED <<socket, deadFor, inAge, pingOutstanding>>
            /\ socket = "dead" => wait >= SocketTimeout
        BY <1>12, <2>2 DEF StallEnds, DropPartial, LoopReturns
      <3>2. ASSUME socket = "dead" PROVE deadFor' + Unnoticed' <= Detection'
        <4>1. inbox = <<"partial">> /\ Len(inbox) = 1
          BY <3>1, <3>2
        <4> QED
          BY <3>1, <3>2, <4>1 DEF Unnoticed, Silence, ReadsNow, Detection
      <3> QED  BY <3>1, <3>2
    <2> QED  BY <2>1, <2>2
  <1>13. CASE GetData \/ TooSoon \/ Yielded \/ Publish
    <2>1. /\ UNCHANGED <<socket, inbox, deadFor, inAge, pingOutstanding>>
          /\ pc \in {"get", "have", "yield"} /\ pc' \in {"have", "loop", "top", "yield"}
      BY <1>13 DEF GetData, TooSoon, Yielded, Publish, SendPublish, Go, sessionVars
    <2>2. UNCHANGED Partial
      BY <2>1 DEF Partial
    <2>3. ASSUME socket = "dead" PROVE deadFor' + Unnoticed' <= Detection'
      BY <2>1, <2>2, <2>3 DEF Unnoticed, Silence, ReadsNow, Detection
    <2> QED  BY <2>1, <2>2, <2>3
  <1>14. CASE PublishFailed
    BY <1>14 DEF PublishFailed, PublishFails, Gone, Unnoticed, Silence, Partial, ReadsNow,
                 Detection
  <1>15. CASE NotPublished
    BY <1>15 DEF NotPublished, Connected
  <1>16. CASE Tick
    <2>1. CASE pc \in {"setup", "tcp", "delay"}
      BY <1>16, <2>1 DEF Tick, SessionTick, TaskTick, Patient, taskVars
    <2>2. CASE pc = "get"
      <3>1. /\ UNCHANGED <<socket, inbox, pc>> /\ deadFor' = 0
        BY <1>16, <2>2 DEF Tick, SessionTick, TaskTick, Patient, taskVars
      <3>2. UNCHANGED Partial
        BY <3>1 DEF Partial
      <3>3. socket = "dead" => (deadFor + Unnoticed <= Detection)'
        <4>1. socket = "dead" => Len(inbox) <= InboxSize + (IF Partial THEN 2 ELSE 1)
          OBVIOUS
        <4> HIDE DEF IInv, TInv, DeadTime
        <4> QED  BY <1>0, <2>2, <3>1, <3>2, <4>1, UnnoticedBoundNext
      <3> QED  BY <2>2, <3>1, <3>2, <3>3 DEF Detection
    <2>3. CASE pc = "connack"
      BY <1>16, <2>3 DEF Tick, SessionTick, TaskTick, Patient, taskVars, UpTo, Unnoticed, Detection
    <2>4. CASE pc = "stall"
      <3>1. /\ UNCHANGED <<socket, inbox, pc>> /\ wait < SocketTimeout /\ wait' = wait + 1
            /\ socket # "closed"
            /\ deadFor' = 0 \/ (deadFor' <= deadFor + 1 /\ socket = "dead")
        BY <1>16, <2>4 DEF Tick, SessionTick, TaskTick, Patient, taskVars, UpTo
      <3>2. inbox = <<"partial">> /\ Len(inbox) = 1 /\ socket = "dead"
        BY <2>4, <3>1
      <3>3. deadFor' + Unnoticed' <= Detection'
        <4>1. Unnoticed = 2 * (KeepAlive + 1) + 1 - 0 + (SocketTimeout - wait - 1)
          BY <2>4, <3>2 DEF Unnoticed, ReadsNow
        <4>2. Unnoticed' = 2 * (KeepAlive + 1) + 1 - 0 + (SocketTimeout - wait' - 1)
          BY <2>4, <3>1, <3>2 DEF Unnoticed, ReadsNow
        <4>3. Unnoticed' + 1 <= Unnoticed /\ Unnoticed \in Nat /\ Unnoticed' \in Nat
          BY <3>1, <4>1, <4>2
        <4>4. deadFor + Unnoticed <= Detection /\ deadFor \in Nat /\ deadFor' \in Nat
              /\ Detection' = Detection
          BY <1>0, <3>2 DEF Detection
        <4> HIDE DEF IInv, TInv, DeadTime
        <4> QED  BY <3>1, <4>3, <4>4, OneLess
      <3> QED  BY <2>4, <3>1, <3>2, <3>3 DEF Partial
    <2>5. CASE pc = "yield"
      <3>1. /\ UNCHANGED <<socket, inbox, pingOutstanding>> /\ pc' = "top" /\ wait' = 0
            /\ inAge' = IF inAge < KeepAlive + 1 THEN inAge + 1 ELSE KeepAlive + 1
        BY <1>16, <2>5 DEF Tick, SessionTick, TaskTick, Patient, taskVars, UpTo
      <3>2. UNCHANGED Partial
        BY <3>1 DEF Partial
      <3>4. deadFor' = 0 \/ (deadFor' <= deadFor + 1 /\ socket = "dead")
        <4>1. deadFor' = IF socket = "dead" /\ sampled THEN UpTo(deadFor, Detection + 1) ELSE 0
          BY <1>16 DEF Tick, SessionTick
        <4>2. \A d, b \in Nat : UpTo(d, b) <= d + 1
          BY DEF UpTo
        <4>3. deadFor \in Nat /\ Detection + 1 \in Nat
          OBVIOUS
        <4> HIDE DEF IInv, TInv
        <4>4. UpTo(deadFor, Detection + 1) <= deadFor + 1
          BY <4>2, <4>3
        <4>5. CASE socket = "dead" /\ sampled
          <5>1. deadFor' = UpTo(deadFor, Detection + 1)
            BY <4>1, <4>5
          <5> QED  BY <4>4, <4>5, <5>1
        <4>6. CASE ~(socket = "dead" /\ sampled)
          BY <4>1, <4>6
        <4> QED  BY <4>5, <4>6
      <3>3. ASSUME socket = "dead" PROVE deadFor' + Unnoticed' <= Detection'
        <4>1. Unnoticed' + 1 <= Unnoticed /\ Unnoticed \in Nat /\ Unnoticed' \in Nat
          <5>1. CASE inbox = <<>>
            <6>1. Unnoticed = Silence /\ Unnoticed' = Silence'
              BY <2>5, <3>1, <5>1 DEF Unnoticed
            <6>2. Silence' + 1 <= Silence /\ Silence \in Nat /\ Silence' \in Nat
              BY <1>0, <2>5, <3>1 DEF Silence, ReadsNow
            <6> QED  BY <6>1, <6>2
          <5>2. CASE inbox # <<>>
            BY <1>0, <2>5, <3>1, <3>2, <5>2 DEF Unnoticed, ReadsNow
          <5> QED  BY <5>1, <5>2
        <4>4. deadFor + Unnoticed <= Detection /\ deadFor \in Nat /\ deadFor' \in Nat
              /\ Detection' = Detection
          BY <1>0, <3>3 DEF Detection
        <4> HIDE DEF IInv, TInv, DeadTime
        <4> QED  BY <3>4, <4>1, <4>4, OneLess
      <3> QED  BY <2>5, <3>1, <3>2, <3>3, <3>4
    <2> QED  BY <1>16, <2>1, <2>2, <2>3, <2>4, <2>5 DEF Tick, TaskTick, Patient
  <1> QED
    BY <1>1, <1>2, <1>3, <1>4, <1>5, <1>6, <1>7, <1>8, <1>9, <1>10, <1>11, <1>12, <1>13, <1>14,
       <1>15, <1>16
    DEF Next, Task, Loop

LEMMA StepTInv == IInv /\ TInv /\ [Next]_vars => TInv'
  BY OneAnswerStep, FirstRoundStep, AnswerInTimeStep, DeadTimeStep DEF TInv

LEMMA AlwaysTInv == Spec => [](IInv /\ TInv)
  BY InitIInv, StepIInv, InitTInv, StepTInv, PTL DEF Spec

(* Once there are records, a socket is dead for no longer than the packets   *)
(* before its end, one timeout and two keep-alive times take to pass,        *)
(* whatever the task is doing when the link dies.                            *)
THEOREM DeadNoticed == Spec => []DeadFoundOut
  <1>1. IInv /\ TInv => DeadFoundOut
    <2> SUFFICES ASSUME IInv, TInv PROVE DeadFoundOut
      OBVIOUS
    <2> USE DEF IInv, TypeOK, SessionTypeOK, TInv, DeadTime, Waiting
    <2>1. CASE socket # "dead"
      BY <2>1 DEF DeadFoundOut
    <2>2. CASE socket = "dead"
      <3>1. Unnoticed \in Nat
        <4>1. CASE inbox = <<>>
          BY <2>2, <4>1 DEF Unnoticed, Silence, ReadsNow
        <4>2. CASE inbox # <<>>
          BY <2>2, <4>2 DEF Unnoticed, ReadsNow, Partial
        <4> QED  BY <4>1, <4>2
      <3>2. deadFor + Unnoticed <= Detection /\ deadFor \in Nat
        BY <2>2
      <3> QED  BY <3>1, <3>2 DEF DeadFoundOut
    <2> QED  BY <2>1, <2>2
  <1> QED  BY <1>1, AlwaysTInv, PTL

(* A broker that answers in time is never given up, from the first session   *)
(* on: its answer is read before the keep-alive time is over again.          *)
THEOREM LiveKept == Spec => LiveBrokerKept
  <1>1. IInv /\ TInv /\ [Next]_vars => [LoopTimesOut => socket = "dead"]_vars
    <2> SUFFICES ASSUME IInv, TInv, LoopTimesOut, socket # "dead" PROVE FALSE
      OBVIOUS
    <2> USE DEF IInv, TypeOK, SessionTypeOK, EndsAgree, TaskKnows, TInv
    <2>1. socket = "open" /\ state /\ pingOutstanding /\ pc = "loop"
      BY DEF LoopTimesOut, PingTimeout, Connected, LoopReturns, Go
    <2>2. PICK age \in {inAge, outAge} : age > KeepAlive
      BY DEF LoopTimesOut, PingTimeout, KeepAliveOver
    <2>3. CASE owed = "pingresp"
      BY <2>1, <2>2, <2>3, AnswerAssumption DEF AnswerInTime
    <2>4. CASE owed # "pingresp"
      <3>1. PICK i \in 1 .. Len(inbox) : inbox[i] = "pingresp"
        BY <2>1, <2>4 DEF OneAnswer
      <3>2. age + i <= AnswerTime + InboxSize + 2
        BY <2>1, <3>1 DEF AnswerInTime, ReadsNow
      <3> QED  BY <2>2, <3>1, <3>2, AnswerAssumption
    <2> QED  BY <2>3, <2>4
  <1> QED  BY <1>1, AlwaysTInv, PTL DEF Spec, LiveBrokerKept
=============================================================================
