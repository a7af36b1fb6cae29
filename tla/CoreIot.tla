-------------------------------- MODULE CoreIot --------------------------------
(* task_coreiot (task_coreiot.cpp): it waits for the internet, keeps a       *)
(* session with the CoreIOT server, and publishes the record of the sensor   *)
(* at most once in a publish interval, over the session of MqttSession.      *)
(* Between two delays it takes less than a unit of time.                     *)
EXTENDS MqttSession

CONSTANTS
    ReconnectDelay,    \* 5000 ms
    PublishInterval,   \* 2000 ms
    TickModulus,       \* TickType_t: 2^32 ms
    WarmUp             \* the first record comes within this time, if at all in time

ASSUME CoreIotAssumption ==
    /\ {ReconnectDelay, PublishInterval, TickModulus, WarmUp} \subseteq Nat \ {0}
    /\ PublishInterval < TickModulus
    /\ WarmUp <= Grace

\* The broker's answer is read in time: one packet is read in a unit.
ASSUME AnswerAssumption == AnswerTime + InboxSize < KeepAlive

VARIABLES
    pc,              \* where task_coreiot is
    tooSoon,         \* loop() is called from the "too soon" branch
    wait,            \* how long the task has been waiting there
    internet,        \* xBinarySemaphoreInternet has been given
    sampled,         \* the queue has a record
    warm,            \* how long there has been none, up to WarmUp + 1 (0 as soon
                     \* as time passes with one)
    tick,            \* xTaskGetTickCount()
    lastPublishTick,
    sincePublish     \* history: time since telemetry was sent, up to PublishInterval

taskVars == <<pc, tooSoon, wait>>
recordVars == <<internet, sampled, warm>>
publishVars == <<tick, lastPublishTick, sincePublish>>
vars == <<sessionVars, taskVars, recordVars, publishVars>>

MaxWait == IF SocketTimeout > ReconnectDelay THEN SocketTimeout ELSE ReconnectDelay

TypeOK ==
    /\ SessionTypeOK
    /\ pc \in {"setup", "top", "tcp", "connack", "delay", "loop", "read", "stall",
               "get", "have", "yield"}
    /\ tooSoon \in BOOLEAN
    /\ wait \in 0 .. MaxWait
    /\ internet \in BOOLEAN /\ sampled \in BOOLEAN
    /\ warm \in 0 .. WarmUp + 1
    /\ tick \in 0 .. TickModulus - 1 /\ lastPublishTick \in 0 .. TickModulus - 1
    /\ sincePublish \in 0 .. PublishInterval

Init ==
    /\ SessionInit
    /\ pc = "setup" /\ tooSoon = FALSE /\ wait = 0
    /\ internet = FALSE /\ sampled = FALSE /\ warm = 0
    /\ tick = 0 /\ lastPublishTick = 0
    /\ sincePublish = PublishInterval

Go(from, to) == pc = from /\ pc' = to /\ wait' = 0

-----------------------------------------------------------------------------
(* Around the task: the station connects, a first record comes.              *)

InternetGiven ==
    /\ ~internet
    /\ internet' = TRUE
    /\ UNCHANGED <<sessionVars, taskVars, sampled, warm, publishVars>>

FirstRecord ==
    /\ ~sampled
    /\ sampled' = TRUE
    /\ UNCHANGED <<sessionVars, taskVars, internet, warm, publishVars>>

Network ==
    /\ \/ BrokerAccepts \/ BrokerRefuses \/ BrokerPongs \/ BrokerSends
       \/ BrokerHasWaited \/ LinkDies \/ Reset
    /\ UNCHANGED <<taskVars, recordVars, publishVars>>

-----------------------------------------------------------------------------
(* The task                                                                  *)

\* setup_coreiot
InternetTaken ==
    /\ internet
    /\ Go("setup", "top")
    /\ UNCHANGED <<sessionVars, tooSoon, recordVars, publishVars>>

\* `if (!client.connected()) reconnect();`, and the `while` of reconnect()
Top ==
    /\ Go("top", IF Connected THEN "loop" ELSE "tcp")
    /\ Forget
    /\ UNCHANGED <<socket, broker, pingOutstanding, inAge, outAge, inbox, owed, owedFor,
                   silent, deadFor, tooSoon, recordVars, publishVars>>

TcpConnects ==
    /\ Go("tcp", "connack")
    /\ SendConnect
    /\ UNCHANGED <<tooSoon, recordVars, publishVars>>

TcpFails ==
    /\ Go("tcp", "delay")
    /\ UNCHANGED <<sessionVars, tooSoon, recordVars, publishVars>>

ConnackRead ==
    /\ Go("connack", "top")
    /\ ReadConnack
    /\ UNCHANGED <<tooSoon, recordVars, publishVars>>

\* Refused, or nothing within the socket timeout.
ConnectFails ==
    /\ Go("connack", "delay")
    /\ IF inbox = <<>> THEN wait >= SocketTimeout ELSE Head(inbox) = "refusal"
    /\ Stop
    /\ UNCHANGED <<tooSoon, recordVars, publishVars>>

DelayEnds ==
    /\ wait = ReconnectDelay
    /\ Go("delay", "top")
    /\ UNCHANGED <<sessionVars, tooSoon, recordVars, publishVars>>

\* client.loop(): the check of the keep-alive time, if connected ...
Loop ==
    /\ Connected
    /\ Go("loop", "read")
    /\ NoPing \/ Ping
    /\ UNCHANGED <<tooSoon, recordVars, publishVars>>

\* ... (back in the task: to the record, or to the top after "too soon") ...
LoopReturns(from) ==
    /\ Go(from, IF tooSoon THEN "yield" ELSE "get")
    /\ UNCHANGED <<tooSoon, recordVars, publishVars>>

LoopTimesOut == Connected /\ PingTimeout /\ LoopReturns("loop")

LoopNotConnected ==
    /\ ~Connected
    /\ Forget
    /\ UNCHANGED <<socket, broker, pingOutstanding, inAge, outAge, inbox, owed, owedFor,
                   silent, deadFor>>
    /\ LoopReturns("loop")

\* ... and one packet, if there is one.
LoopReads == ReadPacket /\ LoopReturns("read")

LoopReadsNothing ==
    /\ inbox = <<>>
    /\ UNCHANGED sessionVars
    /\ LoopReturns("read")

\* A packet whose rest does not come: readByte waits, in loop() or in connect().
Stall ==
    /\ inbox # <<>> /\ Head(inbox) = "partial"
    /\ pc \in {"read", "connack"}
    /\ pc' = "stall" /\ wait' = 0
    /\ UNCHANGED <<sessionVars, tooSoon, recordVars, publishVars>>

StallEnds ==
    /\ wait >= SocketTimeout \/ socket = "closed"
    /\ IF state THEN DropPartial /\ LoopReturns("stall")
       ELSE /\ Stop
            /\ Go("stall", "delay")
            /\ UNCHANGED <<tooSoon, recordVars, publishVars>>

\* sensor_get_data(..., portMAX_DELAY)
GetData ==
    /\ sampled
    /\ Go("get", "have")
    /\ UNCHANGED <<sessionVars, tooSoon, recordVars, publishVars>>

\* `now < lastPublishTick + publishInterval`, in TickType_t
TooSoonWraps ==    \* variant
    LET due == lastPublishTick + PublishInterval
    IN  tick < (IF due < TickModulus THEN due ELSE due - TickModulus)

\* `(now - lastPublishTick) < publishInterval`, in TickType_t
IsTooSoon ==
    LET diff == tick - lastPublishTick
    IN  (IF diff >= 0 THEN diff ELSE diff + TickModulus) < PublishInterval

TooSoonPostpones ==    \* variant: the time of the last attempt is kept
    /\ IsTooSoon
    /\ Go("have", "loop")
    /\ tooSoon' = TRUE
    /\ lastPublishTick' = tick
    /\ UNCHANGED <<sessionVars, recordVars, tick, sincePublish>>

TooSoon ==
    /\ IsTooSoon
    /\ Go("have", "loop")
    /\ tooSoon' = TRUE
    /\ UNCHANGED <<sessionVars, recordVars, publishVars>>

Publish ==
    /\ ~IsTooSoon
    /\ Connected
    /\ Go("have", "yield")
    /\ SendPublish
    /\ lastPublishTick' = tick
    /\ sincePublish' = 0
    /\ UNCHANGED <<tick, tooSoon, recordVars>>

\* lastPublishTick moves all the same.
PublishFailed ==
    /\ ~IsTooSoon
    /\ Connected
    /\ Go("have", "yield")
    /\ PublishFails
    /\ lastPublishTick' = tick
    /\ UNCHANGED <<tick, sincePublish, tooSoon, recordVars>>

\* Not connected: the record is dropped.
NotPublished ==
    /\ ~IsTooSoon
    /\ ~Connected
    /\ Go("have", "yield")
    /\ Forget
    /\ UNCHANGED <<socket, broker, pingOutstanding, inAge, outAge, inbox, owed, owedFor,
                   silent, deadFor, tooSoon, recordVars, publishVars>>

\* vTaskDelay of 1 or 10 ms
Yielded ==
    /\ Go("yield", "top")
    /\ tooSoon' = FALSE
    /\ UNCHANGED <<sessionVars, recordVars, publishVars>>

Task == \/ InternetTaken \/ Top
        \/ TcpConnects \/ TcpFails \/ ConnackRead \/ ConnectFails \/ DelayEnds
        \/ Loop \/ LoopTimesOut \/ LoopNotConnected \/ LoopReads \/ LoopReadsNothing
        \/ Stall \/ StallEnds
        \/ GetData \/ TooSoon \/ Publish \/ PublishFailed \/ NotPublished
        \/ Yielded

-----------------------------------------------------------------------------
\* Where time can pass: in what blocks, as long as it may.  The delay at the end
\* of an iteration is shorter than a unit: at most one boundary falls into it.
Patient(at, limit) ==
    /\ pc = at /\ wait < limit
    /\ wait' = wait + 1
    /\ UNCHANGED <<pc, tooSoon>>

TaskTick ==
    \/ pc = "setup" /\ UNCHANGED taskVars
    \/ pc = "get" /\ ~sampled /\ UNCHANGED taskVars
    \/ Patient("tcp", SocketTimeout)
    \/ Patient("connack", SocketTimeout) /\ inbox = <<>>
    \/ Patient("stall", SocketTimeout) /\ socket # "closed"
    \/ Patient("delay", ReconnectDelay)
    \/ Go("yield", "top") /\ tooSoon' = FALSE

TickCount == tick' = IF tick = TickModulus - 1 THEN 0 ELSE tick + 1

Tick ==
    /\ SessionTick(sampled)
    /\ TaskTick
    /\ TickCount
    /\ warm' = IF sampled THEN 0 ELSE UpTo(warm, WarmUp + 1)
    /\ sincePublish' = UpTo(sincePublish, PublishInterval)
    /\ UNCHANGED <<internet, sampled, lastPublishTick>>

Next == InternetGiven \/ FirstRecord \/ Network \/ Task \/ Tick

Fairness ==
    /\ SF_vars(Tick)
    /\ WF_vars(Task)
    /\ WF_vars(Network /\ (BrokerAccepts \/ BrokerPongs))

Spec == Init /\ [][Next]_vars
FairSpec == Spec /\ Fairness

-----------------------------------------------------------------------------
(* Properties                                                                *)

\* Telemetry goes only to a broker that has accepted the session (or to one
\* that was lost since): after a lost connection the client does not take the
\* next TCP connection for a session before its CONNACK.
PublishesInSession == Connected => socket = "dead" \/ broker = "session"

\* The broker of a live connection is never left in silence for longer than it
\* allows, whatever the task is doing, unless the first record is late.
BrokerHearsInTime ==
    broker = "session" /\ silent > Grace => warm > WarmUp

\* A server that vanished is found out in time, though every publish to it
\* seems to succeed: a socket is not dead for longer while the task has records.
DeadFoundOut == deadFor <= Detection

\* ... and one that answers in time is never given up by the keep-alive timer.
LiveBrokerKept == [][LoopTimesOut => socket = "dead"]_vars

\* Whenever telemetry is sent, an interval has passed since it was sent before: not
\* twice in the same unit of time, nor where the tick count wraps.
PublishSpacing == [][Publish => sincePublish = PublishInterval]_vars

\* Once the network behaves and there is a record, telemetry reaches the server
\* again and again, whatever was lost before.
Fault == BrokerRefuses \/ LinkDies \/ Reset \/ TcpFails
KeepsPublishing ==
    <>[]sampled /\ <>[]internet /\ <>[][~Fault]_vars => []<><<Publish /\ socket = "open">>_vars
=============================================================================
