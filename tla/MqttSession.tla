------------------------------ MODULE MqttSession ------------------------------
(* The MQTT session of lib/PubSubClient between the client and its broker,   *)
(* in units of time.  A packet is its type (module MqttFraming has its       *)
(* bytes).  The broker, external, answers within a time, ends a session of   *)
(* which it has heard nothing for too long, and may vanish without a word:   *)
(* the client's socket is then "dead", and writes to it still succeed.       *)
EXTENDS Naturals, Sequences

CONSTANTS
    KeepAlive,       \* MQTT_KEEPALIVE
    SocketTimeout,   \* MQTT_SOCKET_TIMEOUT
    Grace,           \* what the broker allows: 1.5 times KeepAlive
    AnswerTime,      \* how long the broker may take to answer
    InboxSize        \* bound: messages that wait to be read

ASSUME SessionAssumption ==
    /\ {KeepAlive, SocketTimeout, Grace, AnswerTime, InboxSize} \subseteq Nat \ {0}
    /\ KeepAlive < Grace /\ AnswerTime <= Grace

VARIABLES
    socket,     \* the client's: "closed", "open" or "dead"
    broker,     \* what the broker has: "none", a "connection" or a "session"
    state,      \* _state = MQTT_CONNECTED
    pingOutstanding,
    inAge,      \* millis() - lastInActivity, up to KeepAlive + 1
    outAge,     \* millis() - lastOutActivity, up to KeepAlive + 1
    inbox,      \* packets to be read
    owed,       \* the answer the broker is going to send
    owedFor,    \* ... and for how long
    silent,     \* how long the broker has heard nothing, up to Grace + 1
    deadFor     \* history: how long the socket has been dead with the client
                \* running, up to Detection + 1

sessionVars == <<socket, broker, state, pingOutstanding, inAge, outAge, inbox,
                 owed, owedFor, silent, deadFor>>

Packet == {"connack", "refusal", "pingresp", "message", "partial"}

\* A dead socket is found out within this time: the packets that came before
\* the end are read, one in each unit, an answer and one that never ends among
\* them; the latter costs a timeout; then two periods of silence, each noticed in
\* the unit after it is over, the first of which ends in a ping.
Detection == InboxSize + 2 + SocketTimeout + 2 * (KeepAlive + 1)

SessionTypeOK ==
    /\ socket \in {"closed", "open", "dead"}
    /\ broker \in {"none", "connection", "session"}
    /\ state \in BOOLEAN /\ pingOutstanding \in BOOLEAN
    /\ inAge \in 0 .. KeepAlive + 1 /\ outAge \in 0 .. KeepAlive + 1
    /\ inbox \in Seq(Packet)
    /\ owed \in {"nothing", "connack", "pingresp"}
    /\ owedFor \in 0 .. AnswerTime
    /\ silent \in 0 .. Grace + 1
    /\ deadFor \in 0 .. Detection + 1

SessionInit ==
    /\ socket = "closed" /\ broker = "none"
    /\ state = FALSE /\ pingOutstanding = FALSE
    /\ inAge = 0 /\ outAge = 0
    /\ inbox = <<>>
    /\ owed = "nothing" /\ owedFor = 0
    /\ silent = 0 /\ deadFor = 0

\* The connection is no more, for either side.
Gone(s) ==
    /\ socket' = s
    /\ broker' = "none"
    /\ owed' = "nothing" /\ owedFor' = 0
    /\ deadFor' = 0

\* The broker hears of a packet that the client writes.
Heard == silent' = IF socket = "open" THEN 0 ELSE silent

-----------------------------------------------------------------------------
(* The broker and the network                                                *)

BrokerAccepts ==
    /\ owed = "connack"
    /\ broker' = "session"
    /\ inbox' = Append(inbox, "connack")
    /\ owed' = "nothing" /\ owedFor' = 0
    /\ UNCHANGED <<socket, state, pingOutstanding, inAge, outAge, silent, deadFor>>

BrokerRefuses ==
    /\ owed = "connack"
    /\ broker' = "none"
    /\ inbox' = Append(inbox, "refusal")
    /\ owed' = "nothing" /\ owedFor' = 0
    /\ UNCHANGED <<socket, state, pingOutstanding, inAge, outAge, silent, deadFor>>

BrokerPongs ==
    /\ owed = "pingresp"
    /\ inbox' = Append(inbox, "pingresp")
    /\ owed' = "nothing" /\ owedFor' = 0
    /\ UNCHANGED <<socket, broker, state, pingOutstanding, inAge, outAge, silent, deadFor>>

\* A SUBACK or an RPC request.
BrokerSends ==
    /\ broker = "session"
    /\ Len(inbox) < InboxSize
    /\ inbox' = Append(inbox, "message")
    /\ UNCHANGED <<socket, broker, state, pingOutstanding, inAge, outAge, owed, owedFor,
                   silent, deadFor>>

BrokerHasWaited ==
    /\ broker = "session"
    /\ silent > Grace
    /\ Gone("closed")
    /\ inbox' = <<>>
    /\ UNCHANGED <<state, pingOutstanding, inAge, outAge, silent>>

\* The link is lost, perhaps in the middle of a packet.
LinkDies ==
    /\ socket = "open"
    /\ Gone("dead")
    /\ inbox' \in {inbox, Append(inbox, "partial")}
    /\ UNCHANGED <<state, pingOutstanding, inAge, outAge, silent>>

\* The connection is reset, or TCP gives it up.
Reset ==
    /\ socket # "closed"
    /\ Gone("closed")
    /\ inbox' = <<>>
    /\ UNCHANGED <<state, pingOutstanding, inAge, outAge, silent>>

-----------------------------------------------------------------------------
(* The client                                                                *)

Connected == state /\ socket # "closed"

ForgetNothing == state' = state    \* variant: a closed socket leaves _state alone

\* connected(), which also forgets a session whose socket is closed.
Forget == state' = Connected

\* connect(), once the TCP connection is there: CONNECT is sent.
SendConnect ==
    /\ socket' = "open" /\ broker' = "connection"
    /\ owed' = "connack" /\ owedFor' = 0
    /\ inAge' = 0 /\ outAge' = 0
    /\ inbox' = <<>>
    /\ silent' = 0 /\ deadFor' = 0
    /\ UNCHANGED <<state, pingOutstanding>>

\* _client->stop()
Stop ==
    /\ Gone("closed")
    /\ inbox' = <<>>
    /\ UNCHANGED <<state, pingOutstanding, inAge, outAge, silent>>

\* CONNACK has been read, and the caller subscribes.
ReadConnack ==
    /\ inbox # <<>> /\ Head(inbox) = "connack"
    /\ inbox' = Tail(inbox)
    /\ state' = TRUE /\ pingOutstanding' = FALSE
    /\ inAge' = 0 /\ outAge' = 0
    /\ Heard
    /\ UNCHANGED <<socket, broker, owed, owedFor, deadFor>>

KeepAliveOverIn == inAge > KeepAlive      \* variant: only what comes in counts

KeepAliveOver == inAge > KeepAlive \/ outAge > KeepAlive

\* loop(), its first half, with nothing to do, ...
NoPing ==
    /\ ~KeepAliveOver
    /\ UNCHANGED sessionVars

PingAgeStays ==    \* variant: the ping is not a sign of life
    /\ KeepAliveOver /\ ~pingOutstanding
    /\ pingOutstanding' = TRUE
    /\ Heard
    /\ owed' = IF socket = "open" THEN "pingresp" ELSE "nothing"
    /\ owedFor' = 0
    /\ UNCHANGED <<socket, broker, state, inAge, outAge, inbox, deadFor>>

PingAgain ==    \* variant: another ping when the first has no answer
    /\ KeepAliveOver
    /\ pingOutstanding' = TRUE
    /\ inAge' = 0 /\ outAge' = 0
    /\ Heard
    /\ owed' = IF socket = "open" THEN "pingresp" ELSE "nothing"
    /\ owedFor' = 0
    /\ UNCHANGED <<socket, broker, state, inbox, deadFor>>

\* ... a PINGREQ to send, ...
Ping ==
    /\ KeepAliveOver /\ ~pingOutstanding
    /\ pingOutstanding' = TRUE
    /\ inAge' = 0 /\ outAge' = 0
    /\ Heard
    /\ owed' = IF socket = "open" THEN "pingresp" ELSE "nothing"
    /\ owedFor' = 0
    /\ UNCHANGED <<socket, broker, state, inbox, deadFor>>

\* ... or an answer that has not come.
PingTimeout ==
    /\ KeepAliveOver /\ pingOutstanding
    /\ state' = FALSE
    /\ Gone("closed")
    /\ inbox' = <<>>
    /\ UNCHANGED <<pingOutstanding, inAge, outAge, silent>>

\* loop(), its second half: one packet.
ReadPacket ==
    /\ inbox # <<>> /\ Head(inbox) # "partial"
    /\ inbox' = Tail(inbox)
    /\ inAge' = 0
    /\ pingOutstanding' = (pingOutstanding /\ Head(inbox) # "pingresp")
    /\ UNCHANGED <<socket, broker, state, outAge, owed, owedFor, silent, deadFor>>

\* readByte() gives up: the packet counts for nothing.
DropPartial ==
    /\ inbox' = <<>>
    /\ UNCHANGED <<socket, broker, state, pingOutstanding, inAge, outAge, owed, owedFor,
                   silent, deadFor>>

\* publish(), written in full, ...
SendPublish ==
    /\ outAge' = 0
    /\ Heard
    /\ UNCHANGED <<socket, broker, state, pingOutstanding, inAge, inbox, owed, owedFor,
                   deadFor>>

\* ... or not: the socket takes no more, and closes or stays.
PublishFails ==
    /\ socket = "dead"
    /\ outAge' = 0
    /\ \/ Gone("closed") /\ inbox' = <<>>
       \/ UNCHANGED <<socket, broker, owed, owedFor, deadFor, inbox>>
    /\ UNCHANGED <<state, pingOutstanding, inAge, silent>>

-----------------------------------------------------------------------------
UpTo(n, limit) == IF n < limit THEN n + 1 ELSE limit

\* One unit of time, in which the client is running or waits for something else;
\* a broker that owes an answer still has time for it.
SessionTick(running) ==
    /\ owed = "nothing" \/ owedFor < AnswerTime
    /\ inAge' = UpTo(inAge, KeepAlive + 1)
    /\ outAge' = UpTo(outAge, KeepAlive + 1)
    /\ owedFor' = IF owed = "nothing" THEN 0 ELSE owedFor + 1
    /\ silent' = UpTo(silent, Grace + 1)
    /\ deadFor' = IF socket = "dead" /\ running THEN UpTo(deadFor, Detection + 1) ELSE 0
    /\ UNCHANGED <<socket, broker, state, pingOutstanding, inbox, owed>>
=============================================================================
