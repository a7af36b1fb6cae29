------------------------------ MODULE WebControl ------------------------------
(* Relay control over the WebSocket (task_webserver.cpp, data/script.js).     *)
(* A dashboard flips a relay on its page at once and sends the new state; the *)
(* server stores it and answers every connected dashboard, and in between     *)
(* broadcasts the sensor record.  The server's messages wait in a queue per   *)
(* client which, when full, drops them.  Sockets close and open again, pages  *)
(* are reloaded, and the device restarts, also because settings were saved.   *)
(* A socket closes at both ends at once and what is on its way is lost: what  *)
(* the server had received before, it had handled.  Messages the server ignores*)
(* (no JSON, no relay, settings without values) are left out.                 *)
EXTENDS Naturals, Sequences

CONSTANTS
    Dashboards,    \* the pages open in browsers
    Devices,       \* "fan_relay" and "gas_valve_relay"
    QueueLimit,    \* messages the server keeps for one client
    MaxSent        \* bound on the messages of a dashboard on their way

ASSUME QueueLimitAssumption == QueueLimit \in Nat
ASSUME MaxSentAssumption == MaxSent \in Nat

VARIABLES
    serving,       \* webserver_task has started the server
    relayState,    \* fanRelayState and gasValveRelayState of the server
    shown,         \* the two variables of that name in each dashboard
    link,          \* each dashboard's websocket
    up,            \* what each dashboard has sent
    down,          \* what the server has queued for each dashboard
    informed       \* history: the devices whose last response was put in the
                   \* queue of the dashboard's present socket

vars == <<serving, relayState, shown, link, up, down, informed>>

Control(d, s) == [type |-> "control", device |-> d, state |-> s]
Setting == [type |-> "setting"]
Response(d, s) == [type |-> "control_response", device |-> d, state |-> s]
SensorData == [type |-> "sensor_data"]

Commands == {Control(d, s) : d \in Devices, s \in BOOLEAN}
Responses == {Response(d, s) : d \in Devices, s \in BOOLEAN}

TypeOK ==
    /\ serving \in BOOLEAN
    /\ relayState \in [Devices -> BOOLEAN]
    /\ shown \in [Dashboards -> [Devices -> BOOLEAN]]
    /\ link \in [Dashboards -> {"open", "closed"}]
    /\ up \in [Dashboards -> Seq(Commands \cup {Setting})]
    /\ down \in [Dashboards -> Seq(Responses \cup {SensorData})]
    /\ \A c \in Dashboards : Len(down[c]) <= QueueLimit
    /\ informed \in [Dashboards -> SUBSET Devices]

AllOff == [d \in Devices |-> FALSE]

Init ==
    /\ serving = FALSE
    /\ relayState = AllOff
    /\ shown = [c \in Dashboards |-> AllOff]
    /\ link = [c \in Dashboards |-> "closed"]
    /\ up = [c \in Dashboards |-> << >>]
    /\ down = [c \in Dashboards |-> << >>]
    /\ informed = [c \in Dashboards |-> {}]

-----------------------------------------------------------------------------
(* The dashboard                                                             *)

\* toggleFanRelay, toggleGasValveRelay: the page changes whether or not
\* Send_Data finds the socket open.
Toggle(c, d) ==
    /\ shown' = [shown EXCEPT ![c][d] = ~@]
    /\ IF link[c] = "open"
       THEN /\ Len(up[c]) < MaxSent
            /\ up' = [up EXCEPT ![c] = Append(@, Control(d, shown'[c][d]))]
       ELSE UNCHANGED up
    /\ UNCHANGED <<serving, relayState, link, down, informed>>

\* The settings form.
Submit(c) ==
    /\ link[c] = "open"
    /\ Len(up[c]) < MaxSent
    /\ up' = [up EXCEPT ![c] = Append(@, Setting)]
    /\ UNCHANGED <<serving, relayState, shown, link, down, informed>>

\* onMessage: a response sets the relay shown, a record changes the gauges.
Receive(c) ==
    /\ down[c] # << >>
    /\ down' = [down EXCEPT ![c] = Tail(@)]
    /\ LET m == Head(down[c])
       IN  shown' = IF m \in Responses
                    THEN [shown EXCEPT ![c][m.device] = m.state]
                    ELSE shown
    /\ UNCHANGED <<serving, relayState, link, up, informed>>

\* initWebSocket, on loading the page and two seconds after each onClose.  The
\* server's WS_EVT_CONNECT only logs: the new client is sent nothing.
Open(c) ==
    /\ serving
    /\ link[c] = "closed"
    /\ link' = [link EXCEPT ![c] = "open"]
    /\ UNCHANGED <<serving, relayState, shown, up, down, informed>>

\* The sockets of the dashboards in S are closed.
CloseAll(S) ==
    /\ link' = [c \in Dashboards |-> IF c \in S THEN "closed" ELSE link[c]]
    /\ up' = [c \in Dashboards |-> IF c \in S THEN << >> ELSE up[c]]
    /\ down' = [c \in Dashboards |-> IF c \in S THEN << >> ELSE down[c]]
    /\ informed' = [c \in Dashboards |-> IF c \in S THEN {} ELSE informed[c]]

\* The connection is lost; the page keeps what it shows.
Close(c) ==
    /\ link[c] = "open"
    /\ CloseAll({c})
    /\ UNCHANGED <<serving, relayState, shown>>

Reload(c) ==
    /\ shown' = [shown EXCEPT ![c] = AllOff]
    /\ CloseAll({c})
    /\ UNCHANGED <<serving, relayState>>

-----------------------------------------------------------------------------
(* The server                                                                *)

\* webserver_task up to server->begin().
Start ==
    /\ ~serving
    /\ serving' = TRUE
    /\ UNCHANGED <<relayState, shown, link, up, down, informed>>

\* The device restarts: its variables are lost, and every socket.
Restart ==
    /\ serving' = FALSE
    /\ relayState' = AllOff
    /\ CloseAll(Dashboards)
    /\ UNCHANGED shown

HasRoom(c) == link[c] = "open" /\ Len(down[c]) < QueueLimit

\* ws->textAll(m): a client whose queue is full does not get m.
TextAll(m) ==
    down' = [c \in Dashboards |-> IF HasRoom(c) THEN Append(down[c], m) ELSE down[c]]

AnswerSender(c, d, s) ==    \* variant: client->text to the sender
    /\ down' = [down EXCEPT ![c] = IF HasRoom(c) THEN Append(@, Response(d, s)) ELSE @]
    /\ informed' = [informed EXCEPT ![c] = IF HasRoom(c) THEN @ \cup {d} ELSE @ \ {d}]

\* sendControlResponse, on a command of c.
Answer(c, d, s) ==
    /\ TextAll(Response(d, s))
    /\ informed' = [b \in Dashboards |->
                        IF HasRoom(b) THEN informed[b] \cup {d} ELSE informed[b] \ {d}]

\* onWsEvent, WS_EVT_DATA with a control message.
HandleControl(c) ==
    /\ up[c] # << >>
    /\ LET m == Head(up[c])
       IN  /\ m \in Commands
           /\ relayState' = [relayState EXCEPT ![m.device] = m.state]
           /\ Answer(c, m.device, relayState'[m.device])
    /\ up' = [up EXCEPT ![c] = Tail(@)]
    /\ UNCHANGED <<serving, shown, link>>

\* Save_info_File restarts the device, whether or not it could save.
HandleSetting(c) ==
    /\ up[c] # << >>
    /\ Head(up[c]) = Setting
    /\ Restart

BroadcastFirst ==    \* variant: records overtake what is in the queues
    /\ serving
    /\ down' = [c \in Dashboards |-> IF HasRoom(c) THEN <<SensorData>> \o down[c] ELSE down[c]]
    /\ UNCHANGED <<serving, relayState, shown, link, up, informed>>

\* webserver_task's loop, which does not wait between two rounds.
Broadcast ==
    /\ serving
    /\ TextAll(SensorData)
    /\ UNCHANGED <<serving, relayState, shown, link, up, informed>>

-----------------------------------------------------------------------------
Handle(c) == HandleControl(c) \/ HandleSetting(c)

Next ==
    \/ \E c \in Dashboards :
          \/ \E d \in Devices : Toggle(c, d)
          \/ Submit(c) \/ Receive(c) \/ Open(c) \/ Close(c) \/ Reload(c)
          \/ Handle(c)
    \/ Start \/ Restart \/ Broadcast

\* Browsers and the server's event loop act on what they have received, pages
\* keep trying to connect, and a device that boots starts its server.
Fairness ==
    /\ \A c \in Dashboards : WF_vars(Receive(c)) /\ WF_vars(Open(c)) /\ WF_vars(Handle(c))
    /\ WF_vars(Start)

Spec == Init /\ [][Next]_vars
FairSpec == Spec /\ Fairness

-----------------------------------------------------------------------------
(* Properties                                                                *)

\* The positions in q of the messages about device d.
About(q, d) == {i \in DOMAIN q : q[i] \in Commands \cup Responses /\ q[i].device = d}

\* Agreement: however many dashboards toggle a relay at once, and each shows its
\* own wish first, one whose commands about it have been handled, which has
\* read the responses about it and into whose queue the last of them was put,
\* shows the state the server has.
Agreement ==
    \A c \in Dashboards : \A d \in informed[c] :
        About(up[c], d) = {} /\ About(down[c], d) = {} => shown[c][d] = relayState[d]

\* Controls settle: when no more commands are sent and no socket opens or
\* closes, the dashboards end up showing the states whose responses had room
\* in their queues, although the server never stops broadcasting records.
ControlsSettle ==
    <>[][link' = link /\ \A c \in Dashboards : Len(up'[c]) <= Len(up[c])]_vars
        => <>[](\A c \in Dashboards : \A d \in informed[c] : shown[c][d] = relayState[d])

\* README section 3.3: the dashboard displays the relay states.  Here: one that
\* is connected, with nothing about a relay on its way, shows the server's.
DashboardShowsRelays ==
    \A c \in Dashboards, d \in Devices :
        link[c] = "open" /\ About(up[c], d) = {} /\ About(down[c], d) = {}
            => shown[c][d] = relayState[d]
=============================================================================
