--------------------------- MODULE WebControlProofs ---------------------------
(* What holds of relay control for any number of dashboards, devices and      *)
(* queued messages: types, and the agreement of the dashboards that were told.*)
EXTENDS WebControl, TLAPS

-----------------------------------------------------------------------------
(* What makes the properties inductive                                       *)

\* While no command about d is on its way from c, the last response on its way to c,
\* or else what c shows, is the server's state.
LastWord ==
    \A c \in Dashboards : \A d \in informed[c] :
        About(up[c], d) = {} =>
            \/ About(down[c], d) = {} /\ shown[c][d] = relayState[d]
            \/ \E i \in About(down[c], d) :
                  /\ \A j \in About(down[c], d) : j <= i
                  /\ down[c][i].state = relayState[d]

\* A closed socket carries nothing and its dashboard counts on nothing.
ClosedIsEmpty ==
    \A c \in Dashboards :
        link[c] = "closed" => up[c] = << >> /\ down[c] = << >> /\ informed[c] = {}

IInv == TypeOK /\ LastWord /\ ClosedIsEmpty

-----------------------------------------------------------------------------
Messages == Commands \cup Responses \cup {Setting, SensorData}

\* The message m is about device d.
IsAbout(m, d) == m \in Commands \cup Responses /\ m.device = d

\* A message put at the end of a queue adds its own position, if it is about d.
LEMMA AboutAppend ==
    ASSUME NEW q \in Seq(Messages), NEW m \in Messages, NEW d \in Devices
    PROVE  About(Append(q, m), d) =
               About(q, d) \cup (IF IsAbout(m, d) THEN {Len(q) + 1} ELSE {})
<1> DEFINE Q == Append(q, m)
<1>1. Q \in Seq(Messages) /\ Len(Q) = Len(q) + 1 /\ DOMAIN Q = 1 .. Len(q) + 1
  OBVIOUS
<1>2. DOMAIN q = 1 .. Len(q) /\ Len(q) \in Nat
  OBVIOUS
<1>3. \A i \in 1 .. Len(q) : Q[i] = q[i]
  OBVIOUS
<1>4. Q[Len(q) + 1] = m
  OBVIOUS
<1> HIDE DEF Q
<1>5. About(Q, d) = {i \in 1 .. Len(q) + 1 : IsAbout(Q[i], d)}
  BY <1>1 DEF About, IsAbout
<1>6. About(q, d) = {i \in 1 .. Len(q) : IsAbout(q[i], d)}
  BY <1>2 DEF About, IsAbout
<1>7. About(Q, d) = About(q, d) \cup (IF IsAbout(m, d) THEN {Len(q) + 1} ELSE {})
  BY <1>2, <1>3, <1>4, <1>5, <1>6
<1> QED
  BY <1>7 DEF Q

\* Taking the head off a queue moves every position down by one.
LEMMA AboutTail ==
    ASSUME NEW q \in Seq(Messages), q # << >>, NEW d \in Devices
    PROVE  /\ About(Tail(q), d) = {i \in 1 .. Len(q) - 1 : i + 1 \in About(q, d)}
           /\ 1 \in About(q, d) <=> IsAbout(Head(q), d)
           /\ \A i \in 1 .. Len(q) - 1 : Tail(q)[i] = q[i + 1]
<1>1. /\ Tail(q) \in Seq(Messages) /\ Len(Tail(q)) = Len(q) - 1
      /\ DOMAIN Tail(q) = 1 .. Len(q) - 1 /\ Head(q) = q[1]
      /\ \A i \in 1 .. Len(q) - 1 : Tail(q)[i] = q[i + 1]
  OBVIOUS
<1>2. Len(q) \in Nat /\ Len(q) >= 1 /\ DOMAIN q = 1 .. Len(q)
  OBVIOUS
<1>3. About(Tail(q), d) = {i \in 1 .. Len(q) - 1 : IsAbout(Tail(q)[i], d)}
  BY <1>1 DEF About, IsAbout
<1>4. About(q, d) = {i \in 1 .. Len(q) : IsAbout(q[i], d)}
  BY <1>2 DEF About, IsAbout
<1> QED
  BY <1>1, <1>2, <1>3, <1>4

\* What the kinds of message are.
LEMMA Kinds ==
    /\ \A d \in Devices, s \in BOOLEAN :
          /\ Control(d, s) \in Commands /\ Control(d, s).device = d
          /\ Response(d, s) \in Responses /\ Response(d, s).device = d
          /\ Response(d, s).state = s
    /\ \A m \in Commands \cup Responses : m.device \in Devices /\ m.state \in BOOLEAN
    /\ Setting \notin Commands \cup Responses
    /\ SensorData \notin Commands \cup Responses
<1>1. \A d \in Devices, s \in BOOLEAN :
          /\ Control(d, s) \in Commands /\ Control(d, s).device = d
          /\ Response(d, s) \in Responses /\ Response(d, s).device = d
          /\ Response(d, s).state = s
  BY DEF Control, Response, Commands, Responses
<1>2. \A m \in Commands \cup Responses : m.device \in Devices /\ m.state \in BOOLEAN
  BY DEF Control, Response, Commands, Responses
<1>3. \A m \in Commands \cup Responses : m.type \in {"control", "control_response"}
  BY DEF Control, Response, Commands, Responses
<1>4. Setting.type = "setting" /\ SensorData.type = "sensor_data"
  BY DEF Setting, SensorData
<1> QED
  BY <1>1, <1>2, <1>3, <1>4

LEMMA Queues ==
    ASSUME TypeOK
    PROVE  \A c \in Dashboards : up[c] \in Seq(Messages) /\ down[c] \in Seq(Messages)
<1> DEFINE U == Commands \cup {Setting}
           D == Responses \cup {SensorData}
<1>1. U \subseteq Messages /\ D \subseteq Messages
  BY DEF Messages
<1>2. \A c \in Dashboards : up[c] \in Seq(U) /\ down[c] \in Seq(D)
  BY DEF TypeOK
<1> HIDE DEF U, D
<1>3. \A q \in Seq(U) : q \in Seq(Messages)
  BY <1>1
<1>4. \A q \in Seq(D) : q \in Seq(Messages)
  BY <1>1
<1> QED
  BY <1>2, <1>3, <1>4

-----------------------------------------------------------------------------
LEMMA InitInv == Init => IInv
<1> SUFFICES ASSUME Init PROVE IInv
  OBVIOUS
<1>1. AllOff \in [Devices -> BOOLEAN]
  BY DEF AllOff
<1>2. << >> \in Seq(Commands \cup {Setting}) /\ << >> \in Seq(Responses \cup {SensorData})
  OBVIOUS
<1>3. Len(<< >>) = 0 /\ 0 <= QueueLimit
  BY QueueLimitAssumption
<1>4. TypeOK
  BY <1>1, <1>2, <1>3 DEF Init, TypeOK
<1>5. LastWord /\ ClosedIsEmpty
  BY DEF Init, LastWord, ClosedIsEmpty
<1> QED
  BY <1>4, <1>5 DEF IInv

\* Sockets of the dashboards in S closed, the other dashboards' channels kept.
LEMMA CloseAllTypes ==
    ASSUME TypeOK, NEW S \in SUBSET Dashboards, CloseAll(S)
    PROVE  /\ link' \in [Dashboards -> {"open", "closed"}]
           /\ up' \in [Dashboards -> Seq(Commands \cup {Setting})]
           /\ down' \in [Dashboards -> Seq(Responses \cup {SensorData})]
           /\ \A c \in Dashboards : Len(down'[c]) <= QueueLimit
           /\ informed' \in [Dashboards -> SUBSET Devices]
<1>1. << >> \in Seq(Commands \cup {Setting}) /\ << >> \in Seq(Responses \cup {SensorData})
  OBVIOUS
<1>2. Len(<< >>) = 0 /\ 0 <= QueueLimit
  BY QueueLimitAssumption
<1> QED
  BY <1>1, <1>2 DEF TypeOK, CloseAll

LEMMA TypeStep == TypeOK /\ [Next]_vars => TypeOK'
<1> SUFFICES ASSUME TypeOK, [Next]_vars PROVE TypeOK'
  OBVIOUS
<1>1. ASSUME NEW c \in Dashboards, NEW d \in Devices, Toggle(c, d) PROVE TypeOK'
  <2>1. shown' \in [Dashboards -> [Devices -> BOOLEAN]]
    BY <1>1 DEF Toggle, TypeOK
  <2>2. up' \in [Dashboards -> Seq(Commands \cup {Setting})]
    <3>1. Control(d, shown'[c][d]) \in Commands
      BY <2>1, Kinds
    <3>2. Append(up[c], Control(d, shown'[c][d])) \in Seq(Commands \cup {Setting})
      BY <3>1 DEF TypeOK
    <3> QED
      BY <1>1, <3>2 DEF Toggle, TypeOK
  <2> QED
    BY <1>1, <2>1, <2>2 DEF Toggle, TypeOK
<1>2. ASSUME NEW c \in Dashboards, Submit(c) PROVE TypeOK'
  <2>1. Append(up[c], Setting) \in Seq(Commands \cup {Setting})
    BY DEF TypeOK
  <2> QED
    BY <1>2, <2>1 DEF Submit, TypeOK
<1>3. ASSUME NEW c \in Dashboards, Receive(c) PROVE TypeOK'
  <2>1. Tail(down[c]) \in Seq(Responses \cup {SensorData}) /\ Len(Tail(down[c])) <= QueueLimit
    BY <1>3, QueueLimitAssumption DEF Receive, TypeOK
  <2>2. shown' \in [Dashboards -> [Devices -> BOOLEAN]]
    <3>1. \A m \in Responses : m.device \in Devices /\ m.state \in BOOLEAN
      BY Kinds
    <3> QED
      BY <1>3, <3>1 DEF Receive, TypeOK
  <2> QED
    BY <1>3, <2>1, <2>2 DEF Receive, TypeOK
<1>4. ASSUME NEW c \in Dashboards, Open(c) PROVE TypeOK'
  BY <1>4 DEF Open, TypeOK
<1>5. ASSUME NEW c \in Dashboards, Close(c) PROVE TypeOK'
  BY <1>5, CloseAllTypes DEF Close, TypeOK
<1>6. ASSUME NEW c \in Dashboards, Reload(c) PROVE TypeOK'
  BY <1>6, CloseAllTypes DEF Reload, TypeOK, AllOff
<1>7. ASSUME NEW m \in Responses \cup {SensorData}, TextAll(m)
      PROVE  /\ down' \in [Dashboards -> Seq(Responses \cup {SensorData})]
             /\ \A c \in Dashboards : Len(down'[c]) <= QueueLimit
  <2>1. \A c \in Dashboards : Append(down[c], m) \in Seq(Responses \cup {SensorData})
    BY DEF TypeOK
  <2>2. \A c \in Dashboards : HasRoom(c) => Len(Append(down[c], m)) <= QueueLimit
    BY QueueLimitAssumption DEF TypeOK, HasRoom
  <2> QED
    BY <1>7, <2>1, <2>2 DEF TextAll, TypeOK
<1>8. ASSUME NEW c \in Dashboards, HandleControl(c) PROVE TypeOK'
  <2> DEFINE m == Head(up[c])
             r == Response(m.device, relayState'[m.device])
  <2>1. m.device \in Devices /\ m.state \in BOOLEAN
    BY <1>8, Kinds DEF HandleControl
  <2>2. relayState' \in [Devices -> BOOLEAN]
    BY <1>8, <2>1 DEF HandleControl, TypeOK
  <2>3. r \in Responses
    BY <2>1, <2>2, Kinds
  <2>4. TextAll(r)
    BY <1>8 DEF HandleControl, Answer
  <2>5. informed' \in [Dashboards -> SUBSET Devices]
    BY <1>8, <2>1 DEF HandleControl, Answer, TypeOK
  <2>6. up' \in [Dashboards -> Seq(Commands \cup {Setting})]
    <3>1. Tail(up[c]) \in Seq(Commands \cup {Setting})
      BY <1>8 DEF HandleControl, TypeOK
    <3> QED
      BY <1>8, <3>1 DEF HandleControl, TypeOK
  <2> HIDE DEF r
  <2>7. /\ down' \in [Dashboards -> Seq(Responses \cup {SensorData})]
        /\ \A b \in Dashboards : Len(down'[b]) <= QueueLimit
    BY <1>7, <2>3, <2>4
  <2> QED
    BY <1>8, <2>2, <2>5, <2>6, <2>7 DEF HandleControl, TypeOK
<1>9. ASSUME Restart PROVE TypeOK'
  BY <1>9, CloseAllTypes DEF Restart, TypeOK, AllOff
<1>10. ASSUME Start PROVE TypeOK'
  BY <1>10 DEF Start, TypeOK
<1>11. ASSUME Broadcast PROVE TypeOK'
  BY <1>7, <1>11 DEF Broadcast, TypeOK
<1>12. ASSUME UNCHANGED vars PROVE TypeOK'
  BY <1>12 DEF vars, TypeOK
<1> QED
  BY <1>1, <1>2, <1>3, <1>4, <1>5, <1>6, <1>8, <1>9, <1>10, <1>11, <1>12
     DEF Next, Handle, HandleSetting

\* No dashboard has a channel without a socket.
LEMMA ClosedStep == TypeOK /\ ClosedIsEmpty /\ [Next]_vars => ClosedIsEmpty'
<1> SUFFICES ASSUME TypeOK, ClosedIsEmpty, [Next]_vars,
                    NEW b \in Dashboards, link'[b] = "closed"
             PROVE  up'[b] = << >> /\ down'[b] = << >> /\ informed'[b] = {}
  BY DEF ClosedIsEmpty
<1>1. ASSUME NEW c \in Dashboards, NEW d \in Devices, Toggle(c, d)
      PROVE  up'[b] = << >> /\ down'[b] = << >> /\ informed'[b] = {}
  BY <1>1 DEF Toggle, ClosedIsEmpty, TypeOK
<1>2. ASSUME NEW c \in Dashboards, Submit(c)
      PROVE  up'[b] = << >> /\ down'[b] = << >> /\ informed'[b] = {}
  BY <1>2 DEF Submit, ClosedIsEmpty, TypeOK
<1>3. ASSUME NEW c \in Dashboards, Receive(c)
      PROVE  up'[b] = << >> /\ down'[b] = << >> /\ informed'[b] = {}
  BY <1>3 DEF Receive, ClosedIsEmpty, TypeOK
<1>4. ASSUME NEW c \in Dashboards, Open(c)
      PROVE  up'[b] = << >> /\ down'[b] = << >> /\ informed'[b] = {}
  BY <1>4 DEF Open, ClosedIsEmpty, TypeOK
<1>5. ASSUME NEW S \in SUBSET Dashboards, CloseAll(S)
      PROVE  up'[b] = << >> /\ down'[b] = << >> /\ informed'[b] = {}
  BY <1>5 DEF CloseAll, ClosedIsEmpty
<1>6. ASSUME NEW c \in Dashboards, HandleControl(c)
      PROVE  up'[b] = << >> /\ down'[b] = << >> /\ informed'[b] = {}
  <2>1. link[b] = "closed" /\ ~HasRoom(b)
    BY <1>6 DEF HandleControl, HasRoom
  <2>2. up[b] = << >> /\ down[b] = << >> /\ informed[b] = {} /\ b # c
    BY <1>6, <2>1 DEF ClosedIsEmpty, HandleControl
  <2>3. up'[b] = << >>
    BY <1>6, <2>2 DEF HandleControl, TypeOK
  <2> QED
    BY <1>6, <2>1, <2>2, <2>3 DEF HandleControl, Answer, TextAll
<1>7. ASSUME Broadcast
      PROVE  up'[b] = << >> /\ down'[b] = << >> /\ informed'[b] = {}
  BY <1>7 DEF Broadcast, TextAll, HasRoom, ClosedIsEmpty
<1>8. ASSUME Start \/ UNCHANGED vars
      PROVE  up'[b] = << >> /\ down'[b] = << >> /\ informed'[b] = {}
  BY <1>8 DEF Start, vars, ClosedIsEmpty
<1> QED
  BY <1>1, <1>2, <1>3, <1>4, <1>5, <1>6, <1>7, <1>8
     DEF Next, Handle, HandleSetting, Restart, Close, Reload

-----------------------------------------------------------------------------
\* The last word is kept where neither the relay nor what is shown changes and
\* the queue of responses gets at most a message about something else.
LEMMA LastWordKept ==
    ASSUME TypeOK, LastWord, NEW b \in Dashboards, NEW d \in informed[b],
           relayState'[d] = relayState[d], shown'[b][d] = shown[b][d],
           About(up[b], d) = {},
           \/ down'[b] = down[b]
           \/ \E m \in Messages : ~IsAbout(m, d) /\ down'[b] = Append(down[b], m)
    PROVE  \/ About(down'[b], d) = {} /\ shown'[b][d] = relayState'[d]
           \/ \E i \in About(down'[b], d) :
                 /\ \A j \in About(down'[b], d) : j <= i
                 /\ down'[b][i].state = relayState'[d]
<1>1. d \in Devices /\ down[b] \in Seq(Messages)
  BY Queues DEF TypeOK
<1>2. About(down'[b], d) = About(down[b], d)
  <2>1. CASE down'[b] = down[b]
    BY <2>1, Zenon
  <2>2. ASSUME NEW m \in Messages, ~IsAbout(m, d), down'[b] = Append(down[b], m)
        PROVE  About(down'[b], d) = About(down[b], d)
    <3>1. About(Append(down[b], m), d) =
              About(down[b], d) \cup (IF IsAbout(m, d) THEN {Len(down[b]) + 1} ELSE {})
      BY <1>1, AboutAppend, Zenon
    <3>2. About(Append(down[b], m), d) = About(down[b], d)
      BY <2>2, <3>1
    <3> QED
      BY <2>2, <3>2, Zenon
  <2> QED
    BY <2>1, <2>2
<1>3. \A i \in About(down[b], d) : down'[b][i] = down[b][i]
  BY <1>1 DEF About
<1> QED
  BY <1>2, <1>3 DEF LastWord

LEMMA LastWordStep == IInv /\ [Next]_vars => LastWord'
<1> SUFFICES ASSUME IInv, [Next]_vars,
                    NEW b \in Dashboards, NEW d \in informed'[b], About(up'[b], d) = {}
             PROVE  \/ About(down'[b], d) = {} /\ shown'[b][d] = relayState'[d]
                    \/ \E i \in About(down'[b], d) :
                          /\ \A j \in About(down'[b], d) : j <= i
                          /\ down'[b][i].state = relayState'[d]
  BY DEF LastWord, About
<1> DEFINE Goal == \/ About(down'[b], d) = {} /\ shown'[b][d] = relayState'[d]
                   \/ \E i \in About(down'[b], d) :
                         /\ \A j \in About(down'[b], d) : j <= i
                         /\ down'[b][i].state = relayState'[d]
<1>0. TypeOK /\ LastWord /\ ClosedIsEmpty /\ TypeOK' /\ d \in Devices
  <2>1. TypeOK'
    BY TypeStep DEF IInv
  <2> QED
    BY <2>1 DEF IInv, TypeOK
<1>1. up[b] \in Seq(Messages) /\ down[b] \in Seq(Messages)
  BY <1>0, Queues
<1>2. ASSUME NEW c \in Dashboards, NEW e \in Devices, Toggle(c, e) PROVE Goal
  <2> DEFINE m == Control(e, shown'[c][e])
  <2>1. shown'[c][e] \in BOOLEAN /\ m \in Messages /\ IsAbout(m, e)
    <3>1. shown'[c][e] \in BOOLEAN
      BY <1>0 DEF TypeOK
    <3> QED
      BY <3>1, Kinds DEF Messages, IsAbout
  <2>2. m.device = e
    BY <2>1 DEF IsAbout
  <2>3. d \in informed[b] /\ relayState' = relayState /\ down' = down
    BY <1>2 DEF Toggle
  <2>4. About(up[b], d) = {} /\ ~(b = c /\ d = e)
    <3>1. CASE b = c
      <4>1. link[c] = "open"
        BY <1>0, <2>3, <3>1 DEF ClosedIsEmpty, TypeOK
      <4>2. up'[b] = Append(up[b], m)
        BY <1>0, <1>2, <3>1, <4>1 DEF Toggle, TypeOK
      <4> HIDE DEF m
      <4>3. About(up'[b], d) = About(up[b], d) \cup (IF IsAbout(m, d) THEN {Len(up[b]) + 1} ELSE {})
        BY <1>0, <1>1, <2>1, <4>2, AboutAppend
      <4>4. About(up[b], d) = {} /\ ~IsAbout(m, d)
        BY <4>3
      <4> QED
        BY <2>1, <4>4
    <3>2. CASE b # c
      <4>1. up'[b] = up[b]
        BY <1>0, <1>2, <3>2 DEF Toggle, TypeOK
      <4> QED
        BY <3>2, <4>1
    <3> QED
      BY <3>1, <3>2
  <2>5. shown'[b][d] = shown[b][d]
    BY <1>0, <1>2, <2>4 DEF Toggle, TypeOK
  <2> QED
    BY <1>0, <2>3, <2>4, <2>5, LastWordKept
<1>3. ASSUME NEW c \in Dashboards, Submit(c) PROVE Goal
  <2>1. d \in informed[b] /\ relayState' = relayState /\ down' = down /\ shown' = shown
    BY <1>3 DEF Submit
  <2>2. up'[b] = up[b] \/ up'[b] = Append(up[b], Setting)
    BY <1>0, <1>3 DEF Submit, TypeOK
  <2>3. About(up[b], d) \subseteq About(up'[b], d)
    <3>1. Setting \in Messages
      BY DEF Messages
    <3>2. About(up[b], d) \subseteq About(Append(up[b], Setting), d)
      BY <1>0, <1>1, <3>1, AboutAppend
    <3> QED
      BY <2>2, <3>2
  <2> QED
    BY <1>0, <2>1, <2>3, LastWordKept
<1>4. ASSUME NEW c \in Dashboards, Receive(c) PROVE Goal
  <2>1. /\ d \in informed[b] /\ relayState' = relayState /\ About(up[b], d) = {}
    BY <1>4 DEF Receive
  <2>2. CASE b # c
    <3>1. down'[b] = down[b] /\ shown'[b] = shown[b]
      BY <1>0, <1>4, <2>2 DEF Receive, TypeOK
    <3> QED
      BY <1>0, <2>1, <3>1, LastWordKept
  <2>3. CASE b = c
    <3> DEFINE q == down[b]
               m == Head(q)
    <3>1. q # << >> /\ down'[b] = Tail(q) /\ Len(q) \in Nat /\ Len(q) >= 1
      BY <1>0, <1>1, <1>4, <2>3 DEF Receive, TypeOK
    <3>2. m \in Responses \cup {SensorData} /\ m = q[1]
      BY <1>0, <3>1 DEF TypeOK
    <3>3. shown'[b][d] = IF IsAbout(m, d) THEN m.state ELSE shown[b][d]
      <4>1. m \in Responses => m.device \in Devices
        BY Kinds
      <4>2. CASE m \in Responses
        <5>1. IsAbout(m, d) <=> m.device = d
          BY <4>2 DEF IsAbout
        <5>2. shown' = [shown EXCEPT ![b][m.device] = m.state]
          BY <1>4, <2>3, <4>2 DEF Receive
        <5> HIDE DEF m
        <5> QED
          BY <1>0, <4>1, <4>2, <5>1, <5>2 DEF TypeOK
      <4>3. CASE m \notin Responses
        <5>1. ~IsAbout(m, d)
          BY <3>2, <4>3, Kinds DEF IsAbout
        <5>2. shown' = shown
          BY <1>4, <2>3, <4>3 DEF Receive
        <5> QED
          BY <5>1, <5>2
      <4> QED
        BY <4>2, <4>3
    <3>4. /\ About(Tail(q), d) = {i \in 1 .. Len(q) - 1 : i + 1 \in About(q, d)}
          /\ 1 \in About(q, d) <=> IsAbout(m, d)
          /\ \A i \in 1 .. Len(q) - 1 : Tail(q)[i] = q[i + 1]
      BY <1>0, <1>1, <3>1, AboutTail
    <3>5. About(q, d) \subseteq 1 .. Len(q)
      BY <1>1 DEF About
    <3>6. CASE About(q, d) = {}
      <4>1. shown[b][d] = relayState[d]
        BY <2>1, <3>6 DEF LastWord, IInv
      <4> QED
        BY <2>1, <3>1, <3>3, <3>4, <3>6, <4>1
    <3>7. CASE About(q, d) # {}
      <4>1. PICK i \in About(q, d) : /\ \A j \in About(q, d) : j <= i
                                     /\ q[i].state = relayState[d]
        BY <2>1, <3>7 DEF LastWord, IInv
      <4> HIDE DEF q, m
      <4>2. CASE i = 1
        <5>1. About(Tail(q), d) = {}
          BY <3>1, <3>4, <3>5, <4>1, <4>2
        <5>2. shown'[b][d] = relayState[d]
          BY <3>2, <3>3, <3>4, <4>1, <4>2
        <5> QED
          BY <2>1, <3>1, <5>1, <5>2
      <4>3. CASE i # 1
        <5>1. i \in 2 .. Len(q) /\ i - 1 \in 1 .. Len(q) - 1 /\ (i - 1) + 1 = i
          BY <3>1, <3>5, <4>3
        <5>2. i - 1 \in About(Tail(q), d)
          BY <3>4, <4>1, <5>1
        <5>3. \A j \in About(Tail(q), d) : j <= i - 1
          BY <3>1, <3>4, <4>1, <5>1
        <5>4. Tail(q)[i - 1].state = relayState[d]
          BY <3>4, <4>1, <5>1
        <5> QED
          BY <2>1, <3>1, <5>2, <5>3, <5>4
      <4> QED
        BY <4>2, <4>3
    <3> QED
      BY <3>6, <3>7
  <2> QED
    BY <2>2, <2>3
<1>5. ASSUME NEW c \in Dashboards, Open(c) PROVE Goal
  BY <1>0, <1>5, LastWordKept DEF Open
<1>6. ASSUME NEW S \in SUBSET Dashboards, CloseAll(S), relayState' = relayState,
             \A c \in Dashboards \ S : shown'[c] = shown[c]
      PROVE  Goal
  <2>1. b \notin S /\ d \in informed[b]
    BY <1>6 DEF CloseAll
  <2>2. up'[b] = up[b] /\ down'[b] = down[b] /\ shown'[b] = shown[b]
    BY <1>6, <2>1 DEF CloseAll
  <2> QED
    BY <1>0, <1>6, <2>1, <2>2, LastWordKept
<1>7. ASSUME NEW c \in Dashboards, Close(c) PROVE Goal
  BY <1>6, <1>7 DEF Close
<1>8. ASSUME NEW c \in Dashboards, Reload(c) PROVE Goal
  <2>1. \A a \in Dashboards \ {c} : shown'[a] = shown[a]
    BY <1>0, <1>8 DEF Reload, TypeOK
  <2> QED
    BY <1>6, <1>8, <2>1 DEF Reload
<1>9. ASSUME Restart PROVE Goal
  BY <1>9 DEF Restart, CloseAll
<1>10. ASSUME NEW c \in Dashboards, HandleControl(c) PROVE Goal
  <2> DEFINE m == Head(up[c])
             r == Response(m.device, relayState'[m.device])
  <2>1. m \in Commands /\ m.device \in Devices /\ relayState'[m.device] \in BOOLEAN
    BY <1>0, <1>10, Kinds DEF HandleControl, TypeOK
  <2>2. r \in Messages /\ r \in Responses /\ r.device = m.device /\ r.state = relayState'[m.device]
    BY <2>1, Kinds DEF Messages
  <2>3. Answer(c, m.device, relayState'[m.device]) /\ shown' = shown
    BY <1>10 DEF HandleControl
  <2>4. down'[b] = IF HasRoom(b) THEN Append(down[b], r) ELSE down[b]
    BY <2>3 DEF Answer, TextAll
  <2>5. informed'[b] = IF HasRoom(b) THEN informed[b] \cup {m.device}
                                     ELSE informed[b] \ {m.device}
    BY <2>3 DEF Answer
  <2>6. IsAbout(r, d) <=> m.device = d
    BY <2>2 DEF IsAbout
  <2>7. CASE d = m.device
    <3>1. HasRoom(b)
      BY <2>5, <2>7
    <3>2. down'[b] = Append(down[b], r) /\ down'[b][Len(down[b]) + 1] = r
      BY <1>1, <2>2, <2>4, <3>1
    <3> HIDE DEF m, r
    <3>3. About(down'[b], d) = About(down[b], d) \cup {Len(down[b]) + 1}
      BY <1>0, <1>1, <2>2, <2>6, <2>7, <3>2, AboutAppend
    <3>4. \A j \in About(down'[b], d) : j <= Len(down[b]) + 1
      BY <1>1, <3>3 DEF About
    <3> QED
      BY <2>2, <2>7, <3>2, <3>3, <3>4
  <2>8. CASE d # m.device
    <3>1. d \in informed[b]
      BY <2>5, <2>8
    <3>2. relayState'[d] = relayState[d]
      BY <1>0, <1>10, <2>8 DEF HandleControl, TypeOK
    <3>3. About(up[b], d) = {}
      <4>1. CASE b = c
        <5>1. up[b] # << >> /\ up'[b] = Tail(up[b]) /\ Len(up[b]) \in Nat
          BY <1>0, <1>1, <1>10, <4>1 DEF HandleControl, TypeOK
        <5>2. ~IsAbout(Head(up[b]), d)
          BY <2>8, <4>1 DEF IsAbout
        <5>3. About(up[b], d) \subseteq 1 .. Len(up[b])
          BY <1>1 DEF About
        <5>4. /\ 1 \notin About(up[b], d)
              /\ \A i \in 1 .. Len(up[b]) - 1 : i + 1 \notin About(up[b], d)
          BY <1>0, <1>1, <5>1, <5>2, AboutTail
        <5>5. \A k \in 2 .. Len(up[b]) : k - 1 \in 1 .. Len(up[b]) - 1 /\ (k - 1) + 1 = k
          BY <5>1
        <5> QED
          BY <5>1, <5>3, <5>4, <5>5
      <4>2. CASE b # c
        <5>1. up'[b] = up[b]
          BY <1>0, <1>10, <4>2 DEF HandleControl, TypeOK
        <5> QED
          BY <5>1
      <4> QED
        BY <4>1, <4>2
    <3> HIDE DEF m, r
    <3> QED
      BY <1>0, <2>2, <2>3, <2>4, <2>6, <2>8, <3>1, <3>2, <3>3, LastWordKept
  <2> QED
    BY <2>7, <2>8
<1>11. ASSUME Broadcast PROVE Goal
  <2>1. SensorData \in Messages /\ ~IsAbout(SensorData, d)
    BY Kinds DEF Messages, IsAbout
  <2>2. down'[b] = down[b] \/ down'[b] = Append(down[b], SensorData)
    BY <1>11 DEF Broadcast, TextAll
  <2> QED
    BY <1>0, <1>11, <2>1, <2>2, LastWordKept DEF Broadcast
<1>12. ASSUME Start \/ UNCHANGED vars PROVE Goal
  BY <1>0, <1>12, LastWordKept DEF Start, vars
<1> QED
  BY <1>2, <1>3, <1>4, <1>5, <1>7, <1>8, <1>9, <1>10, <1>11, <1>12
     DEF Next, Handle, HandleSetting

-----------------------------------------------------------------------------
LEMMA Invariance == Spec => []IInv
<1>1. IInv /\ [Next]_vars => IInv'
  BY TypeStep, ClosedStep, LastWordStep DEF IInv
<1> QED
  BY InitInv, <1>1, PTL DEF Spec

\* Types, and no queue of a client beyond its limit (AsyncWebSocket, textAll).
THEOREM ControlTypeCorrect == Spec => []TypeOK
BY Invariance, PTL DEF IInv

\* A dashboard that has read the last response about a relay shows the server's
\* state of it, whoever toggled what at the same time (onWsEvent, onMessage).
THEOREM DashboardsAgree == Spec => []Agreement
<1>1. IInv => Agreement
  BY DEF IInv, LastWord, Agreement
<1> QED
  BY Invariance, <1>1, PTL
=============================================================================
