------------------------------ MODULE MqttFraming ------------------------------
(* How lib/PubSubClient finds the packets in the bytes of a connection.      *)
(* buildHeader writes the length of a packet's content in digits of 7 bits,  *)
(* each with a bit that says whether one follows.  readPacket reads header,  *)
(* digits and content byte by byte, into a buffer that may be too small, and *)
(* gives up in the middle when a byte does not come in time.  The peer       *)
(* (external) writes packets as buildHeader does, of any length.             *)
EXTENDS Naturals, Sequences

CONSTANTS
    Base,          \* 128, the values of a digit
    MaxDigits,     \* 4
    BufferSize,    \* MQTT_MAX_PACKET_SIZE
    Lengths,       \* bound: the lengths of what is sent
    MaxPackets     \* bound: how many packets are sent

ASSUME FramingAssumption ==
    /\ Base \in Nat \ {0, 1} /\ MaxDigits \in Nat \ {0}
    /\ BufferSize \in Nat /\ BufferSize > MaxDigits + 3
    /\ Lengths \subseteq Nat

VARIABLES
    stream,       \* the bytes sent: digits and contents by value, of a header
                  \* only whether it is that of a PUBLISH (1 or 0)
    rests,        \* `len` of buildHeader, for each digit so far; <<>> outside
    sent,         \* where the packets are in it
    pos,          \* how many bytes have been read
    begin,        \* ... when readPacket was called
    read_pc,      \* where readPacket is; "idle" outside
    publish, len, length, multiplier,    \* its variables
    status,       \* "connected", or "closed" by readPacket
    returned,     \* history: the packets it has returned, until "lost"
    lost          \* history: it has given up in the middle of a packet

readVars == <<begin, publish, len, length, multiplier>>
framingVars == <<stream, rests, sent, pos, read_pc, readVars, status, returned, lost>>

MaxHeaderSize == MaxDigits + 1

Header(p) == 1 + Len(p.rests)    \* header and digits
Size(p) == Header(p) + p.rests[1]
Place(p) == [from |-> p.from, to |-> p.to]
Fits(p) == p.to - p.from <= BufferSize

FramingTypeOK ==
    /\ stream \in Seq(Nat)
    /\ rests \in Seq(Nat)
    /\ sent \in Seq([from : Nat, to : Nat, rests : Seq(Nat), publish : BOOLEAN])
    /\ {pos, begin, len, length, multiplier} \subseteq Nat
    /\ read_pc \in {"idle", "digit", "topic", "content"}
    /\ publish \in BOOLEAN /\ lost \in BOOLEAN
    /\ status \in {"connected", "closed"}
    /\ returned \in Seq([from : Nat, to : Nat])

FramingInit ==
    /\ stream = <<>> /\ rests = <<>> /\ sent = <<>>
    /\ pos = 0 /\ begin = 0
    /\ read_pc = "idle"
    /\ publish = FALSE /\ len = 0 /\ length = 0 /\ multiplier = 1
    /\ status = "connected"
    /\ returned = <<>> /\ lost = FALSE

-----------------------------------------------------------------------------
(* The sender                                                                *)

HeaderForgotten(n) == n > BufferSize    \* variant

\* publish() refuses what does not leave room for the largest header.
TooLong(n) == MaxHeaderSize + n > BufferSize

\* buildHeader, for n bytes of content: the digits from the lowest on, ...
BuildHeader(n) ==
    /\ rests = <<>> /\ Len(sent) < MaxPackets
    /\ rests' = <<n>>
    /\ UNCHANGED <<stream, sent, pos, read_pc, readVars, status, returned, lost>>

NextDigit ==
    /\ rests # <<>> /\ rests[Len(rests)] >= Base
    /\ rests' = Append(rests, rests[Len(rests)] \div Base)
    /\ UNCHANGED <<stream, sent, pos, read_pc, readVars, status, returned, lost>>

Digit(rest) == (rest % Base) + IF rest >= Base THEN Base ELSE 0

\* ... and the packet with content bytes v is written, the client's or the peer's.
Bytes(isPublish, v) ==
    [k \in 1 .. 1 + Len(rests) + rests[1] |->
        IF k = 1 THEN IF isPublish THEN 1 ELSE 0
        ELSE IF k <= 1 + Len(rests) THEN Digit(rests[k - 1]) ELSE v]

Send(isPublish, v) ==
    /\ rests # <<>> /\ rests[Len(rests)] < Base
    /\ isPublish => rests[1] >= 2    \* the length of the topic
    /\ stream' = stream \o Bytes(isPublish, v)
    /\ sent' = Append(sent, [from |-> Len(stream), to |-> Len(stream'), rests |-> rests,
                             publish |-> isPublish])
    /\ rests' = <<>>
    /\ UNCHANGED <<pos, read_pc, readVars, status, returned, lost>>

-----------------------------------------------------------------------------
(* readPacket                                                                *)

\* readByte, n times.
Read(n) == pos + n <= Len(stream) /\ pos' = pos + n

\* The variables of readPacket are local.
ForgetPacket == begin' = pos' /\ publish' = FALSE /\ len' = 0 /\ length' = 0 /\ multiplier' = 1

At(place) == status = "connected" /\ read_pc = place

\* Called when a byte is available.
ReadHeader ==
    /\ At("idle")
    /\ Read(1)
    /\ begin' = pos
    /\ publish' = (stream[pos'] % 2 = 1)
    /\ len' = 1 /\ length' = 0 /\ multiplier' = 1
    /\ read_pc' = "digit"
    /\ UNCHANGED <<stream, rests, sent, status, returned, lost>>

OneDigitLess == len = MaxDigits    \* variant

\* "Invalid remaining length encoding - kill the connection"
LengthInvalid == len = MaxDigits + 1

KillConnection ==
    /\ At("digit")
    /\ LengthInvalid
    /\ status' = "closed"
    /\ read_pc' = "idle"
    /\ UNCHANGED <<stream, rests, sent, pos, readVars, returned, lost>>

ReadDigit ==
    /\ At("digit")
    /\ ~LengthInvalid
    /\ Read(1)
    /\ LET digit == stream[pos']
       IN  /\ length' = length + (digit % Base) * multiplier
           /\ read_pc' = IF digit >= Base THEN "digit"
                         ELSE IF publish THEN "topic" ELSE "content"
    /\ multiplier' = multiplier * Base
    /\ len' = len + 1
    /\ UNCHANGED <<stream, rests, sent, begin, publish, status, returned, lost>>

\* The topic length of a PUBLISH, read whatever the length.
ReadTopicLength ==
    /\ At("topic")
    /\ Read(2)
    /\ len' = len + 2
    /\ read_pc' = "content"
    /\ UNCHANGED <<stream, rests, sent, begin, publish, length, multiplier, status, returned, lost>>

TopicCountedTwice == length    \* variant: `uint32_t start = 0`

\* What is left for the loop over the content.
Rest == IF ~publish THEN length ELSE IF length > 2 THEN length - 2 ELSE 0

Overflows(idx) == idx > BufferSize

\* Bytes that do not fit are read all the same, and the packet is ignored.
ReadContent ==
    /\ At("content")
    /\ Read(Rest)
    /\ returned' = IF lost \/ Overflows(len + Rest) THEN returned
                   ELSE Append(returned, [from |-> begin, to |-> pos'])
    /\ read_pc' = "idle"
    /\ ForgetPacket
    /\ UNCHANGED <<stream, rests, sent, status, lost>>

\* readByte waits for the socket timeout, and readPacket returns 0: what it has
\* read is gone.
GiveUp ==
    /\ \/ At("digit") /\ ~LengthInvalid /\ Read(0)
       \/ At("topic") /\ \E n \in 0 .. 1 : Read(n)
       \/ At("content") /\ \E n \in 0 .. Rest - 1 : Read(n)
    /\ read_pc' = "idle"
    /\ lost' = TRUE
    /\ ForgetPacket
    /\ UNCHANGED <<stream, rests, sent, status, returned>>

FramingNext ==
    \/ (\E n \in Lengths : BuildHeader(n)) \/ NextDigit
    \/ \E isPublish \in BOOLEAN, v \in {0, 2 * Base - 1} : Send(isPublish, v)
    \/ ReadHeader \/ ReadDigit \/ KillConnection \/ ReadTopicLength \/ ReadContent
    \/ GiveUp

FramingSpec == FramingInit /\ [][FramingNext]_framingVars

-----------------------------------------------------------------------------
(* Properties                                                                *)

\* As long as every byte comes in time, the packets returned are those sent, in
\* order and once, without the ones the buffer cannot hold, and readPacket ends
\* where one of them ends, ...
ReturnsWhatWasSent ==
    ~lost /\ read_pc = "idle" /\ status = "connected" =>
        /\ {returned[k] : k \in 1 .. Len(returned)} =
               {Place(sent[i]) : i \in {j \in 1 .. Len(sent) : sent[j].to <= pos /\ Fits(sent[j])}}
        /\ \A k \in 1 .. Len(returned), l \in 1 .. Len(returned) :
               k < l => returned[k].to <= returned[l].from
        /\ pos = 0 \/ \E i \in 1 .. Len(sent) : sent[i].to = pos

\* ... and it closes the connection only for a length MQTT does not have.
ClosesForLength ==
    ~lost /\ status = "closed" =>
        \E i \in 1 .. Len(sent) : sent[i].from = begin /\ Len(sent[i].rests) > MaxDigits

\* What publish() lets pass, a buffer of the same size can receive.
OwnPacketsFit ==
    ~lost /\ read_pc = "idle" => \A i \in 1 .. Len(sent) :
        sent[i].publish /\ ~TooLong(sent[i].rests[1]) /\ sent[i].to <= pos =>
            \E k \in 1 .. Len(returned) : returned[k] = Place(sent[i])

=============================================================================
