-------------------------- MODULE MqttFramingProofs --------------------------
(* readPacket, for any base, number of digits and size of the buffer, finds  *)
(* the packets that buildHeader has put into the stream.                     *)
EXTENDS MqttFraming, TLAPS, SequenceTheorems

-----------------------------------------------------------------------------
(* What makes the properties inductive                                       *)

\* The packets stand one behind the other, each as buildHeader has built it, ...
WellBuilt(r) ==
    /\ r # <<>>
    /\ \A k \in 1 .. Len(r) - 1 : r[k] >= Base /\ r[k + 1] = r[k] \div Base
EndOf(c) == IF c = 0 THEN 0 ELSE sent[c].to
InPlace(i) ==
    /\ sent[i].from = EndOf(i - 1) /\ sent[i].to = sent[i].from + Size(sent[i])
    /\ WellBuilt(sent[i].rests) /\ sent[i].rests[Len(sent[i].rests)] < Base
    /\ sent[i].publish => sent[i].rests[1] >= 2
    /\ sent[i].to <= Len(stream)
    /\ stream[sent[i].from + 1] = IF sent[i].publish THEN 1 ELSE 0
    /\ \A k \in 1 .. Len(sent[i].rests) : stream[sent[i].from + 1 + k] = Digit(sent[i].rests[k])
PacketsInPlace ==
    /\ rests # <<>> => WellBuilt(rests)
    /\ Len(stream) = EndOf(Len(sent))
    /\ \A i \in 1 .. Len(sent) : InPlace(i)
    /\ \A i \in 1 .. Len(sent), j \in 1 .. Len(sent) : i < j => sent[i].to <= sent[j].from
\* ... the first c of them have been read, and returned if they fit, ...
Returned(c) ==
    /\ \A k \in 1 .. Len(returned) : \E i \in 1 .. c : Fits(sent[i]) /\ returned[k] = Place(sent[i])
    /\ \A i \in 1 .. c :
           /\ Len(sent[i].rests) <= MaxDigits
           /\ Fits(sent[i]) => \E k \in 1 .. Len(returned) : returned[k] = Place(sent[i])
    /\ \A k \in 1 .. Len(returned), l \in 1 .. Len(returned) :
           k < l => returned[k].to <= returned[l].from
\* ... and the next one, p, has been read up to where readPacket is: what the digits
\* so far say and what the others will add make its length.
Reading(p) ==
    /\ begin = p.from
    /\ status = "closed" => pos < p.to /\ Len(p.rests) > MaxDigits
    /\ status = "connected" =>
           /\ pos = begin + len /\ publish = p.publish
           /\ read_pc = "digit" =>
                  /\ len \in 1 .. Len(p.rests) /\ len <= MaxDigits + 1
                  /\ length + p.rests[len] * multiplier = p.rests[1]
           /\ read_pc # "digit" =>
                  /\ length = p.rests[1] /\ Len(p.rests) <= MaxDigits
                  /\ len = Header(p) + IF read_pc = "content" /\ publish THEN 2 ELSE 0
           /\ read_pc = "topic" => publish
InPacket ==
    ~lost => IF status = "connected" /\ read_pc = "idle"
             THEN \E c \in 0 .. Len(sent) : pos = EndOf(c) /\ Returned(c)
             ELSE \E c \in 1 .. Len(sent) : Reading(sent[c]) /\ Returned(c - 1)
FramingInv == FramingTypeOK /\ PacketsInPlace /\ InPacket

-----------------------------------------------------------------------------
\* The constants are numbers.
LEMMA FramingConstants ==
  /\ Base \in Nat \ {0} /\ Base > 1 /\ MaxDigits \in Nat /\ MaxDigits > 0 /\ BufferSize \in Nat
  /\ \A n \in Lengths : n \in Nat
  BY FramingAssumption

-----------------------------------------------------------------------------
(* Lemmas about the operators                                                *)

\* Division by the base.
LEMMA Divided ==
  ASSUME NEW b \in Nat \ {0}, NEW r \in Nat
  PROVE  /\ r = b * (r \div b) + (r % b)
         /\ r \div b \in Nat /\ r % b \in 0 .. b - 1
         /\ (r % b) % b = r % b /\ ((r % b) + b) % b = r % b
  OBVIOUS

\* A digit's value and the bit that says whether another follows.
LEMMA DigitOfBase ==
  ASSUME NEW b \in Nat \ {0}, NEW r \in Nat, NEW d,
         d = (r % b) + IF r >= b THEN b ELSE 0
  PROVE  d \in Nat /\ d % b = r % b /\ (d >= b <=> r >= b)
  <1>1. CASE r >= b
    <2>1. d = (r % b) + b
      BY <1>1
    <2>2. (r % b) + b \in Nat /\ (r % b) + b >= b /\ ((r % b) + b) % b = r % b
      OBVIOUS
    <2> QED  BY <1>1, <2>1, <2>2, Zenon
  <1>2. CASE ~(r >= b)
    <2>1. d = r
      BY <1>2
    <2> QED  BY <1>2, <2>1, Zenon
  <1> QED  BY <1>1, <1>2

\* A digit says what its value is and whether another follows.
LEMMA DigitRead ==
  ASSUME NEW r \in Nat
  PROVE  /\ Digit(r) \in Nat /\ Digit(r) % Base = r % Base
         /\ Digit(r) >= Base <=> r >= Base
  <1>1. Base \in Nat \ {0}
    BY FramingConstants
  <1> QED  BY <1>1, DigitOfBase, Zenon DEF Digit

\* One digit goes over from what is to come to what has been read.
LEMMA DigitMoves ==
  ASSUME NEW b \in Nat \ {0}, NEW r \in Nat, NEW l \in Nat, NEW m \in Nat
  PROVE  (l + (r % b) * m) + (r \div b) * (m * b) = l + r * m
  <1>1. ASSUME NEW q \in Nat, NEW d \in Nat, r = b * q + d
        PROVE  (l + d * m) + q * (m * b) = l + r * m
    <2>1. (b * q + d) * m = (b * q) * m + d * m
      OBVIOUS
    <2>2. (b * q) * m = q * (m * b)
      OBVIOUS
    <2> QED  BY <1>1, <2>1, <2>2
  <1>2. r = b * (r \div b) + (r % b) /\ r \div b \in Nat /\ r % b \in Nat
    BY Divided
  <1> QED  BY <1>1, <1>2

\* The length and the multiplier stay numbers.
LEMMA LengthsAreNat ==
  ASSUME NEW b \in Nat \ {0}, NEW r \in Nat, NEW l \in Nat, NEW m \in Nat
  PROVE  l + (r % b) * m \in Nat /\ m * b \in Nat
  <1>1. r % b \in Nat
    BY Divided
  <1> QED  BY <1>1

\* A packet sent: its types, and how long it is.
LEMMA PacketTypes ==
  ASSUME FramingTypeOK, PacketsInPlace, NEW i \in 1 .. Len(sent)
  PROVE  /\ sent[i].rests \in Seq(Nat) /\ Len(sent[i].rests) \in Nat \ {0}
         /\ \A k \in 1 .. Len(sent[i].rests) : sent[i].rests[k] \in Nat
         /\ sent[i].from \in Nat /\ sent[i].to \in Nat /\ sent[i].publish \in BOOLEAN
         /\ sent[i].to = sent[i].from + 1 + Len(sent[i].rests) + sent[i].rests[1]
         /\ sent[i].from < sent[i].to
  <1>1. sent[i] \in [from : Nat, to : Nat, rests : Seq(Nat), publish : BOOLEAN]
    BY ElementOfSeq DEF FramingTypeOK
  <1>2. sent[i].rests # <<>> /\ sent[i].to = sent[i].from + (1 + Len(sent[i].rests) + sent[i].rests[1])
    BY DEF PacketsInPlace, InPlace, WellBuilt, Size, Header
  <1>3. Len(sent[i].rests) \in Nat \ {0}
    BY <1>1, <1>2
  <1>4. \A k \in 1 .. Len(sent[i].rests) : sent[i].rests[k] \in Nat
    BY <1>1
  <1>5. sent[i].rests[1] \in Nat
    BY <1>3, <1>4
  <1>6. ASSUME NEW f \in Nat, NEW t \in Nat, NEW l \in Nat, NEW n \in Nat, t = f + (1 + l + n)
        PROVE  t = f + 1 + l + n /\ f < t
    BY <1>6
  <1>7. sent[i].rests \in Seq(Nat) /\ sent[i].publish \in BOOLEAN
    BY <1>1
  <1>8. sent[i].from \in Nat /\ sent[i].to \in Nat /\ Len(sent[i].rests) \in Nat
    BY <1>1, <1>3
  <1>9. sent[i].to = sent[i].from + 1 + Len(sent[i].rests) + sent[i].rests[1]
        /\ sent[i].from < sent[i].to
    <2> DEFINE f == sent[i].from  t == sent[i].to  l == Len(sent[i].rests)  n == sent[i].rests[1]
    <2>1. f \in Nat /\ t \in Nat /\ l \in Nat /\ n \in Nat /\ t = f + (1 + l + n)
      BY <1>2, <1>5, <1>8
    <2> HIDE DEF f, t, l, n
    <2>2. t = f + 1 + l + n /\ f < t
      BY <1>6, <2>1
    <2> QED  BY <2>2 DEF f, t, l, n
  <1> QED  BY <1>3, <1>4, <1>7, <1>8, <1>9

-----------------------------------------------------------------------------
(* The invariant                                                             *)

\* A packet is written behind the others.
LEMMA SendAppends ==
  ASSUME FramingTypeOK, PacketsInPlace, NEW isPublish \in BOOLEAN, NEW v \in Nat,
         Send(isPublish, v)
  PROVE  /\ rests \in Seq(Nat) /\ Len(rests) \in Nat \ {0} /\ rests[1] \in Nat
         /\ stream' \in Seq(Nat)
         /\ Len(stream') = Len(stream) + (1 + Len(rests) + rests[1])
         /\ \A j \in 1 .. Len(stream) : stream'[j] = stream[j]
         /\ stream'[Len(stream) + 1] = IF isPublish THEN 1 ELSE 0
         /\ \A k \in 1 .. Len(rests) : stream'[Len(stream) + 1 + k] = Digit(rests[k])
  <1>1. rests \in Seq(Nat) /\ Len(rests) \in Nat \ {0} /\ rests[1] \in Nat
    BY DEF Send, FramingTypeOK
  <1>2. \A k \in 1 .. Len(rests) : rests[k] \in Nat /\ Digit(rests[k]) \in Nat
    BY <1>1, DigitRead, ElementOfSeq
  <1> DEFINE size == 1 + Len(rests) + rests[1]
             b == Bytes(isPublish, v)
  <1>3. size \in Nat /\ Len(rests) < size
    BY <1>1
  <1>4. \A k \in 1 .. size : b[k] \in Nat
    <2> SUFFICES ASSUME NEW k \in 1 .. size PROVE b[k] \in Nat
      OBVIOUS
    <2>1. b[k] = IF k = 1 THEN IF isPublish THEN 1 ELSE 0
                 ELSE IF k <= 1 + Len(rests) THEN Digit(rests[k - 1]) ELSE v
      BY DEF Bytes
    <2>2. k # 1 /\ k <= 1 + Len(rests) => k - 1 \in 1 .. Len(rests)
      BY <1>1, <1>3
    <2> QED  BY <1>2, <2>1, <2>2
  <1>5. b \in Seq(Nat) /\ Len(b) = size
    <2>1. b = [k \in 1 .. size |-> b[k]]
      BY DEF Bytes
    <2> HIDE DEF b, size
    <2> QED  BY <1>3, <1>4, <2>1
  <1>6. stream \in Seq(Nat) /\ stream' = stream \o b
    BY DEF Send, FramingTypeOK
  <1>7. /\ stream' \in Seq(Nat)
        /\ Len(stream') = Len(stream) + size
        /\ \A j \in 1 .. Len(stream) + size :
               stream'[j] = IF j <= Len(stream) THEN stream[j] ELSE b[j - Len(stream)]
    <2> HIDE DEF b, size
    <2> QED  BY <1>5, <1>6, ConcatProperties
  <1>8. Len(stream) \in Nat
    BY <1>6
  <1>9. ASSUME NEW k \in 1 .. size PROVE stream'[Len(stream) + k] = b[k]
    <2> HIDE DEF b, size
    <2>1. \A n \in Nat : n + k \in 1 .. n + size /\ ~(n + k <= n) /\ (n + k) - n = k
      BY <1>3
    <2>2. Len(stream) + k \in 1 .. Len(stream) + size /\ ~(Len(stream) + k <= Len(stream))
          /\ (Len(stream) + k) - Len(stream) = k
      BY <1>8, <2>1
    <2> QED  BY <1>7, <2>2, Zenon
  <1>10. \A j \in 1 .. Len(stream) : stream'[j] = stream[j]
    <2> HIDE DEF b, size
    <2>1. \A n \in Nat : \A j \in 1 .. n : j \in 1 .. n + size /\ j <= n
      BY <1>3
    <2> QED  BY <1>7, <1>8, <2>1
  <1>11. stream'[Len(stream) + 1] = IF isPublish THEN 1 ELSE 0
    <2>1. 1 \in 1 .. size
      BY <1>1
    <2>2. b[1] = IF isPublish THEN 1 ELSE 0
      BY <2>1 DEF Bytes
    <2> HIDE DEF b, size
    <2> QED  BY <1>9, <2>1, <2>2
  <1>12. ASSUME NEW k \in 1 .. Len(rests)
         PROVE  stream'[Len(stream) + 1 + k] = Digit(rests[k])
    <2>1. 1 + k \in 1 .. size /\ 1 + k # 1 /\ 1 + k <= 1 + Len(rests) /\ (1 + k) - 1 = k
          /\ Len(stream) + 1 + k = Len(stream) + (1 + k)
      BY <1>1, <1>8
    <2>2. b[1 + k] = Digit(rests[k])
      BY <2>1 DEF Bytes
    <2>3. stream'[Len(stream) + (1 + k)] = b[1 + k]
      <3> HIDE DEF b, size
      <3> QED  BY <1>9, <2>1
    <2> QED  BY <2>1, <2>2, <2>3
  <1> QED  BY <1>1, <1>7, <1>10, <1>11, <1>12

\* The invariant holds at the start, ...
LEMMA InitFramingInv == FramingInit => FramingInv
  <1> SUFFICES ASSUME FramingInit PROVE FramingInv
    OBVIOUS
  <1>1. FramingTypeOK
    <2>1. publish \in BOOLEAN /\ lost \in BOOLEAN
      BY DEF FramingInit
    <2>2. \A S : <<>> \in Seq(S)
      BY EmptySeq
    <2> QED  BY <2>1, <2>2 DEF FramingInit, FramingTypeOK
  <1>2. Len(stream) = 0 /\ Len(sent) = 0 /\ Len(returned) = 0
    BY DEF FramingInit
  <1>3. PacketsInPlace
    BY <1>2 DEF FramingInit, PacketsInPlace, EndOf
  <1>4. pos = EndOf(0) /\ Returned(0)
    BY <1>2 DEF FramingInit, EndOf, Returned
  <1>5. 0 \in 0 .. Len(sent)
    BY <1>2
  <1>6. InPacket
    BY <1>4, <1>5 DEF InPacket, FramingInit
  <1> QED  BY <1>1, <1>3, <1>6 DEF FramingInv

\* What readPacket reads is there.
LEMMA ByteRead ==
  ASSUME FramingTypeOK, NEW n \in Nat, Read(n)
  PROVE  /\ pos' \in Nat /\ pos' = pos + n /\ pos + n <= Len(stream)
         /\ n > 0 => pos + n \in 1 .. Len(stream) /\ stream[pos + n] \in Nat
  <1>1. pos' = pos + n /\ pos + n <= Len(stream) /\ pos \in Nat /\ Len(stream) \in Nat
    BY DEF Read, FramingTypeOK
  <1>2. pos + n \in Nat /\ (n > 0 => pos + n \in 1 .. Len(stream))
    BY <1>1
  <1>3. \A j \in 1 .. Len(stream) : stream[j] \in Nat
    BY ElementOfSeq DEF FramingTypeOK
  <1> QED  BY <1>1, <1>2, <1>3

\* ... and every step keeps the types, ...
LEMMA FramingTypeStep == FramingInv /\ [FramingNext]_framingVars => FramingTypeOK'
  <1> SUFFICES ASSUME FramingInv, [FramingNext]_framingVars PROVE FramingTypeOK'
    OBVIOUS
  <1>0. FramingTypeOK /\ PacketsInPlace
    BY DEF FramingInv
  <1>1. ASSUME NEW n \in Lengths, BuildHeader(n) PROVE FramingTypeOK'
    BY <1>0, <1>1, FramingConstants DEF BuildHeader, FramingTypeOK, readVars
  <1>2. CASE NextDigit
    <2>1. rests[Len(rests)] \in Nat
      BY <1>0, <1>2 DEF NextDigit, FramingTypeOK
    <2>2. rests[Len(rests)] \div Base \in Nat
      BY <2>1, FramingConstants, Divided
    <2>3. rests' \in Seq(Nat)
      BY <1>0, <1>2, <2>2 DEF NextDigit, FramingTypeOK
    <2> QED  BY <1>0, <1>2, <2>3 DEF NextDigit, FramingTypeOK, readVars
  <1>3. ASSUME NEW isPublish \in BOOLEAN, NEW v \in {0, 2 * Base - 1}, Send(isPublish, v)
        PROVE  FramingTypeOK'
    <2>1. v \in Nat
      BY FramingConstants
    <2>2. stream' \in Seq(Nat) /\ rests \in Seq(Nat) /\ rests' = <<>>
      BY <1>0, <1>3, <2>1, SendAppends DEF Send
    <2>3. [from |-> Len(stream), to |-> Len(stream'), rests |-> rests, publish |-> isPublish]
             \in [from : Nat, to : Nat, rests : Seq(Nat), publish : BOOLEAN]
      BY <1>0, <2>2 DEF FramingTypeOK
    <2>4. sent' \in Seq([from : Nat, to : Nat, rests : Seq(Nat), publish : BOOLEAN])
      BY <1>0, <1>3, <2>3 DEF Send, FramingTypeOK
    <2> QED  BY <1>0, <1>3, <2>2, <2>4, EmptySeq DEF Send, FramingTypeOK, readVars
  <1>4. CASE ReadHeader
    <2>1. pos' \in Nat
      BY <1>0, <1>4, ByteRead DEF ReadHeader
    <2>2. publish' \in BOOLEAN
      BY <1>4 DEF ReadHeader
    <2>3. begin' \in Nat
      BY <1>0, <1>4 DEF ReadHeader, FramingTypeOK
    <2> QED  BY <1>0, <1>4, <2>1, <2>2, <2>3 DEF ReadHeader, FramingTypeOK
  <1>5. CASE ReadDigit
    <2>1. pos' \in Nat /\ stream[pos'] \in Nat
      BY <1>0, <1>5, ByteRead DEF ReadDigit
    <2>2. length' \in Nat /\ multiplier' \in Nat
      <3>1. length \in Nat /\ multiplier \in Nat
        BY <1>0 DEF FramingTypeOK
      <3>2. length' = length + (stream[pos'] % Base) * multiplier /\ multiplier' = multiplier * Base
        BY <1>5 DEF ReadDigit
      <3> QED  BY <2>1, <3>1, <3>2, FramingConstants, LengthsAreNat
    <2>3. len' \in Nat
      BY <1>0, <1>5 DEF ReadDigit, FramingTypeOK
    <2>4. read_pc' \in {"digit", "topic", "content"}
      BY <1>5 DEF ReadDigit
    <2> QED  BY <1>0, <1>5, <2>1, <2>2, <2>3, <2>4 DEF ReadDigit, FramingTypeOK
  <1>6. CASE KillConnection
    BY <1>0, <1>6 DEF KillConnection, FramingTypeOK, readVars
  <1>7. CASE ReadTopicLength
    <2>1. pos' \in Nat
      BY <1>0, <1>7, ByteRead DEF ReadTopicLength
    <2>2. len' \in Nat
      BY <1>0, <1>7 DEF ReadTopicLength, FramingTypeOK
    <2> QED  BY <1>0, <1>7, <2>1, <2>2 DEF ReadTopicLength, FramingTypeOK
  <1>8. Rest \in Nat
    BY <1>0 DEF Rest, FramingTypeOK
  <1>12. ForgetPacket => /\ begin' = pos' /\ len' = 0 /\ length' = 0 /\ multiplier' = 1
                         /\ publish' \in BOOLEAN
    BY DEF ForgetPacket
  <1>9. CASE ReadContent
    <2>1. pos' \in Nat
      BY <1>0, <1>8, <1>9, ByteRead DEF ReadContent
    <2>2. [from |-> begin, to |-> pos'] \in [from : Nat, to : Nat]
      BY <1>0, <2>1 DEF FramingTypeOK
    <2>3. returned' \in Seq([from : Nat, to : Nat])
      <3>1. returned' \in {returned, Append(returned, [from |-> begin, to |-> pos'])}
        BY <1>9 DEF ReadContent
      <3>2. returned \in Seq([from : Nat, to : Nat])
        BY <1>0 DEF FramingTypeOK
      <3>3. Append(returned, [from |-> begin, to |-> pos']) \in Seq([from : Nat, to : Nat])
        BY <2>2, <3>2, AppendProperties
      <3> QED  BY <3>1, <3>2, <3>3, Zenon
    <2> QED  BY <1>0, <1>9, <1>12, <2>1, <2>3 DEF ReadContent, FramingTypeOK
  <1>10. CASE GiveUp
    <2>1. PICK n \in Nat : Read(n)
      BY <1>8, <1>10 DEF GiveUp
    <2>2. pos' \in Nat
      BY <1>0, <2>1, ByteRead
    <2>3. lost' \in BOOLEAN
      BY <1>10 DEF GiveUp
    <2> QED  BY <1>0, <1>10, <1>12, <2>2, <2>3 DEF GiveUp, FramingTypeOK
  <1>11. CASE UNCHANGED framingVars
    BY <1>0, <1>11 DEF framingVars, readVars, FramingTypeOK
  <1> QED
    BY <1>1, <1>2, <1>3, <1>4, <1>5, <1>6, <1>7, <1>9, <1>10, <1>11 DEF FramingNext

\* The packets stay where they are, and the new one stands behind them.
LEMMA SendKeepsPlaces ==
  ASSUME FramingTypeOK, PacketsInPlace, NEW isPublish \in BOOLEAN, NEW v \in Nat,
         Send(isPublish, v)
  PROVE  /\ Len(sent) \in Nat /\ Len(sent') = Len(sent) + 1
         /\ \A i \in 1 .. Len(sent) : sent'[i] = sent[i]
         /\ \A c \in 0 .. Len(sent) : EndOf(c)' = EndOf(c)
         /\ PacketsInPlace'
  <1> DEFINE p == [from |-> Len(stream), to |-> Len(stream'), rests |-> rests,
                   publish |-> isPublish]
  <1> DEFINE R == [from : Nat, to : Nat, rests : Seq(Nat), publish : BOOLEAN]
  <1>1. /\ rests \in Seq(Nat) /\ Len(rests) \in Nat \ {0} /\ rests[1] \in Nat
        /\ stream \in Seq(Nat) /\ Len(stream) \in Nat
        /\ stream' \in Seq(Nat) /\ Len(stream') \in Nat
        /\ Len(stream') = Len(stream) + (1 + Len(rests) + rests[1])
    BY SendAppends DEF FramingTypeOK
  <1>2. p \in R
    BY <1>1
  <1>3. sent' = Append(sent, p) /\ sent \in Seq(R)
    BY DEF Send, FramingTypeOK
  <1>4. /\ Len(sent) \in Nat /\ Len(sent') = Len(sent) + 1
        /\ \A i \in 1 .. Len(sent) : sent'[i] = sent[i]
        /\ sent'[Len(sent) + 1] = p
    <2> HIDE DEF p, R
    <2>1. Len(sent) \in Nat
      BY <1>3
    <2> QED  BY <1>2, <1>3, <2>1, AppendProperties
  <1>5. \A c \in 0 .. Len(sent) : EndOf(c)' = EndOf(c)
    <2> SUFFICES ASSUME NEW c \in 0 .. Len(sent) PROVE EndOf(c)' = EndOf(c)
      OBVIOUS
    <2>1. c = 0 \/ c \in 1 .. Len(sent)
      BY <1>4
    <2> QED  BY <1>4, <2>1 DEF EndOf
  <1>6. EndOf(Len(sent))' = Len(stream')
    <2>1. Len(sent') # 0 /\ sent'[Len(sent')].to = Len(stream')
      BY <1>4
    <2> QED  BY <2>1 DEF EndOf
  <1>7. ASSUME NEW i \in 1 .. Len(sent) PROVE InPlace(i)'
    <2>1. InPlace(i) /\ i - 1 \in 0 .. Len(sent) /\ sent'[i] = sent[i]
      BY <1>4 DEF PacketsInPlace
    <2>2. EndOf(i - 1)' = EndOf(i - 1)
      BY <1>5, <2>1
    <2>3. /\ sent[i].from \in Nat /\ sent[i].to <= Len(stream)
          /\ sent[i].rests[1] \in Nat /\ Len(sent[i].rests) \in Nat \ {0}
          /\ sent[i].to = sent[i].from + 1 + Len(sent[i].rests) + sent[i].rests[1]
      BY <2>1, PacketTypes DEF InPlace
    <2>4. ASSUME NEW k \in 0 .. Len(sent[i].rests)
          PROVE  stream'[sent[i].from + 1 + k] = stream[sent[i].from + 1 + k]
      <3>1. ASSUME NEW f \in Nat, NEW l \in Nat, NEW n \in Nat, NEW z \in Nat,
                   f + 1 + l + n <= z, NEW m \in 0 .. l
            PROVE  f + 1 + m \in 1 .. z
        BY <3>1
      <3> DEFINE f == sent[i].from  l == Len(sent[i].rests)  n == sent[i].rests[1]
                 z == Len(stream)
      <3>2. f \in Nat /\ l \in Nat /\ n \in Nat /\ z \in Nat /\ f + 1 + l + n <= z /\ k \in 0 .. l
        BY <1>1, <2>3
      <3> HIDE DEF f, l, n, z
      <3>3. f + 1 + k \in 1 .. z
        BY <3>1, <3>2
      <3>4. sent[i].from + 1 + k \in 1 .. Len(stream)
        BY <3>3 DEF f, z
      <3> QED  BY <3>4, SendAppends
    <2>5. stream'[sent[i].from + 1] = stream[sent[i].from + 1]
      <3>1. stream'[sent[i].from + 1 + 0] = stream[sent[i].from + 1 + 0]
        BY <2>3, <2>4
      <3>2. sent[i].from + 1 + 0 = sent[i].from + 1
        BY <2>3
      <3> QED  BY <3>1, <3>2
    <2>6. sent[i].to <= Len(stream')
      <3>1. sent[i].to \in Nat /\ \A a, b, c \in Nat : a <= b => a <= b + c
        BY PacketTypes
      <3> QED  BY <1>1, <2>3, <3>1
    <2>7. \A k \in 1 .. Len(sent[i].rests) : k \in 0 .. Len(sent[i].rests)
      BY <2>3
    <2> QED  BY <2>1, <2>2, <2>4, <2>5, <2>6, <2>7 DEF InPlace, Size, Header
  <1>8. ASSUME NEW i \in Nat, i = Len(sent) + 1 PROVE InPlace(i)'
    <2>1. sent'[i] = p
      BY <1>4, <1>8
    <2>2. EndOf(i - 1)' = Len(stream)
      <3>1. i - 1 = Len(sent) /\ i - 1 \in 0 .. Len(sent)
        BY <1>4, <1>8
      <3>2. EndOf(i - 1)' = EndOf(i - 1)
        BY <1>5, <3>1
      <3> QED  BY <3>1, <3>2 DEF PacketsInPlace
    <2>3. p.to = p.from + (1 + Len(p.rests) + p.rests[1])
      BY <1>1
    <2>4. WellBuilt(rests) /\ rests[Len(rests)] < Base /\ (isPublish => rests[1] >= 2)
      BY DEF PacketsInPlace, Send
    <2>5. p.to <= Len(stream')
      BY <1>1
    <2>6. /\ stream'[p.from + 1] = IF p.publish THEN 1 ELSE 0
          /\ \A k \in 1 .. Len(p.rests) : stream'[p.from + 1 + k] = Digit(p.rests[k])
      BY SendAppends
    <2>7. p.rests = rests /\ p.publish = isPublish /\ p.from = Len(stream)
      OBVIOUS
    <2> HIDE DEF p
    <2> QED  BY <2>1, <2>2, <2>3, <2>4, <2>5, <2>6, <2>7 DEF InPlace, Size, Header
  <1>9. ASSUME NEW i \in 1 .. Len(sent'), NEW j \in 1 .. Len(sent'), i < j
        PROVE  sent'[i].to <= sent'[j].from
    <2>1. i \in 1 .. Len(sent) /\ (j \in 1 .. Len(sent) \/ j = Len(sent) + 1)
      BY <1>4, <1>9
    <2>2. sent[i].to <= Len(stream)
      BY <2>1 DEF PacketsInPlace, InPlace
    <2>3. CASE j \in 1 .. Len(sent)
      BY <1>4, <1>9, <2>1, <2>3 DEF PacketsInPlace
    <2>4. CASE j = Len(sent) + 1
      BY <1>4, <2>1, <2>2, <2>4
    <2> QED  BY <2>1, <2>3, <2>4
  <1>10. \A i \in 1 .. Len(sent') : i \in 1 .. Len(sent) \/ (i \in Nat /\ i = Len(sent) + 1)
    BY <1>4
  <1>11. rests' = <<>>
    BY DEF Send
  <1>12. PacketsInPlace'
    <2> HIDE DEF p, R
    <2>1. \A i \in 1 .. Len(sent') : InPlace(i)'
      BY <1>7, <1>8, <1>10
    <2> QED  BY <1>6, <1>9, <1>11, <2>1 DEF PacketsInPlace
  <1> QED  BY <1>4, <1>5, <1>12

\* ... the places of the packets, ...
LEMMA PacketsInPlaceStep == FramingInv /\ [FramingNext]_framingVars => PacketsInPlace'
  <1> SUFFICES ASSUME FramingInv, [FramingNext]_framingVars PROVE PacketsInPlace'
    OBVIOUS
  <1>0. FramingTypeOK /\ PacketsInPlace
    BY DEF FramingInv
  <1>1. ASSUME UNCHANGED <<stream, sent>>, rests' # <<>> => WellBuilt(rests')
        PROVE  PacketsInPlace'
    BY <1>0, <1>1 DEF PacketsInPlace, InPlace, EndOf, Size, Header, WellBuilt
  <1>2. ASSUME NEW n \in Lengths, BuildHeader(n) PROVE PacketsInPlace'
    <2>1. WellBuilt(<<n>>)
      BY DEF WellBuilt
    <2> QED  BY <1>1, <1>2, <2>1 DEF BuildHeader
  <1>3. CASE NextDigit
    <2> DEFINE q == rests[Len(rests)] \div Base
    <2>1. Len(rests) \in Nat \ {0} /\ rests[Len(rests)] \in Nat /\ q \in Nat
      <3>1. Len(rests) \in Nat \ {0} /\ rests[Len(rests)] \in Nat
        BY <1>0, <1>3 DEF NextDigit, FramingTypeOK
      <3> QED  BY <3>1, FramingConstants, Divided
    <2>2. /\ Len(rests') = Len(rests) + 1 /\ rests'[Len(rests) + 1] = q /\ rests' # <<>>
          /\ \A k \in 1 .. Len(rests) : rests'[k] = rests[k]
      <3>1. rests' = Append(rests, q) /\ rests \in Seq(Nat)
        BY <1>0, <1>3 DEF NextDigit, FramingTypeOK
      <3> HIDE DEF q
      <3> QED  BY <2>1, <3>1, AppendProperties
    <2>3. WellBuilt(rests) /\ rests[Len(rests)] >= Base
      BY <1>0, <1>3 DEF NextDigit, PacketsInPlace
    <2>4. ASSUME NEW k \in 1 .. Len(rests') - 1
          PROVE  rests'[k] >= Base /\ rests'[k + 1] = rests'[k] \div Base
      <3>1. k \in 1 .. Len(rests) /\ (k = Len(rests) \/ k \in 1 .. Len(rests) - 1)
        BY <2>1, <2>2
      <3>2. CASE k = Len(rests)
        BY <2>2, <2>3, <3>1, <3>2
      <3>3. CASE k \in 1 .. Len(rests) - 1
        <4>1. k + 1 \in 1 .. Len(rests)
          BY <2>1, <3>3
        <4> QED  BY <2>2, <2>3, <3>1, <3>3, <4>1 DEF WellBuilt
      <3> QED  BY <3>1, <3>2, <3>3
    <2>5. WellBuilt(rests')
      BY <2>2, <2>4 DEF WellBuilt
    <2> QED  BY <1>1, <1>3, <2>5 DEF NextDigit
  <1>4. ASSUME NEW isPublish \in BOOLEAN, NEW v \in {0, 2 * Base - 1}, Send(isPublish, v)
        PROVE  PacketsInPlace'
    <2>1. v \in Nat
      BY FramingConstants
    <2> QED  BY <1>0, <1>4, <2>1, SendKeepsPlaces
  <1>5. UNCHANGED <<stream, sent, rests>> => PacketsInPlace'
    BY <1>0 DEF PacketsInPlace, InPlace, EndOf, Size, Header, WellBuilt
  <1> QED
    BY <1>2, <1>3, <1>4, <1>5
    DEF FramingNext, ReadHeader, ReadDigit, KillConnection, ReadTopicLength, ReadContent, GiveUp,
        framingVars

\* What has been returned depends only on the packets read.
LEMMA ReturnedKept ==
  ASSUME NEW c \in 0 .. Len(sent), Len(sent) \in Nat, returned' = returned, Returned(c),
         \A i \in 1 .. Len(sent) : sent'[i] = sent[i]
  PROVE  Returned(c)'
  <1>1. \A i \in 1 .. c : sent'[i] = sent[i]
    OBVIOUS
  <1>2. \A k \in 1 .. Len(returned) :
            \E i \in 1 .. c : Fits(sent'[i]) /\ returned[k] = Place(sent'[i])
    BY <1>1 DEF Returned
  <1>3. \A i \in 1 .. c :
            /\ Len(sent'[i].rests) <= MaxDigits
            /\ Fits(sent'[i]) => \E k \in 1 .. Len(returned) : returned[k] = Place(sent'[i])
    BY <1>1 DEF Returned
  <1>4. \A k \in 1 .. Len(returned), l \in 1 .. Len(returned) :
            k < l => returned[k].to <= returned[l].from
    BY DEF Returned
  <1> QED  BY <1>2, <1>3, <1>4 DEF Returned, Fits, Place

\* A whole packet more has been read.
LEMMA ReturnedNext ==
  ASSUME FramingTypeOK, PacketsInPlace, NEW c \in 1 .. Len(sent), Returned(c - 1),
         Len(sent[c].rests) <= MaxDigits, sent' = sent,
         returned' = IF Fits(sent[c]) THEN Append(returned, Place(sent[c])) ELSE returned
  PROVE  Returned(c)'
  <1> DEFINE p == Place(sent[c])
             R == [from : Nat, to : Nat]
  <1>1. p \in R /\ returned \in Seq(R) /\ Len(returned) \in Nat /\ Len(sent) \in Nat
        /\ p.from = sent[c].from /\ p.to = sent[c].to
    <2>1. sent[c].from \in Nat /\ sent[c].to \in Nat
      BY PacketTypes
    <2>2. p \in R /\ p.from = sent[c].from /\ p.to = sent[c].to
      BY <2>1 DEF Place
    <2>3. returned \in Seq(R) /\ Len(returned) \in Nat
      <3>1. returned \in Seq(R)
        BY Zenon DEF FramingTypeOK
      <3> QED  BY <3>1, LenProperties
    <2>4. Len(sent) \in Nat
      <3>1. sent \in Seq([from : Nat, to : Nat, rests : Seq(Nat), publish : BOOLEAN])
        BY Zenon DEF FramingTypeOK
      <3> QED  BY <3>1, LenProperties
    <2> QED  BY <2>2, <2>3, <2>4
  <1>2. \A i \in 1 .. c : i \in 1 .. c - 1 \/ i = c
    OBVIOUS
  <1>3. \A i \in 1 .. c - 1 : i \in 1 .. c /\ i \in 1 .. Len(sent) /\ i < c
    BY <1>1
  <1>4. c \in 1 .. c
    OBVIOUS
  <1>5. CASE ~Fits(sent[c])
    <2>1. returned' = returned
      BY <1>5
    <2>2. \A k \in 1 .. Len(returned) :
              \E i \in 1 .. c : Fits(sent[i]) /\ returned[k] = Place(sent[i])
      BY <1>3 DEF Returned
    <2>3. \A i \in 1 .. c :
              /\ Len(sent[i].rests) <= MaxDigits
              /\ Fits(sent[i]) => \E k \in 1 .. Len(returned) : returned[k] = Place(sent[i])
      BY <1>2, <1>5 DEF Returned
    <2> QED  BY <2>1, <2>2, <2>3 DEF Returned, Fits, Place
  <1>6. CASE Fits(sent[c])
    <2>1. /\ Len(returned') = Len(returned) + 1 /\ returned'[Len(returned) + 1] = p
          /\ \A k \in 1 .. Len(returned) : returned'[k] = returned[k]
      <3>1. returned' = Append(returned, p)
        BY <1>6
      <3> HIDE DEF p, R
      <3> QED  BY <1>1, <3>1, AppendProperties
    <2>2. \A k \in 1 .. Len(returned') : k \in 1 .. Len(returned) \/ k = Len(returned) + 1
      BY <1>1, <2>1
    <2>3. /\ \A k \in 1 .. Len(returned) : k \in 1 .. Len(returned')
          /\ Len(returned) + 1 \in 1 .. Len(returned')
      BY <1>1, <2>1
    <2>4. ASSUME NEW k \in 1 .. Len(returned')
          PROVE  \E i \in 1 .. c : Fits(sent[i]) /\ returned'[k] = Place(sent[i])
      <3>1. CASE k \in 1 .. Len(returned)
        BY <1>3, <2>1, <3>1 DEF Returned
      <3>2. CASE k = Len(returned) + 1
        BY <1>4, <1>6, <2>1, <3>2
      <3> QED  BY <2>2, <3>1, <3>2
    <2>5. ASSUME NEW i \in 1 .. c
          PROVE  /\ Len(sent[i].rests) <= MaxDigits
                 /\ Fits(sent[i]) => \E k \in 1 .. Len(returned') : returned'[k] = Place(sent[i])
      <3>1. CASE i \in 1 .. c - 1
        BY <2>1, <2>3, <3>1 DEF Returned
      <3>2. CASE i = c
        BY <2>1, <2>3, <3>2
      <3> QED  BY <1>2, <3>1, <3>2
    <2>6. ASSUME NEW k \in 1 .. Len(returned'), NEW l \in 1 .. Len(returned'), k < l
          PROVE  returned'[k].to <= returned'[l].from
      <3>1. k \in 1 .. Len(returned)
        BY <1>1, <2>1, <2>6
      <3>2. CASE l \in 1 .. Len(returned)
        BY <2>1, <2>6, <3>1, <3>2 DEF Returned
      <3>3. CASE l = Len(returned) + 1
        <4>1. PICK i \in 1 .. c - 1 : returned[k] = Place(sent[i])
          BY <3>1 DEF Returned
        <4>2. sent[i].to <= sent[c].from
          BY <1>3, <4>1 DEF PacketsInPlace
        <4> QED  BY <1>1, <2>1, <3>1, <3>3, <4>1, <4>2 DEF Place
      <3> QED  BY <2>2, <3>2, <3>3
    <2> HIDE DEF p, R
    <2> QED  BY <2>4, <2>5, <2>6 DEF Returned, Fits, Place
  <1> QED  BY <1>5, <1>6

\* A digit that has been read was followed by another, or the last.
LEMMA NextRest ==
  ASSUME FramingTypeOK, PacketsInPlace, NEW c \in 1 .. Len(sent),
         NEW k \in 1 .. Len(sent[c].rests)
  PROVE  /\ sent[c].rests[k] \in Nat
         /\ sent[c].rests[k] >= Base =>
                /\ k + 1 \in 1 .. Len(sent[c].rests)
                /\ sent[c].rests[k + 1] = sent[c].rests[k] \div Base
         /\ ~(sent[c].rests[k] >= Base) => k = Len(sent[c].rests)
  <1> DEFINE r == sent[c].rests
  <1>1. Len(r) \in Nat \ {0} /\ \A j \in 1 .. Len(r) : r[j] \in Nat
    BY PacketTypes
  <1>2. WellBuilt(r) /\ r[Len(r)] < Base
    BY DEF PacketsInPlace, InPlace
  <1>3. CASE k = Len(r)
    <2>1. r[k] \in Nat /\ r[k] < Base
      BY <1>1, <1>2, <1>3
    <2>2. ~(r[k] >= Base)
      BY <2>1, FramingConstants
    <2> QED  BY <1>3, <2>1, <2>2
  <1>4. CASE k # Len(r)
    <2>1. k \in 1 .. Len(r) - 1 /\ k + 1 \in 1 .. Len(r)
      BY <1>1, <1>4
    <2> QED  BY <1>1, <1>2, <2>1 DEF WellBuilt
  <1> QED  BY <1>3, <1>4

\* readPacket reads a digit of the packet p.
LEMMA DigitStep ==
  ASSUME FramingTypeOK, PacketsInPlace, NEW c \in 1 .. Len(sent), Reading(sent[c]), ReadDigit
  PROVE  Reading(sent[c])' /\ UNCHANGED <<sent, status, returned>>
         /\ status = "connected" /\ read_pc' # "idle"
  <1> DEFINE p == sent[c]
             r == sent[c].rests
  <1>1. /\ status = "connected" /\ read_pc = "digit" /\ pos' = pos + 1
        /\ UNCHANGED <<stream, sent, begin, publish, status, returned>>
        /\ len' = len + 1 /\ multiplier' = multiplier * Base /\ len # MaxDigits + 1
        /\ length' = length + (stream[pos'] % Base) * multiplier
        /\ read_pc' = IF stream[pos'] >= Base THEN "digit"
                      ELSE IF publish THEN "topic" ELSE "content"
    BY DEF ReadDigit, Read, At, LengthInvalid
  <1>2. /\ begin = p.from /\ pos = begin + len /\ publish = p.publish
        /\ len \in 1 .. Len(r) /\ len <= MaxDigits + 1
        /\ length + r[len] * multiplier = r[1]
    BY <1>1 DEF Reading
  <1>3. /\ pos \in Nat /\ begin \in Nat /\ len \in Nat /\ length \in Nat /\ multiplier \in Nat
        /\ Len(r) \in Nat \ {0} /\ r[len] \in Nat /\ p.from \in Nat
    <2>1. Len(r) \in Nat \ {0} /\ r[len] \in Nat /\ p.from \in Nat
      BY <1>2, PacketTypes
    <2> QED  BY <2>1 DEF FramingTypeOK
  <1>4. stream[pos'] = Digit(r[len])
    <2>1. pos' = p.from + 1 + len
      <3>1. pos + 1 = begin + 1 + len
        BY <1>2, <1>3
      <3> QED  BY <1>1, <1>2, <3>1
    <2> QED  BY <1>2, <2>1 DEF PacketsInPlace, InPlace
  <1>5. /\ stream[pos'] % Base = r[len] % Base
        /\ stream[pos'] >= Base <=> r[len] >= Base
    BY <1>3, <1>4, DigitRead
  <1>6. len + 1 <= MaxDigits + 1 /\ len <= MaxDigits
    <2>1. len <= MaxDigits + 1 /\ len # MaxDigits + 1 /\ len \in Nat
      BY <1>1, <1>2, <1>3
    <2> HIDE DEF p, r
    <2> QED  BY <2>1, FramingConstants
  <1>7. pos' = begin' + len'
    <2>1. pos + 1 = begin + (len + 1)
      <3>1. pos = begin + len /\ begin \in Nat /\ len \in Nat
        BY <1>2, <1>3
      <3> HIDE DEF p, r
      <3> QED  BY <3>1
    <2> QED  BY <1>1, <2>1
  <1>8. CASE r[len] >= Base
    <2>1. len + 1 \in 1 .. Len(r) /\ r[len + 1] = r[len] \div Base
      BY <1>2, <1>8, NextRest
    <2>2. read_pc' = "digit"
      BY <1>1, <1>5, <1>8
    <2>3. length' + r[len'] * multiplier' = r[1]
      <3>1. (length + (r[len] % Base) * multiplier) + (r[len] \div Base) * (multiplier * Base)
                = length + r[len] * multiplier
        <4>1. Base \in Nat \ {0}
          BY FramingConstants
        <4>2. r[len] \in Nat /\ length \in Nat /\ multiplier \in Nat
          BY <1>3
        <4> HIDE DEF p, r
        <4> QED  BY <4>1, <4>2, DigitMoves, Zenon
      <3>2. length' = length + (r[len] % Base) * multiplier
        BY <1>1, <1>5, Zenon
      <3>3. r[len'] = r[len] \div Base /\ multiplier' = multiplier * Base
        BY <1>1, <2>1, Zenon
      <3> QED  BY <1>2, <3>1, <3>2, <3>3, Zenon
    <2> QED  BY <1>1, <1>2, <1>6, <1>7, <2>1, <2>2, <2>3 DEF Reading
  <1>9. CASE ~(r[len] >= Base)
    <2>1. len = Len(r)
      BY <1>2, <1>9, NextRest
    <2>2. read_pc' = IF publish THEN "topic" ELSE "content"
      BY <1>1, <1>5, <1>9
    <2>3. length' = r[1]
      <3>1. r[len] < Base
        BY <1>3, <1>9, FramingConstants
      <3>2. length + (r[len] % Base) * multiplier = length + r[len] * multiplier
        <4>1. r[len] % Base = r[len]
          BY <1>3, <3>1, FramingConstants
        <4> QED  BY <4>1
      <3>3. length' = length + (r[len] % Base) * multiplier
        BY <1>1, <1>5, Zenon
      <3> QED  BY <1>2, <3>2, <3>3, Zenon
    <2>4. len' = Header(p) + IF read_pc' = "content" /\ publish' THEN 2 ELSE 0
      <3>1. len + 1 = 1 + Len(r) + 0
        BY <1>3, <2>1
      <3>2. ~(read_pc' = "content" /\ publish')
        BY <1>1, <2>2
      <3> QED  BY <1>1, <3>1, <3>2 DEF Header
    <2>5. publish \in BOOLEAN
      BY DEF FramingTypeOK
    <2> QED  BY <1>1, <1>2, <1>6, <1>7, <2>1, <2>2, <2>3, <2>4, <2>5 DEF Reading
  <1> QED  BY <1>8, <1>9

\* readPacket begins where the last packet it has read ends.
LEMMA HeaderStep ==
  ASSUME FramingTypeOK, PacketsInPlace, NEW c \in 0 .. Len(sent), pos = EndOf(c), ReadHeader
  PROVE  c + 1 \in 1 .. Len(sent) /\ Reading(sent[c + 1])'
  <1>1. /\ pos + 1 <= Len(stream) /\ pos' = pos + 1 /\ begin' = pos
        /\ publish' = (stream[pos'] % 2 = 1) /\ len' = 1 /\ length' = 0 /\ multiplier' = 1
        /\ status = "connected" /\ status' = status /\ read_pc' = "digit"
    BY DEF ReadHeader, Read, At
  <1>2. c # Len(sent)
    <2> SUFFICES ASSUME c = Len(sent) PROVE FALSE
      OBVIOUS
    <2>1. Len(stream) = pos /\ pos \in Nat
      BY DEF PacketsInPlace, FramingTypeOK
    <2> QED  BY <1>1, <2>1
  <1>3. c + 1 \in 1 .. Len(sent) /\ (c + 1) - 1 = c
    <2>1. Len(sent) \in Nat
      BY DEF FramingTypeOK
    <2> QED  BY <1>2, <2>1
  <1> DEFINE i == c + 1
             p == sent[i]
  <1> HIDE DEF i
  <1>4. i \in 1 .. Len(sent) /\ InPlace(i) /\ EndOf(i - 1) = pos
    BY <1>3 DEF i, PacketsInPlace
  <1>5. /\ p.from = pos /\ stream[p.from + 1] = (IF p.publish THEN 1 ELSE 0)
        /\ Len(p.rests) \in Nat \ {0} /\ p.rests[1] \in Nat /\ p.publish \in BOOLEAN
    <2>1. Len(p.rests) \in Nat \ {0} /\ p.publish \in BOOLEAN
      BY <1>4, PacketTypes
    <2>2. 1 \in 1 .. Len(p.rests)
      BY <2>1
    <2> QED  BY <1>4, <2>1, <2>2, PacketTypes DEF InPlace
  <1>6. publish' = p.publish
    <2>1. stream[pos'] = IF p.publish THEN 1 ELSE 0
      BY <1>1, <1>5
    <2>2. 1 % 2 = 1 /\ 0 % 2 # 1
      OBVIOUS
    <2> QED  BY <1>1, <1>5, <2>1, <2>2
  <1>7. 1 \in 1 .. Len(p.rests) /\ 1 <= MaxDigits + 1
    BY <1>5, FramingConstants
  <1>8. 0 + p.rests[1] * 1 = p.rests[1]
    BY <1>5
  <1>9. Reading(p)'
    BY <1>1, <1>5, <1>6, <1>7, <1>8 DEF Reading, ReadHeader
  <1> QED  BY <1>3, <1>9 DEF i

\* A packet from f to t with l digits and a content of n bytes, 2 of them the topic's
\* length if the packet is a PUBLISH.
LEMMA RestAdds ==
  ASSUME NEW f \in Nat, NEW t, NEW l \in Nat, NEW n \in Nat, NEW pub \in BOOLEAN,
         NEW at, NEW rest, NEW place,
         pub => n >= 2, t = f + 1 + l + n, at = 1 + l + (IF pub THEN 2 ELSE 0), place = f + at,
         rest = IF ~pub THEN n ELSE IF n > 2 THEN n - 2 ELSE 0
  PROVE  rest \in Nat /\ place + rest = t /\ t - f = at + rest /\ at + rest \in Nat
  <1>1. CASE pub
    <2>1. rest = n - 2 /\ n - 2 \in Nat
      BY <1>1
    <2>2. at = 1 + l + 2
      BY <1>1
    <2> QED  BY <2>1, <2>2
  <1>2. CASE ~pub
    <2>1. rest = n /\ at = 1 + l
      BY <1>2
    <2> QED  BY <2>1
  <1> QED  BY <1>1, <1>2

\* What is between two calls of readByte and the end of the packet.
LEMMA RestOfPacket ==
  ASSUME FramingTypeOK, PacketsInPlace, NEW c \in 1 .. Len(sent), Reading(sent[c]),
         At("content")
  PROVE  /\ Rest \in Nat /\ pos + Rest = sent[c].to /\ Len(sent[c].rests) <= MaxDigits
         /\ Overflows(len + Rest) <=> ~Fits(sent[c])
  <1> DEFINE p == sent[c]
             l == Len(sent[c].rests)
             n == sent[c].rests[1]
             f == sent[c].from
             t == sent[c].to
             rest == Rest
  <1>1. /\ begin = f /\ pos = begin + len /\ publish = p.publish /\ length = n
        /\ l <= MaxDigits
        /\ len = 1 + l + IF publish THEN 2 ELSE 0
    BY DEF Reading, At, Header
  <1>2. l \in Nat /\ f \in Nat /\ n \in Nat /\ publish \in BOOLEAN
    BY <1>1, PacketTypes DEF FramingTypeOK
  <1>3. t = f + 1 + l + n
    BY PacketTypes
  <1>4. publish => n >= 2
    BY <1>1 DEF PacketsInPlace, InPlace
  <1>5. rest = IF ~publish THEN n ELSE IF n > 2 THEN n - 2 ELSE 0
    BY <1>1 DEF Rest
  <1>6. Fits(p) <=> t - f <= BufferSize
    BY DEF Fits
  <1>7. Overflows(len + rest) <=> len + rest > BufferSize
    BY DEF Overflows
  <1> HIDE DEF l, n, f, t, rest, p
  <1>8. rest \in Nat /\ pos + rest = t /\ t - f = len + rest /\ len + rest \in Nat
    <2>1. pos = f + len
      BY <1>1
    <2>2. len = 1 + l + IF publish THEN 2 ELSE 0
      BY <1>1
    <2> QED  BY <1>2, <1>3, <1>4, <1>5, <2>1, <2>2, RestAdds
  <1>9. \A a, b \in Nat : a > b <=> ~(a <= b)
    OBVIOUS
  <1>10. len + rest > BufferSize <=> ~(t - f <= BufferSize)
    BY <1>8, <1>9, FramingConstants
  <1> QED  BY <1>1, <1>6, <1>7, <1>8, <1>10 DEF l, n, f, t, rest, p

\* The sender does not disturb the reader.
LEMMA SenderKeeps ==
  ASSUME InPacket, Len(sent) \in Nat, Len(sent') \in Nat, Len(sent') >= Len(sent),
         \A i \in 1 .. Len(sent) : sent'[i] = sent[i],
         \A c \in 0 .. Len(sent) : EndOf(c)' = EndOf(c),
         UNCHANGED <<pos, read_pc, readVars, status, returned, lost>>
  PROVE  InPacket'
  <1> SUFFICES ASSUME ~lost' PROVE InPacket'
    BY DEF InPacket
  <1>1. ~lost
    OBVIOUS
  <1>2. \A c \in 0 .. Len(sent) : c \in 0 .. Len(sent') /\ c - 1 \in -1 .. Len(sent)
    OBVIOUS
  <1>3. CASE status = "connected" /\ read_pc = "idle"
    <2>1. PICK c \in 0 .. Len(sent) : pos = EndOf(c) /\ Returned(c)
      BY <1>1, <1>3 DEF InPacket
    <2>2. Returned(c)'
      BY <2>1, ReturnedKept
    <2>3. pos' = EndOf(c)' /\ c \in 0 .. Len(sent')
      BY <1>2, <2>1
    <2> QED  BY <1>3, <2>2, <2>3 DEF InPacket
  <1>4. CASE ~(status = "connected" /\ read_pc = "idle")
    <2>1. PICK c \in 1 .. Len(sent) : Reading(sent[c]) /\ Returned(c - 1)
      BY <1>1, <1>4 DEF InPacket
    <2>2. c - 1 \in 0 .. Len(sent) /\ c \in 1 .. Len(sent')
      OBVIOUS
    <2>3. Returned(c - 1)'
      BY <2>1, <2>2, ReturnedKept
    <2>4. Reading(sent[c])'
      BY <2>1 DEF Reading, Header, readVars
    <2> QED  BY <1>4, <2>2, <2>3, <2>4 DEF InPacket
  <1> QED  BY <1>3, <1>4

\* ... and readPacket's place in them.
LEMMA InPacketStep == FramingInv /\ [FramingNext]_framingVars => InPacket'
  <1> SUFFICES ASSUME FramingInv, [FramingNext]_framingVars PROVE InPacket'
    OBVIOUS
  <1>0. FramingTypeOK /\ PacketsInPlace /\ InPacket /\ Len(sent) \in Nat
    BY DEF FramingInv, FramingTypeOK
  <1>1. sent' = sent => \A c \in 0 .. Len(sent) : EndOf(c)' = EndOf(c)
    BY DEF EndOf
  <1>2. UNCHANGED <<sent, pos, read_pc, readVars, status, returned, lost>> => InPacket'
    BY <1>0, <1>1, SenderKeeps
  <1>3. ASSUME NEW n \in Lengths, BuildHeader(n) PROVE InPacket'
    BY <1>2, <1>3 DEF BuildHeader
  <1>4. CASE NextDigit
    BY <1>2, <1>4 DEF NextDigit
  <1>5. ASSUME NEW isPublish \in BOOLEAN, NEW v \in {0, 2 * Base - 1}, Send(isPublish, v)
        PROVE  InPacket'
    <2>1. v \in Nat
      BY FramingConstants
    <2>2. /\ Len(sent') = Len(sent) + 1
          /\ \A i \in 1 .. Len(sent) : sent'[i] = sent[i]
          /\ \A c \in 0 .. Len(sent) : EndOf(c)' = EndOf(c)
      BY <1>0, <1>5, <2>1, SendKeepsPlaces
    <2>3. Len(sent') \in Nat /\ Len(sent') >= Len(sent)
      BY <1>0, <2>2
    <2>4. UNCHANGED <<pos, read_pc, readVars, status, returned, lost>>
      BY <1>5 DEF Send
    <2> QED  BY <1>0, <2>2, <2>3, <2>4, SenderKeeps
  <1>6. CASE ReadHeader
    <2> SUFFICES ASSUME ~lost PROVE InPacket'
      BY <1>6 DEF ReadHeader, InPacket
    <2>0. /\ status = "connected" /\ read_pc = "idle" /\ read_pc' = "digit"
          /\ UNCHANGED <<sent, returned>>
      BY <1>6 DEF ReadHeader, At
    <2>1. PICK c \in 0 .. Len(sent) : pos = EndOf(c) /\ Returned(c)
      BY <1>0, <2>0 DEF InPacket
    <2>2. c + 1 \in 1 .. Len(sent) /\ Reading(sent[c + 1])'
      BY <1>0, <1>6, <2>1, HeaderStep
    <2>3. Returned(c)'
      BY <1>0, <2>0, <2>1, ReturnedKept
    <2>4. (c + 1) - 1 = c
      OBVIOUS
    <2> DEFINE i == c + 1
    <2> HIDE DEF i
    <2>5. i \in 1 .. Len(sent') /\ Reading(sent[i])' /\ Returned(i - 1)'
      BY <2>0, <2>2, <2>3, <2>4 DEF i
    <2> QED  BY <2>0, <2>5 DEF InPacket
  <1> DEFINE AtPacket == status = "connected" /\ read_pc # "idle"
  <1>7. ASSUME ~lost, AtPacket
        PROVE  \E c \in 1 .. Len(sent) : Reading(sent[c]) /\ Returned(c - 1) /\ c - 1 \in 0 .. Len(sent)
    <2>1. PICK c \in 1 .. Len(sent) : Reading(sent[c]) /\ Returned(c - 1)
      BY <1>0, <1>7 DEF InPacket
    <2>2. c - 1 \in 0 .. Len(sent)
      BY <1>0
    <2> QED  BY <2>1, <2>2
  <1>8. CASE ReadDigit
    <2> SUFFICES ASSUME ~lost PROVE InPacket'
      BY <1>8 DEF ReadDigit, InPacket
    <2>1. AtPacket
      BY <1>8 DEF ReadDigit, At
    <2>2. PICK c \in 1 .. Len(sent) : Reading(sent[c]) /\ Returned(c - 1) /\ c - 1 \in 0 .. Len(sent)
      BY <1>7, <2>1
    <2>3. /\ Reading(sent[c])' /\ UNCHANGED <<sent, status, returned>>
          /\ status = "connected" /\ read_pc' # "idle"
      BY <1>0, <1>8, <2>2, DigitStep
    <2>4. Returned(c - 1)'
      BY <1>0, <2>2, <2>3, ReturnedKept
    <2> QED  BY <2>3, <2>4 DEF InPacket
  <1>9. CASE KillConnection
    <2> SUFFICES ASSUME ~lost PROVE InPacket'
      BY <1>9 DEF KillConnection, InPacket
    <2>1. /\ status = "connected" /\ read_pc = "digit" /\ len = MaxDigits + 1 /\ status' = "closed"
          /\ UNCHANGED <<sent, returned, pos, readVars>>
      BY <1>9 DEF KillConnection, At, LengthInvalid
    <2>2. PICK c \in 1 .. Len(sent) : Reading(sent[c]) /\ Returned(c - 1) /\ c - 1 \in 0 .. Len(sent)
      BY <1>7, <2>1
    <2>3. /\ begin = sent[c].from /\ pos = begin + len /\ len \in 1 .. Len(sent[c].rests)
      BY <2>1, <2>2 DEF Reading
    <2>4. Len(sent[c].rests) > MaxDigits /\ pos < sent[c].to
      <3> DEFINE f == sent[c].from
                 l == Len(sent[c].rests)
                 n == sent[c].rests[1]
                 t == sent[c].to
      <3>1. f \in Nat /\ l \in Nat \ {0} /\ t = f + 1 + l + n
        BY <1>0, PacketTypes
      <3>2. n \in Nat
        <4>1. 1 \in 1 .. l
          BY <3>1
        <4> QED  BY <1>0, <4>1, PacketTypes
      <3>3. pos = f + len /\ len \in 1 .. l /\ len = MaxDigits + 1 /\ MaxDigits \in Nat
        BY <2>1, <2>3, FramingConstants
      <3> HIDE DEF f, l, n, t
      <3>4. l > MaxDigits /\ pos < t
        BY <3>1, <3>2, <3>3
      <3> QED  BY <3>4 DEF l, t
    <2>5. Reading(sent[c])'
      BY <2>1, <2>3, <2>4 DEF Reading, readVars
    <2>6. Returned(c - 1)'
      BY <1>0, <2>1, <2>2, ReturnedKept
    <2> QED  BY <2>1, <2>5, <2>6 DEF InPacket
  <1>10. CASE ReadTopicLength
    <2> SUFFICES ASSUME ~lost PROVE InPacket'
      BY <1>10 DEF ReadTopicLength, InPacket
    <2>1. /\ status = "connected" /\ read_pc = "topic" /\ read_pc' = "content"
          /\ pos' = pos + 2 /\ len' = len + 2
          /\ UNCHANGED <<sent, begin, publish, length, status, returned>>
      BY <1>10 DEF ReadTopicLength, At, Read
    <2>2. PICK c \in 1 .. Len(sent) : Reading(sent[c]) /\ Returned(c - 1) /\ c - 1 \in 0 .. Len(sent)
      BY <1>7, <2>1
    <2>3. /\ begin = sent[c].from /\ pos = begin + len /\ publish = sent[c].publish
          /\ length = sent[c].rests[1] /\ Len(sent[c].rests) <= MaxDigits
          /\ len = 1 + Len(sent[c].rests) + 0 /\ publish
      BY <2>1, <2>2 DEF Reading, Header
    <2>4. pos' = begin' + len' /\ len' = 1 + Len(sent[c].rests) + 2
      <3>1. begin \in Nat /\ len \in Nat /\ Len(sent[c].rests) \in Nat
        BY <1>0, PacketTypes DEF FramingTypeOK
      <3>2. \A b, l, n \in Nat : (b + l) + 2 = b + (l + 2) /\ (1 + n + 0) + 2 = 1 + n + 2
        OBVIOUS
      <3>3. (begin + len) + 2 = begin + (len + 2)
            /\ (1 + Len(sent[c].rests) + 0) + 2 = 1 + Len(sent[c].rests) + 2
        BY <3>1, <3>2
      <3> QED  BY <2>1, <2>3, <3>3
    <2>5. Reading(sent[c])'
      BY <2>1, <2>3, <2>4 DEF Reading, Header
    <2>6. Returned(c - 1)'
      BY <1>0, <2>1, <2>2, ReturnedKept
    <2> QED  BY <2>1, <2>5, <2>6 DEF InPacket
  <1>11. CASE ReadContent
    <2> SUFFICES ASSUME ~lost PROVE InPacket'
      BY <1>11 DEF ReadContent, InPacket
    <2>1. /\ At("content") /\ read_pc' = "idle" /\ pos' = pos + Rest
          /\ UNCHANGED <<sent, status>>
          /\ returned' = IF Overflows(len + Rest) THEN returned
                         ELSE Append(returned, [from |-> begin, to |-> pos'])
      BY <1>11 DEF ReadContent, Read
    <2>2. status = "connected" /\ AtPacket
      BY <2>1 DEF At
    <2>3. PICK c \in 1 .. Len(sent) : Reading(sent[c]) /\ Returned(c - 1) /\ c - 1 \in 0 .. Len(sent)
      BY <1>7, <2>2
    <2>4. /\ pos + Rest = sent[c].to /\ Len(sent[c].rests) <= MaxDigits
          /\ Overflows(len + Rest) <=> ~Fits(sent[c])
      BY <1>0, <2>1, <2>3, RestOfPacket
    <2>5. begin = sent[c].from
      BY <2>3 DEF Reading
    <2>6. returned' = IF Fits(sent[c]) THEN Append(returned, Place(sent[c])) ELSE returned
      BY <2>1, <2>4, <2>5 DEF Place
    <2>7. Returned(c)'
      BY <1>0, <2>1, <2>3, <2>4, <2>6, ReturnedNext
    <2>8. c \in 0 .. Len(sent) /\ c # 0
      BY <1>0
    <2>9. pos' = EndOf(c)'
      BY <2>1, <2>4, <2>8 DEF EndOf
    <2> QED  BY <2>1, <2>2, <2>7, <2>8, <2>9 DEF InPacket
  <1>12. CASE GiveUp
    BY <1>12 DEF GiveUp, InPacket
  <1>13. CASE UNCHANGED framingVars
    BY <1>2, <1>13 DEF framingVars
  <1> QED
    BY <1>3, <1>4, <1>5, <1>6, <1>8, <1>9, <1>10, <1>11, <1>12, <1>13 DEF FramingNext

\* Every step keeps the invariant, ...
LEMMA StepFramingInv == FramingInv /\ [FramingNext]_framingVars => FramingInv'
  BY FramingTypeStep, PacketsInPlaceStep, InPacketStep DEF FramingInv

\* ... so it always holds.
LEMMA AlwaysFramingInv == FramingSpec => []FramingInv
  BY InitFramingInv, StepFramingInv, PTL DEF FramingSpec

\* Of the packets sent, those up to the c-th end where the c-th does or before.
LEMMA ReadSoFar ==
  ASSUME FramingTypeOK, PacketsInPlace, NEW c \in 0 .. Len(sent), NEW i \in 1 .. Len(sent)
  PROVE  sent[i].to <= EndOf(c) <=> i <= c
  <1>0. Len(sent) \in Nat
    BY DEF FramingTypeOK
  <1>1. sent[i].from \in Nat /\ sent[i].to \in Nat /\ sent[i].from < sent[i].to
    BY PacketTypes
  <1>2. CASE c = 0
    <2>1. EndOf(c) = 0 /\ ~(i <= c)
      BY <1>2 DEF EndOf
    <2>2. \A f, t \in Nat : f < t => ~(t <= 0)
      OBVIOUS
    <2> QED  BY <1>1, <2>1, <2>2
  <1>3. CASE c # 0
    <2>0. c \in 1 .. Len(sent) /\ EndOf(c) = sent[c].to
      BY <1>0, <1>3 DEF EndOf
    <2>1. sent[c].from \in Nat /\ sent[c].to \in Nat /\ sent[c].from < sent[c].to
      BY <2>0, PacketTypes
    <2>2. /\ i < c => sent[i].to <= sent[c].from
          /\ c < i => sent[c].to <= sent[i].from
      BY <2>0 DEF PacketsInPlace
    <2>3. ASSUME NEW fi \in Nat, NEW ti \in Nat, NEW fc \in Nat, NEW tc \in Nat, fi < ti, fc < tc
          PROVE  (ti <= fc => ti <= tc) /\ (tc <= fi => ~(ti <= tc)) /\ tc <= tc
      BY <2>3
    <2>4. /\ sent[i].to <= sent[c].from => sent[i].to <= sent[c].to
          /\ sent[c].to <= sent[i].from => ~(sent[i].to <= sent[c].to)
          /\ sent[c].to <= sent[c].to
      <3> DEFINE fi == sent[i].from  ti == sent[i].to  fc == sent[c].from  tc == sent[c].to
      <3>1. fi \in Nat /\ ti \in Nat /\ fc \in Nat /\ tc \in Nat /\ fi < ti /\ fc < tc
        BY <1>1, <2>1
      <3> HIDE DEF fi, ti, fc, tc
      <3>2. (ti <= fc => ti <= tc) /\ (tc <= fi => ~(ti <= tc)) /\ tc <= tc
        BY <2>3, <3>1
      <3> QED  BY <3>2 DEF fi, ti, fc, tc
    <2>5. CASE i < c
      BY <2>0, <2>2, <2>4, <2>5
    <2>6. CASE c < i
      <3>1. ~(i <= c)
        BY <1>0, <2>0, <2>6
      <3> QED  BY <2>0, <2>2, <2>4, <2>6, <3>1
    <2>7. CASE i = c
      BY <2>0, <2>4, <2>7
    <2> QED  BY <1>0, <2>0, <2>5, <2>6, <2>7
  <1> QED  BY <1>2, <1>3

-----------------------------------------------------------------------------
\* What is read of the connection is of the types given, digits and counters too.
THEOREM FramingTypes == FramingSpec => []FramingTypeOK
  BY AlwaysFramingInv, PTL DEF FramingInv

\* As long as every byte comes in time, readPacket returns the packets sent, in
\* order and once, but those that overflow the buffer: it never takes content for a
\* header (PubSubClient.cpp readPacket).
THEOREM PacketsReturned == FramingSpec => []ReturnsWhatWasSent
  <1>1. FramingInv => ReturnsWhatWasSent
    <2> SUFFICES ASSUME FramingInv, ~lost, read_pc = "idle", status = "connected"
                 PROVE  ReturnsWhatWasSent
      BY DEF ReturnsWhatWasSent
    <2>0. FramingTypeOK /\ PacketsInPlace /\ InPacket /\ Len(sent) \in Nat
      BY DEF FramingInv, FramingTypeOK
    <2>1. PICK c \in 0 .. Len(sent) : pos = EndOf(c) /\ Returned(c)
      BY <2>0 DEF InPacket
    <2>2. \A i \in 1 .. Len(sent) : sent[i].to <= pos <=> i <= c
      BY <2>0, <2>1, ReadSoFar
    <2>3. \A i \in 1 .. c : i \in 1 .. Len(sent) /\ i <= c
      BY <2>0
    <2> DEFINE S == {returned[k] : k \in 1 .. Len(returned)}
               T == {Place(sent[i]) : i \in {j \in 1 .. Len(sent) : sent[j].to <= pos /\ Fits(sent[j])}}
    <2>4. S = T
      <3>1. ASSUME NEW x \in S PROVE x \in T
        <4>1. PICK k \in 1 .. Len(returned) : x = returned[k]
          OBVIOUS
        <4>2. PICK i \in 1 .. c : Fits(sent[i]) /\ returned[k] = Place(sent[i])
          BY <2>1 DEF Returned
        <4> QED  BY <2>2, <2>3, <4>1, <4>2
      <3>2. ASSUME NEW x \in T PROVE x \in S
        <4>1. PICK i \in 1 .. Len(sent) : sent[i].to <= pos /\ Fits(sent[i]) /\ x = Place(sent[i])
          OBVIOUS
        <4>2. i \in 1 .. c
          BY <2>2, <4>1
        <4> QED  BY <2>1, <4>1, <4>2 DEF Returned
      <3> QED  BY <3>1, <3>2
    <2>5. \A k \in 1 .. Len(returned), l \in 1 .. Len(returned) :
              k < l => returned[k].to <= returned[l].from
      BY <2>1 DEF Returned
    <2>6. pos = 0 \/ \E i \in 1 .. Len(sent) : sent[i].to = pos
      BY <2>0, <2>1 DEF EndOf
    <2> QED  BY <2>4, <2>5, <2>6 DEF ReturnsWhatWasSent
  <1> QED  BY <1>1, AlwaysFramingInv, PTL

\* readPacket kills the connection only in a packet whose length has more digits
\* than MQTT allows.
THEOREM ClosedForLength == FramingSpec => []ClosesForLength
  <1>1. FramingInv => ClosesForLength
    <2> SUFFICES ASSUME FramingInv, ~lost, status = "closed" PROVE ClosesForLength
      BY DEF ClosesForLength
    <2>1. PICK c \in 1 .. Len(sent) : Reading(sent[c])
      BY DEF FramingInv, InPacket
    <2> QED  BY <2>1 DEF Reading, ClosesForLength
  <1> QED  BY <1>1, AlwaysFramingInv, PTL

\* A PUBLISH that publish() lets pass is returned by a reader with a buffer of the
\* same size, once it has been read: the room both leave for the header agrees.
THEOREM OwnPacketsReturned == FramingSpec => []OwnPacketsFit
  <1>1. FramingInv => OwnPacketsFit
    <2> SUFFICES ASSUME FramingInv, ~lost, read_pc = "idle", NEW i \in 1 .. Len(sent),
                        ~TooLong(sent[i].rests[1]), sent[i].to <= pos
                 PROVE  \E k \in 1 .. Len(returned) : returned[k] = Place(sent[i])
      BY DEF OwnPacketsFit
    <2>0. FramingTypeOK /\ PacketsInPlace /\ InPacket /\ Len(sent) \in Nat
      BY DEF FramingInv, FramingTypeOK
    <2>1. \E c \in 0 .. Len(sent) : i \in 1 .. c /\ Returned(c)
      <3>1. CASE status = "connected"
        <4>1. PICK c \in 0 .. Len(sent) : pos = EndOf(c) /\ Returned(c)
          BY <2>0, <3>1 DEF InPacket
        <4>2. i <= c
          BY <2>0, <4>1, ReadSoFar
        <4> QED  BY <4>1, <4>2
      <3>2. CASE status = "closed"
        <4>1. PICK c \in 1 .. Len(sent) : Reading(sent[c]) /\ Returned(c - 1)
          BY <2>0, <3>2 DEF InPacket
        <4>2. pos < sent[c].to /\ c \in 0 .. Len(sent) /\ sent[c].to = EndOf(c)
          BY <2>0, <3>2, <4>1 DEF Reading, EndOf
        <4>3. i <= c /\ i # c
          <5> DEFINE ti == sent[i].to  tc == sent[c].to
          <5>1. ti \in Nat /\ tc \in Nat /\ pos \in Nat /\ ti <= pos /\ pos < tc
            BY <2>0, <4>2, PacketTypes DEF FramingTypeOK
          <5> HIDE DEF ti, tc
          <5>2. ti <= tc /\ ti # tc
            BY <5>1
          <5>3. sent[i].to <= EndOf(c) /\ sent[i].to # sent[c].to
            BY <4>2, <5>2 DEF ti, tc
          <5> QED  BY <2>0, <4>2, <5>3, ReadSoFar
        <4>4. c - 1 \in 0 .. Len(sent) /\ i \in 1 .. c - 1
          BY <2>0, <4>3
        <4> QED  BY <4>1, <4>4
      <3> QED  BY <2>0, <3>1, <3>2 DEF FramingTypeOK
    <2>2. PICK c \in 0 .. Len(sent) : i \in 1 .. c /\ Returned(c)
      BY <2>1
    <2>3. Len(sent[i].rests) <= MaxDigits
      BY <2>2 DEF Returned
    <2>4. Fits(sent[i])
      <3> DEFINE f == sent[i].from
                 l == Len(sent[i].rests)
                 n == sent[i].rests[1]
                 t == sent[i].to
      <3>1. f \in Nat /\ l \in Nat \ {0} /\ t = f + 1 + l + n /\ l <= MaxDigits
        BY <2>0, <2>3, PacketTypes
      <3>2. n \in Nat
        <4>1. 1 \in 1 .. l
          BY <3>1
        <4> QED  BY <2>0, <4>1, PacketTypes
      <3>3. ~(MaxDigits + 1 + n > BufferSize)
        BY DEF TooLong, MaxHeaderSize
      <3> HIDE DEF f, l, n, t
      <3>4. t - f <= BufferSize
        BY <3>1, <3>2, <3>3, FramingConstants
      <3> QED  BY <3>4 DEF Fits, f, t
    <2> QED  BY <2>2, <2>4 DEF Returned
  <1> QED  BY <1>1, AlwaysFramingInv, PTL
=============================================================================
