------------------------ MODULE JsonDeserializerProofs ------------------------
(* Theorems about JsonDeserializer, for any text, any size of the pool and any *)
(* limit of the nesting.                                                       *)
EXTENDS JsonDeserializer, TLAPS, FiniteSetTheorems, SequenceTheorems, WellFoundedInduction

-----------------------------------------------------------------------------
(* What makes the properties inductive                                       *)

\* Pool and latch stay within their bounds, ...
Places == {"variant", "first", "key", "string", "bare", "colon", "value", "more", "done"}
InString == {"string", "bare", "colon", "value"}
JsonTypeOK ==
    /\ text \in Seq(Characters) /\ capacity \in Nat /\ storage \in {"move", "copy"}
    /\ input \in [0 .. Len(text) -> Characters \cup {NUL}]
    /\ position \in 0 .. Len(text)
    /\ memory \in [0 .. capacity - 1 -> Characters \cup {NUL, "slot", "?"}]
    /\ left \in Nat
    /\ Allocated \in Nat /\ DOMAIN slots = 0 .. Allocated
    /\ overflowed \in BOOLEAN
    /\ string \in [at : Nat, size : Nat, use : {"colon", "value"}]
    /\ pc \in Places
\* ... a string that is moved stays behind the latch, ...
MovedBehind ==
    storage = "move" =>
        /\ pc \in {"variant", "first", "key", "more"} => left <= position
        /\ pc \in {"string", "value"} => string.at + string.size < position
        /\ pc \in {"bare", "colon"} => string.at + string.size <= position
        /\ pc = "bare" => string.use = "colon"
\* ... and one that is copied, with its terminator, in the free zone.
Marked(m, r) == \A i \in 0 .. capacity - 1 : m[i] = "slot" <=> i >= r
CopiedBelow ==
    /\ Marked(memory, Right)
    /\ PoolLeft <= Right
    /\ pc \in {"colon", "value"} => ~overflowed
    /\ storage = "copy" /\ pc \in InString /\ ~overflowed =>
           string.at + string.size < Right
JsonInv == JsonTypeOK /\ UnreadInputStays /\ MovedBehind /\ CopiedBelow

-----------------------------------------------------------------------------
(* Lemmas about the operators                                                *)

\* The constants, and the characters the parser looks for.
LEMMA JsonConstants ==
  /\ SlotSize \in Nat /\ SlotSize > 0 /\ \A c \in Capacities : c \in Nat
  /\ NUL \notin Characters /\ "slot" \notin Characters
  /\ "?" # "slot" /\ NUL # "slot" /\ NUL # "?"
  /\ NUL \notin Special /\ NUL \notin KeyCharacters /\ NUL # Quote /\ NUL # Backslash
  BY SizesAssumption, CharactersAssumption DEF NUL, Special, Quote, Backslash, KeyCharacters

\* The room left of the slots depends on their number only.
LEMMA RightKept ==
  ASSUME DOMAIN slots' = DOMAIN slots, capacity' = capacity
  PROVE  Right' = Right /\ Allocated' = Allocated
  BY DEF Right, Allocated

LEMMA RightIsInt ==
  ASSUME JsonTypeOK
  PROVE  Right \in Int /\ PoolLeft \in Nat /\ capacity \in Nat
  <1>1. capacity \in Nat /\ Allocated \in Nat /\ SlotSize \in Nat /\ left \in Nat
    BY JsonConstants DEF JsonTypeOK
  <1>2. \A a, b, c \in Nat : a - b * c \in Int
    OBVIOUS
  <1> QED  BY <1>1, <1>2 DEF Right, PoolLeft

\* What the latch reads is a character, or the end.
LEMMA LatchReads ==
  ASSUME JsonTypeOK, UnreadInputStays
  PROVE  /\ Len(text) \in Nat /\ position \in Nat
         /\ Current \in Characters \cup {NUL}
         /\ Current # NUL =>
                /\ position + 1 \in 0 .. Len(text)
                /\ input[position + 1] \in Characters \cup {NUL}
                /\ input[position + 1] # NUL => position + 2 \in 0 .. Len(text)
  <1>1. Len(text) \in Nat /\ position \in 0 .. Len(text)
        /\ input \in [0 .. Len(text) -> Characters \cup {NUL}]
    BY DEF JsonTypeOK
  <1>2. input[Len(text)] = NUL
    BY <1>1 DEF UnreadInputStays
  <1>3. Current \in Characters \cup {NUL}
    BY <1>1 DEF Current
  <1>4. ASSUME Current # NUL PROVE position + 1 \in 0 .. Len(text)
    <2>1. position # Len(text)
      BY <1>2, <1>4 DEF Current
    <2> QED  BY <1>1, <2>1
  <1>5. ASSUME Current # NUL, input[position + 1] # NUL PROVE position + 2 \in 0 .. Len(text)
    <2>1. position + 1 # Len(text)
      BY <1>2, <1>5
    <2> QED  BY <1>1, <1>4, <1>5, <2>1
  <1> QED  BY <1>1, <1>3, <1>4, <1>5

\* A byte is written where it may be.
LEMMA ByteWritten ==
  ASSUME NEW n \in Int, NEW S, NEW m \in [0 .. n -> S], NEW at, NEW c \in S
  PROVE  /\ [m EXCEPT ![at] = c] \in [0 .. n -> S]
         /\ \A i \in 0 .. n : i # at => [m EXCEPT ![at] = c][i] = m[i]
         /\ \A i \in 0 .. n : [m EXCEPT ![at] = c][i] \in {m[i], c}
         /\ at \in 0 .. n => [m EXCEPT ![at] = c][at] = c
  OBVIOUS

LEMMA MarksKept ==
  ASSUME JsonTypeOK, NEW m \in [0 .. capacity - 1 -> Characters \cup {NUL, "slot", "?"}],
         NEW r \in Int, Marked(m, r), NEW at \in Nat, at < r, NEW c \in Characters \cup {NUL}
  PROVE  /\ [m EXCEPT ![at] = c] \in [0 .. capacity - 1 -> Characters \cup {NUL, "slot", "?"}]
         /\ Marked([m EXCEPT ![at] = c], r)
  <1>1. c # "slot" /\ capacity - 1 \in Int
    BY JsonConstants DEF JsonTypeOK
  <1>2. ASSUME NEW i \in 0 .. capacity - 1
        PROVE  [m EXCEPT ![at] = c][i] = "slot" <=> i >= r
    <2>1. CASE i = at
      BY <1>1, <2>1
    <2>2. CASE i # at
      BY <2>2 DEF Marked
    <2> QED  BY <2>1, <2>2
  <1>3. [m EXCEPT ![at] = c] \in [0 .. capacity - 1 -> Characters \cup {NUL, "slot", "?"}]
    OBVIOUS
  <1> QED  BY <1>2, <1>3 DEF Marked

\* What is written behind the latch leaves what it has yet to read.
LEMMA InputWritten ==
  ASSUME JsonTypeOK, UnreadInputStays, NEW at \in Nat, NEW c \in Characters \cup {NUL},
         text' = text, position' \in 0 .. Len(text), position' >= position,
         \/ input' = input
         \/ at < position' /\ input' = [input EXCEPT ![at] = c]
  PROVE  /\ input' \in [0 .. Len(text) -> Characters \cup {NUL}]
         /\ UnreadInputStays'
  <1>1. Len(text) \in Nat /\ position \in Nat /\ input \in [0 .. Len(text) -> Characters \cup {NUL}]
    BY DEF JsonTypeOK
  <1>2. input' \in [0 .. Len(text) -> Characters \cup {NUL}]
    BY <1>1
  <1>3. ASSUME NEW i \in position' .. Len(text)
        PROVE  input'[i] = IF i = Len(text) THEN NUL ELSE text[i + 1]
    <2>1. i \in position .. Len(text) /\ i \in 0 .. Len(text)
      BY <1>1
    <2>2. input[i] = IF i = Len(text) THEN NUL ELSE text[i + 1]
      BY <2>1 DEF UnreadInputStays
    <2>3. input'[i] = input[i]
      BY <1>1, <2>1
    <2> QED  BY <2>2, <2>3
  <1> QED  BY <1>2, <1>3 DEF UnreadInputStays

-----------------------------------------------------------------------------
(* What a step does that writes nothing, a byte, or a slot                   *)

\* A step that writes at most one byte, behind the latch or below the slots, and
\* adds no slot.
LEMMA StepWrites ==
  ASSUME JsonInv, NEW at \in Nat, NEW c \in Characters \cup {NUL},
         UNCHANGED <<text, capacity, storage>>, DOMAIN slots' = DOMAIN slots,
         position' \in 0 .. Len(text), position' >= position,
         \/ input' = input
         \/ at < position' /\ input' = [input EXCEPT ![at] = c],
         \/ memory' = memory
         \/ at < Right /\ memory' = [memory EXCEPT ![at] = c],
         left' \in Nat, overflowed' \in BOOLEAN, pc' \in Places,
         string' \in [at : Nat, size : Nat, use : {"colon", "value"}],
         MovedBehind',
         storage = "copy" => left' <= Right,
         pc' \in {"colon", "value"} => ~overflowed',
         storage = "copy" /\ pc' \in InString /\ ~overflowed' => string'.at + string'.size < Right
  PROVE  JsonInv'
  <1>0. JsonTypeOK /\ UnreadInputStays /\ CopiedBelow
    BY DEF JsonInv
  <1>1. Right' = Right /\ Allocated' = Allocated /\ Right \in Int /\ Len(text) \in Nat
        /\ position \in Nat
    BY <1>0, RightKept, RightIsInt, LatchReads
  <1>2. input' \in [0 .. Len(text) -> Characters \cup {NUL}] /\ UnreadInputStays'
    BY <1>0, InputWritten
  <1>3. /\ memory' \in [0 .. capacity - 1 -> Characters \cup {NUL, "slot", "?"}]
        /\ Marked(memory', Right)
    <2>1. /\ memory \in [0 .. capacity - 1 -> Characters \cup {NUL, "slot", "?"}]
          /\ Marked(memory, Right)
      BY <1>0 DEF JsonTypeOK, CopiedBelow
    <2>2. CASE memory' = memory
      BY <2>1, <2>2
    <2>3. CASE at < Right /\ memory' = [memory EXCEPT ![at] = c]
      <3> DEFINE m == memory
      <3>1. /\ m \in [0 .. capacity - 1 -> Characters \cup {NUL, "slot", "?"}]
            /\ Marked(m, Right)
        BY <2>1
      <3>2. memory' = [m EXCEPT ![at] = c]
        BY <2>3
      <3>3. JsonTypeOK /\ Right \in Int /\ at < Right
        BY <1>0, <1>1, <2>3
      <3> HIDE DEF m
      <3>4. /\ [m EXCEPT ![at] = c] \in [0 .. capacity - 1 -> Characters \cup {NUL, "slot", "?"}]
            /\ Marked([m EXCEPT ![at] = c], Right)
        BY <3>1, <3>3, MarksKept
      <3> QED  BY <3>2, <3>4, Zenon
    <2> QED  BY <2>2, <2>3
  <1>4. JsonTypeOK'
    BY <1>0, <1>1, <1>2, <1>3 DEF JsonTypeOK
  <1>5. CopiedBelow'
    <2>1. Marked(memory, Right)'
      BY <1>1, <1>3 DEF Marked
    <2>2. PoolLeft' <= Right'
      BY <1>0, <1>1 DEF PoolLeft, CopiedBelow, JsonTypeOK
    <2> QED  BY <1>1, <2>1, <2>2 DEF CopiedBelow
  <1> QED  BY <1>2, <1>4, <1>5 DEF JsonInv

\* ... of which those that write nothing are the simplest.
LEMMA StepMoves ==
  ASSUME JsonInv, UNCHANGED <<text, capacity, storage, input, memory, left>>,
         DOMAIN slots' = DOMAIN slots,
         position' \in 0 .. Len(text), position' >= position,
         overflowed' \in BOOLEAN, pc' \in Places,
         string' \in [at : Nat, size : Nat, use : {"colon", "value"}],
         MovedBehind',
         pc' \in {"colon", "value"} => ~overflowed',
         storage = "copy" /\ pc' \in InString /\ ~overflowed' => string'.at + string'.size < Right
  PROVE  JsonInv'
  <1>1. left' \in Nat /\ (storage = "copy" => left' <= Right)
    BY DEF JsonInv, JsonTypeOK, CopiedBelow, PoolLeft
  <1>2. 0 \in Nat /\ NUL \in Characters \cup {NUL}
    OBVIOUS
  <1> QED  BY <1>1, <1>2, StepWrites

\* What stops the deserializer, ...
LEMMA StepStops ==
  ASSUME JsonInv, UNCHANGED inputVars, pc' = "done",
         UNCHANGED <<input, memory, left, position>>, DOMAIN slots' = DOMAIN slots,
         overflowed' \in BOOLEAN, string' \in [at : Nat, size : Nat, use : {"colon", "value"}]
  PROVE  JsonInv'
  <1>1. position \in 0 .. Len(text) /\ position \in Int
    BY DEF JsonInv, JsonTypeOK
  <1>2. MovedBehind'
    BY DEF MovedBehind
  <1> QED  BY <1>1, <1>2, StepMoves DEF inputVars, Places, InString

LEMMA StepFails ==
  ASSUME JsonInv, UNCHANGED inputVars, NEW code, Fails(code)
  PROVE  JsonInv'
  BY StepStops DEF Fails, Stop, poolVars, JsonInv, JsonTypeOK

\* ... and what goes on to something that is not a string.
LEMMA StepOn ==
  ASSUME JsonInv, UNCHANGED inputVars, UNCHANGED <<input, memory, left, overflowed, string>>,
         DOMAIN slots' = DOMAIN slots, pc \in {"variant", "first", "key", "more"},
         pc' \in {"variant", "first", "key", "more"}, position' \in 0 .. Len(text),
         position' \in {position, position + 1}
  PROVE  JsonInv'
  <1>1. left \in Nat /\ position \in Nat
    BY DEF JsonInv, JsonTypeOK
  <1>2. position' >= position
    BY <1>1
  <1>3. MovedBehind'
    BY <1>1 DEF JsonInv, MovedBehind, inputVars
  <1>4. pc' \in Places /\ pc' \notin InString /\ pc' \notin {"colon", "value"}
    BY DEF Places, InString
  <1>5. overflowed' \in BOOLEAN /\ string' \in [at : Nat, size : Nat, use : {"colon", "value"}]
    BY DEF JsonInv, JsonTypeOK
  <1> QED  BY <1>2, <1>3, <1>4, <1>5, StepMoves DEF inputVars

\* A string begins where the strings end.
LEMMA StepString ==
  ASSUME JsonInv, UNCHANGED inputVars, NEW use \in {"colon", "value"}, StartString(use),
         pc \in {"variant", "first", "key", "more"}, position' \in 0 .. Len(text),
         \/ pc' = "string" /\ position' = position + 1
         \/ pc' = "bare" /\ position' = position /\ use = "colon"
  PROVE  JsonInv'
  <1>1. /\ string' = [at |-> left, size |-> 0, use |-> use] /\ left \in Nat /\ position \in Nat
        /\ overflowed' = (overflowed \/ (storage = "copy" /\ left >= Right))
        /\ UNCHANGED <<input, memory, left, slots>>
        /\ storage = "move" => left <= position
    BY DEF StartString, JsonInv, JsonTypeOK, MovedBehind
  <1>2. string' \in [at : Nat, size : Nat, use : {"colon", "value"}] /\ string'.at = left
        /\ string'.size = 0 /\ string'.use = use /\ overflowed' \in BOOLEAN
    BY <1>1
  <1>3. MovedBehind'
    BY <1>1, <1>2 DEF MovedBehind, inputVars
  <1>4. Right \in Int
    BY RightIsInt DEF JsonInv
  <1>5. storage = "copy" /\ ~overflowed' => string'.at + string'.size < Right
    <2> SUFFICES ASSUME storage = "copy", ~overflowed' PROVE left < Right
      BY <1>1, <1>2
    <2>1. ~(left >= Right)
      BY <1>1
    <2> QED  BY <1>1, <1>4, <2>1
  <1>6. pc' \in Places /\ pc' \notin {"colon", "value"} /\ position' >= position
    BY <1>1 DEF Places
  <1> QED  BY <1>1, <1>2, <1>3, <1>5, <1>6, StepMoves DEF inputVars

\* A character joins the string.
LEMMA StepAppends ==
  ASSUME JsonInv, UNCHANGED inputVars, pc \in {"string", "bare"},
         NEW c \in Characters, AppendChar(c), position' \in 0 .. Len(text),
         position' \in {position + 1, position + 2}
  PROVE  JsonInv'
  <1> DEFINE at == string.at + string.size
  <1>1. string \in [at : Nat, size : Nat, use : {"colon", "value"}] /\ position \in Nat
    BY DEF JsonInv, JsonTypeOK
  <1>2. at \in Nat
    BY <1>1
  <1>3. /\ input' = IF storage = "move" THEN [input EXCEPT ![at] = c] ELSE input
        /\ memory' = IF storage = "copy" /\ Fits(at) THEN [memory EXCEPT ![at] = c] ELSE memory
        /\ overflowed' = (overflowed \/ ~Fits(at))
        /\ string' = IF Fits(at) THEN [string EXCEPT !.size = string.size + 1] ELSE string
        /\ UNCHANGED <<left, slots, pc>>
    BY DEF AppendChar
  <1>4. Right \in Int /\ storage \in {"move", "copy"} /\ overflowed \in BOOLEAN
    BY RightIsInt DEF JsonInv, JsonTypeOK
  <1>5. storage = "move" => at < position' /\ Fits(at)
    BY <1>1 DEF JsonInv, MovedBehind, Fits
  <1>6. storage = "copy" /\ Fits(at) => at + 1 < Right /\ at < Right
    BY <1>2, <1>4 DEF Fits
  <1>7. /\ string' \in [at : Nat, size : Nat, use : {"colon", "value"}]
        /\ string'.at = string.at /\ string'.use = string.use
        /\ string'.size = IF Fits(at) THEN string.size + 1 ELSE string.size
    BY <1>1, <1>3
  <1>8. Fits(at) => string'.at + string'.size = at + 1
    BY <1>1, <1>7
  <1>9. MovedBehind'
    <2> SUFFICES ASSUME storage = "move"
                 PROVE  /\ pc = "string" => at + 1 < position'
                        /\ pc = "bare" => at + 1 <= position' /\ string.use = "colon"
      BY <1>3, <1>5, <1>7, <1>8 DEF MovedBehind, inputVars
    <2>1. /\ pc = "string" => at < position
          /\ pc = "bare" => at <= position /\ string.use = "colon"
      BY DEF JsonInv, MovedBehind
    <2> HIDE DEF at
    <2> QED  BY <1>1, <1>2, <2>1
  <1>10. storage = "copy" /\ ~overflowed' => string'.at + string'.size < Right
    BY <1>3, <1>6, <1>8
  <1>11. pc' \in Places /\ pc' \notin {"colon", "value"} /\ position' >= position
    BY <1>1, <1>3 DEF Places
  <1>12. left' \in Nat /\ (storage = "copy" => left' <= Right) /\ overflowed' \in BOOLEAN
    BY <1>3, <1>4 DEF JsonInv, JsonTypeOK, CopiedBelow, PoolLeft
  <1>13. /\ input' = input \/ (at < position' /\ input' = [input EXCEPT ![at] = c])
         /\ memory' = memory \/ (at < Right /\ memory' = [memory EXCEPT ![at] = c])
    BY <1>3, <1>5, <1>6
  <1>14. c \in Characters \cup {NUL}
    OBVIOUS
  <1> HIDE DEF at
  <1> QED  BY <1>2, <1>3, <1>7, <1>9, <1>10, <1>11, <1>12, <1>13, <1>14, StepWrites DEF inputVars

\* The string ends.
LEMMA StepEnds ==
  ASSUME JsonInv, UNCHANGED inputVars, NEW next \in 0 .. Len(text), EndString(next),
         \/ pc = "string" /\ next = position + 1
         \/ pc = "bare" /\ next = position
  PROVE  JsonInv'
  <1>1. CASE overflowed
    BY <1>1, StepFails DEF EndString
  <1>2. CASE ~overflowed
    <2>1. /\ position' = next /\ pc' = string.use
          /\ UNCHANGED <<input, memory, left, slots, overflowed, string>>
      BY <1>2 DEF EndString, poolVars
    <2>2. string \in [at : Nat, size : Nat, use : {"colon", "value"}] /\ position \in Nat
      BY DEF JsonInv, JsonTypeOK
    <2>3. position' >= position /\ pc' \in {"colon", "value"} /\ pc' \in Places /\ pc \in InString
      BY <2>1, <2>2 DEF Places, InString
    <2>4. MovedBehind'
      <3> SUFFICES ASSUME storage = "move"
                   PROVE  /\ string.use = "value" => string.at + string.size < next
                          /\ string.use = "colon" => string.at + string.size <= next
        BY <2>1, <2>3 DEF MovedBehind, inputVars
      <3>1. /\ pc = "string" => string.at + string.size < position
            /\ pc = "bare" => string.at + string.size <= position /\ string.use = "colon"
        BY DEF JsonInv, MovedBehind
      <3> QED  BY <2>2, <3>1
    <2>5. storage = "copy" => string.at + string.size < Right
      BY <1>2, <2>3 DEF JsonInv, CopiedBelow
    <2>6. storage = "copy" => string'.at + string'.size < Right
      BY <2>1, <2>5, Zenon
    <2>7. string' \in [at : Nat, size : Nat, use : {"colon", "value"}] /\ position' \in 0 .. Len(text)
      BY <2>1, <2>2
    <2>8. overflowed \in BOOLEAN
      BY DEF JsonInv, JsonTypeOK
    <2>9. ~overflowed' /\ overflowed' \in BOOLEAN
      BY <1>2, <2>1, <2>8, Zenon
    <2>10. DOMAIN slots' = DOMAIN slots
      BY <2>1
    <2> QED  BY <2>1, <2>3, <2>4, <2>6, <2>7, <2>9, <2>10, StepMoves DEF inputVars
  <1> QED  BY <1>1, <1>2 DEF JsonInv, JsonTypeOK

\* A string of a known size, its terminator written, is saved: where the strings
\* end then, and the bytes of the input and of the pool.
LEMMA StringSaved ==
  ASSUME JsonInv, pc \in {"colon", "value"}
  PROVE  /\ string.at + string.size \in Nat
         /\ SavedEnd \in {left, string.at + string.size + 1}
         /\ storage = "move" => SavedEnd = string.at + string.size + 1
                                /\ string.at + string.size <= position
         /\ storage = "copy" => string.at + string.size + 1 <= Right /\ left <= Right
  <1> DEFINE at == string.at + string.size
  <1>1. string \in [at : Nat, size : Nat, use : {"colon", "value"}] /\ position \in Nat
        /\ left \in Nat /\ Right \in Int
    BY RightIsInt DEF JsonInv, JsonTypeOK
  <1>2. at \in Nat
    BY <1>1
  <1>3. SavedEnd \in {left, at + 1} /\ (storage = "move" => SavedEnd = at + 1)
    BY DEF SavedEnd, Stored
  <1>4. storage = "move" => (pc = "value" => at < position) /\ (pc = "colon" => at <= position)
    BY DEF JsonInv, MovedBehind
  <1>5. storage = "copy" => at < Right /\ left <= Right
    BY DEF JsonInv, CopiedBelow, InString, PoolLeft
  <1> HIDE DEF at
  <1>6. storage = "move" => at <= position
    BY <1>1, <1>2, <1>4
  <1>7. storage = "copy" => at + 1 <= Right /\ left <= Right
    BY <1>1, <1>2, <1>5
  <1> QED  BY <1>2, <1>3, <1>6, <1>7 DEF at

\* A slot is added below those there are, where the strings leave room.
LEMMA SlotAdded ==
  ASSUME JsonTypeOK, UNCHANGED inputVars, NEW key, NEW end \in Nat, NEW old,
         old \in [0 .. capacity - 1 -> Characters \cup {NUL, "slot", "?"}],
         Marked(old, Right), AddSlot(key, old, end)
  PROVE  /\ memory' \in [0 .. capacity - 1 -> Characters \cup {NUL, "slot", "?"}]
         /\ Marked(memory, Right)'
         /\ Allocated' \in Nat /\ DOMAIN slots' = 0 .. Allocated'
         /\ overflowed' \in BOOLEAN /\ Right' \in Int
         /\ \/ pc' = "done" /\ Right' = Right
            \/ pc' = "variant" /\ end <= Right'
  <1>1. /\ capacity \in Nat /\ Allocated \in Nat /\ Right \in Int /\ SlotSize \in Nat
        /\ capacity' = capacity /\ SlotSize > 0 /\ DOMAIN slots = 0 .. Allocated
    BY RightIsInt, JsonConstants DEF JsonTypeOK, inputVars
  <1>2. CASE end + SlotSize <= Right
    <2>1. /\ overflowed' = FALSE /\ slots' = WithSlot(slots, Last(open), key)
          /\ memory' = WithSlotBytes(old) /\ pc' = "variant"
      BY <1>2 DEF AddSlot
    <2>2. DOMAIN slots' = 0 .. Allocated + 1
      BY <2>1 DEF WithSlot
    <2>3. Allocated' = Allocated + 1
      <3>1. Cardinality(0 .. Allocated + 1) = Allocated + 2
        BY <1>1, FS_Interval
      <3>2. Allocated' = Cardinality(DOMAIN slots') - 1
        BY DEF Allocated
      <3>3. Cardinality(DOMAIN slots') = Allocated + 2
        BY <2>2, <3>1, Zenon
      <3> QED  BY <1>1, <3>2, <3>3
    <2>4. Right' = Right - SlotSize
      <3>1. Right = capacity - SlotSize * Allocated /\ Right' = capacity - SlotSize * (Allocated + 1)
        BY <1>1, <2>3, Zenon DEF Right
      <3>2. \A a, b, c \in Nat : a - b * (c + 1) = (a - b * c) - b
        OBVIOUS
      <3>3. capacity - SlotSize * (Allocated + 1) = (capacity - SlotSize * Allocated) - SlotSize
        BY <1>1, <3>2
      <3> QED  BY <3>1, <3>3, Zenon
    <2>5. end <= Right'
      BY <1>1, <1>2, <2>4
    <2>6. ASSUME NEW i \in 0 .. capacity - 1
          PROVE  /\ memory'[i] \in Characters \cup {NUL, "slot", "?"}
                 /\ memory'[i] = "slot" <=> i >= Right'
      <3>1. memory'[i] = IF i \in Right - SlotSize .. Right - 1 THEN "slot" ELSE old[i]
        BY <2>1 DEF WithSlotBytes
      <3>2. old[i] = "slot" <=> i >= Right
        BY DEF Marked
      <3>3. i \in Int
        OBVIOUS
      <3>4. i >= Right - SlotSize <=> (i \in Right - SlotSize .. Right - 1 \/ i >= Right)
        BY <1>1, <3>3
      <3>5. memory'[i] = "slot" <=> i >= Right - SlotSize
        BY <3>1, <3>2, <3>4
      <3> QED  BY <2>4, <3>1, <3>5
    <2>7. memory' = [i \in 0 .. capacity - 1 |-> memory'[i]]
      BY <2>1 DEF WithSlotBytes
    <2>8. memory' \in [0 .. capacity - 1 -> Characters \cup {NUL, "slot", "?"}]
      BY <2>6, <2>7
    <2>9. Marked(memory, Right)'
      BY <1>1, <2>6 DEF Marked
    <2>10. Right' \in Int
      BY <1>1, <2>4
    <2>11. Allocated' \in Nat /\ DOMAIN slots' = 0 .. Allocated'
      BY <1>1, <2>2, <2>3
    <2> QED  BY <2>1, <2>5, <2>8, <2>9, <2>10, <2>11
  <1>3. CASE ~(end + SlotSize <= Right)
    <2>1. /\ overflowed' = TRUE /\ memory' = old /\ slots' = slots /\ pc' = "done"
      BY <1>3 DEF AddSlot, Stop
    <2>2. Right' = Right /\ Allocated' = Allocated
      BY <1>1, <2>1, RightKept
    <2>3. Marked(memory, Right)'
      BY <1>1, <2>1, <2>2 DEF Marked
    <2> QED  BY <1>1, <2>1, <2>2, <2>3
  <1> QED  BY <1>2, <1>3

\* A step that adds a slot, having written what `old' has of the pool, and at most
\* one byte of the input behind the latch.
LEMMA StepAddsSlot ==
  ASSUME JsonInv, UNCHANGED inputVars, NEW key, NEW end \in Nat, NEW old,
         old \in [0 .. capacity - 1 -> Characters \cup {NUL, "slot", "?"}],
         Marked(old, Right), AddSlot(key, old, end), string' = string,
         NEW at \in Nat, NEW c \in Characters \cup {NUL},
         \/ input' = input
         \/ at < position' /\ input' = [input EXCEPT ![at] = c],
         position' \in 0 .. Len(text), position' >= position, left' \in Nat,
         storage = "copy" => left' <= end /\ end <= Right,
         storage = "move" => left' <= position'
  PROVE  JsonInv'
  <1>1. JsonTypeOK /\ UnreadInputStays /\ CopiedBelow /\ Right \in Int
    BY RightIsInt DEF JsonInv
  <1>2. /\ memory' \in [0 .. capacity - 1 -> Characters \cup {NUL, "slot", "?"}]
        /\ Marked(memory, Right)'
        /\ Allocated' \in Nat /\ DOMAIN slots' = 0 .. Allocated'
        /\ overflowed' \in BOOLEAN /\ Right' \in Int
        /\ \/ pc' = "done" /\ Right' = Right
           \/ pc' = "variant" /\ end <= Right'
    BY <1>1, SlotAdded
  <1>3. input' \in [0 .. Len(text) -> Characters \cup {NUL}] /\ UnreadInputStays'
    BY <1>1, InputWritten DEF inputVars
  <1>4. pc' \in {"variant", "done"} /\ pc' \in Places /\ pc' \notin InString
    BY <1>2 DEF Places, InString
  <1>5. JsonTypeOK'
    BY <1>1, <1>2, <1>3, <1>4 DEF JsonTypeOK, inputVars
  <1>6. MovedBehind'
    BY <1>4 DEF MovedBehind, inputVars
  <1>7. PoolLeft' <= Right'
    <2>1. PoolLeft' = IF storage = "copy" THEN left' ELSE 0
      BY DEF PoolLeft, inputVars
    <2>2. 0 <= Right
      BY <1>1 DEF CopiedBelow, PoolLeft, JsonTypeOK
    <2> QED  BY <1>1, <1>2, <2>1, <2>2
  <1>8. CopiedBelow'
    BY <1>2, <1>4, <1>7 DEF CopiedBelow
  <1> QED  BY <1>3, <1>5, <1>6, <1>8 DEF JsonInv

\* addElement
LEMMA StepAddsElement ==
  ASSUME JsonInv, UNCHANGED inputVars, AddElement, pc \in {"first", "more"},
         position' \in 0 .. Len(text), position' \in {position, position + 1}
  PROVE  JsonInv'
  <1>1. /\ AddSlot(-1, memory, PoolLeft) /\ string' = string /\ input' = input /\ left' = left
    BY DEF AddElement
  <1>2. /\ memory \in [0 .. capacity - 1 -> Characters \cup {NUL, "slot", "?"}]
        /\ Marked(memory, Right) /\ left \in Nat /\ position \in Nat /\ PoolLeft <= Right
        /\ storage = "move" => left <= position
    BY DEF JsonInv, JsonTypeOK, CopiedBelow, MovedBehind
  <1>3. PICK old : old = memory
    OBVIOUS
  <1>4. PICK end \in Nat : end = PoolLeft
    BY RightIsInt DEF JsonInv
  <1>5. AddSlot(-1, old, end)
    BY <1>1, <1>3, <1>4
  <1>6. position' >= position /\ (storage = "move" => left' <= position')
    BY <1>1, <1>2
  <1>7. storage = "copy" => left' <= end /\ end <= Right
    BY <1>1, <1>2, <1>4 DEF PoolLeft
  <1>8. 0 \in Nat /\ NUL \in Characters \cup {NUL}
    OBVIOUS
  <1> QED  BY <1>1, <1>2, <1>3, <1>5, <1>6, <1>7, <1>8, StepAddsSlot

\* A string that has ended, with its terminator.
LEMMA TerminatorWritten ==
  ASSUME JsonInv, pc \in {"colon", "value"}
  PROVE  /\ TerminatedMemory \in [0 .. capacity - 1 -> Characters \cup {NUL, "slot", "?"}]
         /\ Marked(TerminatedMemory, Right)
  <1>1. /\ memory \in [0 .. capacity - 1 -> Characters \cup {NUL, "slot", "?"}]
        /\ Marked(memory, Right) /\ JsonTypeOK
    BY DEF JsonInv, JsonTypeOK, CopiedBelow
  <1>2. CASE storage = "copy"
    <2>1. PICK at \in Nat : at = string.at + string.size
      BY StringSaved
    <2>2. Right \in Int /\ at + 1 <= Right
      BY <1>1, <1>2, <2>1, StringSaved, RightIsInt
    <2>3. at < Right
      BY <2>2
    <2>4. PICK m : m = memory
      OBVIOUS
    <2>5. TerminatedMemory = [m EXCEPT ![at] = NUL]
      BY <1>2, <2>1, <2>4 DEF TerminatedMemory, Terminated
    <2>6. /\ m \in [0 .. capacity - 1 -> Characters \cup {NUL, "slot", "?"}]
          /\ Marked(m, Right)
      BY <1>1, <2>4
    <2>7. NUL \in Characters \cup {NUL}
      OBVIOUS
    <2>8. /\ [m EXCEPT ![at] = NUL] \in [0 .. capacity - 1 -> Characters \cup {NUL, "slot", "?"}]
          /\ Marked([m EXCEPT ![at] = NUL], Right)
      BY <1>1, <2>2, <2>3, <2>6, <2>7, MarksKept
    <2> QED  BY <2>5, <2>8, Zenon
  <1>3. CASE storage # "copy"
    BY <1>1, <1>3 DEF TerminatedMemory
  <1> QED  BY <1>2, <1>3

\* The bytes of the input, when a string has ended.
LEMMA InputTerminated ==
  ASSUME JsonInv, pc \in {"colon", "value"}, NEW at, at = string.at + string.size,
         input' = TerminatedInput, NEW next, position' = next,
         storage = "move" => at < next
  PROVE  \/ input' = input
         \/ at < position' /\ input' = [input EXCEPT ![at] = NUL]
  BY DEF TerminatedInput, Terminated

-----------------------------------------------------------------------------
(* The invariant                                                             *)

\* Where everything begins.
LEMMA JsonBegins == JsonInit => JsonInv
  <1> SUFFICES ASSUME NEW t \in Seq(Characters), Begin(t)
               PROVE  JsonInv
    BY DEF JsonInit
  <1>1. Len(t) \in Nat /\ text = t /\ position = 0 /\ left = 0
    BY DEF Begin
  <1>2. overflowed = FALSE
    BY DEF Begin
  <1>3. Allocated = 0 /\ DOMAIN slots = 0 .. 0
    <2>1. DOMAIN slots = {0} /\ Cardinality({0}) = 1
      BY FS_Singleton DEF Begin
    <2> QED  BY <2>1 DEF Allocated
  <1>4. capacity \in Nat /\ Right = capacity /\ SlotSize \in Nat
    BY <1>3, JsonConstants DEF Begin, Right
  <1>5. input \in [0 .. Len(t) -> Characters \cup {NUL}]
    <2>1. ASSUME NEW i \in 0 .. Len(t), i # Len(t) PROVE t[i + 1] \in Characters
      BY <1>1, <2>1, ElementOfSeq
    <2>2. input = [i \in 0 .. Len(t) |-> IF i = Len(t) THEN NUL ELSE t[i + 1]]
      BY DEF Begin
    <2> QED  BY <2>1, <2>2
  <1>6. UnreadInputStays
    BY <1>1 DEF Begin, UnreadInputStays
  <1>7. memory = [i \in 0 .. capacity - 1 |-> "?"]
    BY DEF Begin
  <1>8. Marked(memory, Right)
    BY <1>4, <1>7, JsonConstants DEF Marked
  <1>9. memory \in [0 .. capacity - 1 -> Characters \cup {NUL, "slot", "?"}]
    BY <1>7
  <1>10. string \in [at : Nat, size : Nat, use : {"colon", "value"}] /\ pc = "variant"
        /\ storage \in {"move", "copy"}
    BY DEF Begin
  <1>11. JsonTypeOK
    <2>1. text \in Seq(Characters) /\ position \in 0 .. Len(text) /\ left \in Nat /\ Allocated \in Nat
      BY <1>1, <1>3
    <2>2. overflowed \in BOOLEAN /\ pc \in Places
      BY <1>2, <1>10 DEF Places
    <2>3. input \in [0 .. Len(text) -> Characters \cup {NUL}] /\ DOMAIN slots = 0 .. Allocated
      BY <1>1, <1>3, <1>5, Zenon
    <2> QED  BY <1>4, <1>9, <1>10, <2>1, <2>2, <2>3 DEF JsonTypeOK
  <1>12. MovedBehind
    BY <1>1, <1>10 DEF MovedBehind
  <1>13. CopiedBelow
    BY <1>1, <1>2, <1>4, <1>8, <1>10 DEF CopiedBelow, PoolLeft, InString
  <1> QED  BY <1>6, <1>11, <1>12, <1>13 DEF JsonInv

\* One lemma for each action.
LEMMA ParseVariantKeeps == ASSUME JsonInv, UNCHANGED inputVars, ParseVariant PROVE JsonInv'
  <1>1. pc = "variant" /\ position \in 0 .. Len(text) /\ overflowed \in BOOLEAN
        /\ string \in [at : Nat, size : Nat, use : {"colon", "value"}]
    BY DEF ParseVariant, JsonInv, JsonTypeOK
  <1>2. Current # NUL => position + 1 \in 0 .. Len(text)
    BY LatchReads DEF JsonInv
  <1>3. CASE Ended(IF position = 0 THEN "EmptyInput" ELSE "IncompleteInput")
    BY <1>3, StepFails DEF Ended
  <1>4. CASE /\ Current \in {"{", "["}
             /\ slots' = Emptied(IF Current = "{" THEN "object" ELSE "array")
             /\ IF Len(open) = NestingLimit
                THEN Stop("TooDeep") /\ UNCHANGED <<position, open>>
                ELSE /\ open' = Append(open, variant)
                     /\ position' = position + 1
                     /\ pc' = "first"
                     /\ UNCHANGED error
             /\ UNCHANGED <<input, memory, left, overflowed, string, variant>>
    <2>1. DOMAIN slots' = DOMAIN slots
      BY <1>4 DEF Emptied
    <2>2. Current # NUL
      BY <1>4 DEF NUL
    <2>3. CASE Len(open) = NestingLimit
      BY <1>1, <1>4, <2>1, <2>3, StepStops DEF Stop
    <2>4. CASE Len(open) # NestingLimit
      BY <1>1, <1>2, <1>4, <2>1, <2>2, <2>4, StepOn
    <2> QED  BY <2>3, <2>4
  <1>5. CASE /\ Current = Quote
             /\ StartString("value")
             /\ position' = position + 1
             /\ pc' = "string"
    BY <1>1, <1>2, <1>5, JsonConstants, StepString
  <1>6. CASE /\ Current \in {"1", "null"}
             /\ slots' = IF Current = "1" THEN [slots EXCEPT ![variant].type = "number"] ELSE slots
             /\ position' = position + 1
             /\ pc' = "more"
             /\ UNCHANGED <<input, memory, left, overflowed, string, open, variant, error>>
    <2>1. DOMAIN slots' = DOMAIN slots
      BY <1>6
    <2>2. Current # NUL
      BY <1>6 DEF NUL
    <2> QED  BY <1>1, <1>2, <1>6, <2>1, <2>2, StepOn
  <1>7. CASE Fails("InvalidInput")
    BY <1>7, StepFails
  <1> QED  BY <1>3, <1>4, <1>5, <1>6, <1>7 DEF ParseVariant

\* The end of a collection, wherever it may come.
LEMMA CloseKeeps ==
  ASSUME JsonInv, UNCHANGED inputVars, Close, pc \in {"first", "more"} PROVE JsonInv'
  <1>1. /\ UNCHANGED <<input, memory, left, slots, overflowed, string>>
        /\ position' = position + 1 /\ pc' = "more"
    BY DEF Close, poolVars
  <1>2. Current # NUL
    BY DEF Close, Closing, NUL
  <1>3. position' \in 0 .. Len(text)
    BY <1>1, <1>2, LatchReads DEF JsonInv
  <1> QED  BY <1>1, <1>3, StepOn

LEMMA ParseFirstKeeps == ASSUME JsonInv, UNCHANGED inputVars, ParseFirst PROVE JsonInv'
  <1>1. pc = "first" /\ position \in 0 .. Len(text)
    BY DEF ParseFirst, JsonInv, JsonTypeOK
  <1>2. CASE Ended("IncompleteInput")
    BY <1>2, StepFails DEF Ended
  <1>3. CASE Close
    BY <1>1, <1>3, CloseKeeps
  <1>4. CASE position' = position /\ AddElement
    BY <1>1, <1>4, StepAddsElement
  <1>5. CASE position' = position /\ pc' = "key" /\ UNCHANGED <<poolVars, string, open, variant, error>>
    BY <1>1, <1>5, StepOn DEF poolVars
  <1> QED  BY <1>2, <1>3, <1>4, <1>5 DEF ParseFirst

LEMMA ParseKeyKeeps == ASSUME JsonInv, UNCHANGED inputVars, ParseKey PROVE JsonInv'
  <1>1. pc = "key" /\ position \in 0 .. Len(text) /\ overflowed \in BOOLEAN
    BY DEF ParseKey, JsonInv, JsonTypeOK
  <1>2. CASE Ended("IncompleteInput")
    BY <1>2, StepFails DEF Ended
  <1>3. CASE /\ Current = Quote /\ StartString("colon") /\ position' = position + 1 /\ pc' = "string"
    <2>1. position' \in 0 .. Len(text)
      BY <1>3, JsonConstants, LatchReads DEF JsonInv
    <2> QED  BY <1>1, <1>3, <2>1, StepString
  <1>4. CASE StartString("colon") /\ pc' = "bare" /\ UNCHANGED <<position, error>>
    BY <1>1, <1>4, StepString
  <1>5. CASE StartString("colon") /\ Stop("InvalidInput") /\ UNCHANGED position
    <2>1. /\ UNCHANGED <<input, memory, left, position, slots>> /\ pc' = "done"
          /\ overflowed' = (overflowed \/ (storage = "copy" /\ left >= Right))
          /\ string' = [at |-> left, size |-> 0, use |-> "colon"]
      BY <1>5 DEF StartString, Stop
    <2>2. string' \in [at : Nat, size : Nat, use : {"colon", "value"}]
      BY <2>1 DEF JsonInv, JsonTypeOK
    <2>3. overflowed' \in BOOLEAN
      BY <2>1
    <2> QED  BY <2>1, <2>2, <2>3, StepStops
  <1> QED  BY <1>2, <1>3, <1>4, <1>5 DEF ParseKey

LEMMA ParseStringKeeps == ASSUME JsonInv, UNCHANGED inputVars, ParseString PROVE JsonInv'
  <1>1. pc = "string" /\ position \in Nat
    BY DEF ParseString, JsonInv, JsonTypeOK
  <1>2. /\ Current \in Characters \cup {NUL}
        /\ Current # NUL =>
               /\ position + 1 \in 0 .. Len(text)
               /\ input[position + 1] \in Characters \cup {NUL}
               /\ input[position + 1] # NUL => position + 2 \in 0 .. Len(text)
    BY LatchReads DEF JsonInv
  <1>3. CASE \E code : Fails(code)
    BY <1>3, StepFails
  <1>4. CASE /\ Current \notin {NUL, Quote, Backslash}
             /\ AppendChar(Current)
             /\ position' = position + 1
    <2>1. PICK c \in Characters : c = Current
      BY <1>2, <1>4
    <2>2. AppendChar(c)
      BY <1>4, <2>1
    <2> QED  BY <1>1, <1>2, <1>4, <2>2, StepAppends
  <1>5. CASE /\ Current = Backslash
             /\ input[position + 1] \in Special
             /\ AppendChar(input[position + 1])
             /\ position' = position + 2
    <2>1. Current # NUL /\ input[position + 1] # NUL
      BY <1>5, JsonConstants
    <2>2. PICK c \in Characters : c = input[position + 1]
      BY <1>2, <2>1
    <2>3. AppendChar(c)
      BY <1>5, <2>2
    <2> QED  BY <1>1, <1>2, <1>5, <2>1, <2>3, StepAppends
  <1>6. CASE Current = Quote /\ EndString(position + 1)
    <2>1. PICK next \in 0 .. Len(text) : next = position + 1
      BY <1>2, <1>6, JsonConstants
    <2>2. EndString(next)
      BY <1>6, <2>1
    <2> QED  BY <1>1, <2>1, <2>2, StepEnds
  <1> QED  BY <1>3, <1>4, <1>5, <1>6 DEF ParseString, Ended

LEMMA ParseBareKeyKeeps == ASSUME JsonInv, UNCHANGED inputVars, ParseBareKey PROVE JsonInv'
  <1>1. pc = "bare" /\ position \in Nat /\ position \in 0 .. Len(text)
    BY DEF ParseBareKey, JsonInv, JsonTypeOK
  <1>2. CASE Current \in KeyCharacters /\ AppendChar(Current) /\ position' = position + 1
    <2>1. Current # NUL /\ Current \in Characters /\ position' \in 0 .. Len(text)
      BY <1>2, JsonConstants, LatchReads DEF JsonInv
    <2>2. PICK c \in Characters : c = Current
      BY <2>1
    <2>3. AppendChar(c)
      BY <1>2, <2>2
    <2> QED  BY <1>1, <1>2, <2>1, <2>3, StepAppends
  <1>3. CASE EndString(position)
    <2>1. PICK next \in 0 .. Len(text) : next = position
      BY <1>1
    <2>2. EndString(next)
      BY <1>3, <2>1
    <2> QED  BY <1>1, <2>1, <2>2, StepEnds
  <1> QED  BY <1>2, <1>3 DEF ParseBareKey

LEMMA SetStringKeeps == ASSUME JsonInv, UNCHANGED inputVars, SetString PROVE JsonInv'
  <1>1. /\ pc = "value" /\ left' = SavedEnd /\ input' = TerminatedInput /\ memory' = TerminatedMemory
        /\ pc' = "more" /\ UNCHANGED <<overflowed, position, string>>
        /\ DOMAIN slots' = DOMAIN slots
    BY DEF SetString
  <1>2. /\ position \in Nat /\ position \in 0 .. Len(text) /\ overflowed \in BOOLEAN
        /\ string \in [at : Nat, size : Nat, use : {"colon", "value"}]
        /\ left \in Nat /\ Right \in Int
    BY RightIsInt DEF JsonInv, JsonTypeOK
  <1>3. PICK at \in Nat : at = string.at + string.size
    BY <1>1, StringSaved
  <1>4. storage = "move" => at < position
    BY <1>1, <1>3 DEF JsonInv, MovedBehind
  <1>5. /\ SavedEnd \in {left, at + 1}
        /\ storage = "move" => SavedEnd = at + 1
        /\ storage = "copy" => at + 1 <= Right /\ left <= Right
    BY <1>1, <1>3, StringSaved
  <1>6. input' = input \/ (at < position' /\ input' = [input EXCEPT ![at] = NUL])
    BY <1>1, <1>3, <1>4, InputTerminated
  <1>7. memory' = memory \/ (at < Right /\ memory' = [memory EXCEPT ![at] = NUL])
    <2>1. storage = "copy" => at < Right
      BY <1>2, <1>5
    <2> QED  BY <1>1, <1>3, <2>1 DEF TerminatedMemory, Terminated
  <1>8. /\ left' \in Nat
        /\ storage = "copy" => left' <= Right
        /\ storage = "move" => left' <= position'
    BY <1>1, <1>2, <1>4, <1>5
  <1>9. MovedBehind'
    BY <1>1, <1>8 DEF MovedBehind, inputVars
  <1>10. pc' \in Places /\ pc' \notin InString /\ pc' \notin {"colon", "value"}
    BY <1>1 DEF Places, InString
  <1>11. /\ NUL \in Characters \cup {NUL} /\ position' \in 0 .. Len(text) /\ position' >= position
         /\ string' \in [at : Nat, size : Nat, use : {"colon", "value"}]
    BY <1>1, <1>2
  <1>12. overflowed' \in BOOLEAN
    BY <1>1, <1>2
  <1> QED  BY <1>1, <1>6, <1>7, <1>8, <1>9, <1>10, <1>11, <1>12, StepWrites DEF inputVars

LEMMA ParseColonKeeps == ASSUME JsonInv, UNCHANGED inputVars, ParseColon PROVE JsonInv'
  <1>1. pc = "colon"
    BY DEF ParseColon
  <1>2. CASE \E code : Fails(code)
    BY <1>2, StepFails
  <1>3. CASE /\ Current = ":"
             /\ position' = position + 1
             /\ input' = TerminatedInput
             /\ IF Member(Last(open), Parsed) = {} THEN AddMember
                ELSE /\ variant' = Min(Member(Last(open), Parsed))
                     /\ left' = IF storage = "move" THEN string.at + string.size ELSE left
                     /\ memory' = TerminatedMemory
                     /\ pc' = "variant"
                     /\ UNCHANGED <<slots, overflowed, error>>
             /\ UNCHANGED <<string, open>>
    <2>1. /\ position \in Nat /\ overflowed \in BOOLEAN /\ storage \in {"move", "copy"}
          /\ string \in [at : Nat, size : Nat, use : {"colon", "value"}]
          /\ left \in Nat /\ Right \in Int
      BY RightIsInt DEF JsonInv, JsonTypeOK
    <2>2. position' \in 0 .. Len(text) /\ position' >= position
      <3>1. Current # NUL
        BY <1>3 DEF NUL
      <3> QED  BY <1>3, <2>1, <3>1, LatchReads DEF JsonInv
    <2>3. PICK at \in Nat : at = string.at + string.size
      BY <1>1, StringSaved
    <2>4. PICK end : end = SavedEnd
      OBVIOUS
    <2>5. /\ end \in {left, at + 1}
          /\ storage = "move" => end = at + 1 /\ at <= position
          /\ storage = "copy" => at + 1 <= Right /\ left <= Right
      BY <1>1, <2>3, <2>4, StringSaved
    <2>6. end \in Nat /\ (storage = "copy" => end <= Right)
      BY <2>1, <2>5
    <2>7. storage = "move" => at < position + 1 /\ end <= position + 1 /\ at <= position + 1
      BY <2>1, <2>5
    <2>8. input' = input \/ (at < position' /\ input' = [input EXCEPT ![at] = NUL])
      BY <1>1, <1>3, <2>3, <2>7, InputTerminated
    <2>9. NUL \in Characters \cup {NUL}
      OBVIOUS
    <2>10. CASE AddMember
      <3>1. AddSlot(SavedAt, TerminatedMemory, IF storage = "copy" THEN SavedEnd ELSE 0) /\ left' = end
        BY <2>4, <2>10 DEF AddMember
      <3>2. PICK key : key = SavedAt
        OBVIOUS
      <3>3. PICK old : old = TerminatedMemory
        OBVIOUS
      <3>4. PICK bound \in Nat : bound = IF storage = "copy" THEN end ELSE 0
        BY <2>6
      <3>5. AddSlot(key, old, bound)
        BY <2>4, <3>1, <3>2, <3>3, <3>4, Zenon
      <3>6. /\ old \in [0 .. capacity - 1 -> Characters \cup {NUL, "slot", "?"}]
            /\ Marked(old, Right)
        BY <1>1, <3>3, TerminatorWritten
      <3>7. /\ left' \in Nat
            /\ storage = "copy" => left' <= bound /\ bound <= Right
            /\ storage = "move" => left' <= position'
        BY <1>3, <2>6, <2>7, <3>1, <3>4
      <3>8. string' = string
        BY <1>3
      <3> QED  BY <2>2, <2>8, <2>9, <3>5, <3>6, <3>7, <3>8, StepAddsSlot
    <2>11. CASE /\ left' = IF storage = "move" THEN string.at + string.size ELSE left
                /\ memory' = TerminatedMemory
                /\ pc' = "variant"
                /\ UNCHANGED <<slots, overflowed>>
      <3>1. /\ left' \in Nat
            /\ storage = "copy" => left' <= Right
            /\ storage = "move" => left' <= position'
        BY <1>3, <2>1, <2>3, <2>5, <2>7, <2>11
      <3>2. memory' = memory \/ (at < Right /\ memory' = [memory EXCEPT ![at] = NUL])
        <4>1. storage = "copy" => at < Right
          BY <2>1, <2>5
        <4> QED  BY <2>3, <2>11, <4>1 DEF TerminatedMemory, Terminated
      <3>3. MovedBehind'
        BY <2>11, <3>1 DEF MovedBehind, inputVars
      <3>4. pc' \in Places /\ pc' \notin InString /\ pc' \notin {"colon", "value"}
        BY <2>11 DEF Places, InString
      <3>5. string' \in [at : Nat, size : Nat, use : {"colon", "value"}] /\ DOMAIN slots' = DOMAIN slots
        BY <1>3, <2>1, <2>11
      <3>6. overflowed' \in BOOLEAN
        BY <2>1, <2>11
      <3> QED  BY <2>2, <2>8, <2>9, <3>1, <3>2, <3>3, <3>4, <3>5, <3>6, StepWrites DEF inputVars
    <2> QED  BY <1>3, <2>10, <2>11
  <1> QED  BY <1>2, <1>3 DEF ParseColon, Ended

LEMMA ParseMoreKeeps == ASSUME JsonInv, UNCHANGED inputVars, ParseMore PROVE JsonInv'
  <1>1. pc = "more" /\ position \in 0 .. Len(text)
    BY DEF ParseMore, JsonInv, JsonTypeOK
  <1>2. CASE \E code : Fails(code)
    BY <1>2, StepFails
  <1>3. CASE Close
    BY <1>1, <1>3, CloseKeeps
  <1>4. CASE /\ Current = ","
             /\ position' = position + 1
             /\ IF InArray THEN AddElement
                ELSE pc' = "key" /\ UNCHANGED <<poolVars, string, open, variant, error>>
    <2>1. Current # NUL
      BY <1>4 DEF NUL
    <2>2. position' \in 0 .. Len(text)
      BY <1>4, <2>1, LatchReads DEF JsonInv
    <2>3. CASE AddElement
      BY <1>1, <1>4, <2>2, <2>3, StepAddsElement
    <2>4. CASE pc' = "key" /\ UNCHANGED <<poolVars, string, open, variant, error>>
      BY <1>1, <1>4, <2>2, <2>4, StepOn DEF poolVars
    <2> QED  BY <1>4, <2>3, <2>4
  <1> QED  BY <1>2, <1>3, <1>4 DEF ParseMore, Ended

LEMMA JsonKept == ASSUME JsonInv, [JsonNext]_jsonVars PROVE JsonInv'
  <1>1. CASE UNCHANGED jsonVars
    <2>1. Right' = Right /\ Allocated' = Allocated /\ PoolLeft' = PoolLeft
      BY <1>1 DEF Right, Allocated, PoolLeft, jsonVars, inputVars, poolVars
    <2>2. UNCHANGED <<text, capacity, storage, input, memory, left, slots, overflowed, position,
                      string, pc>>
      BY <1>1 DEF jsonVars, inputVars, poolVars
    <2>3. JsonTypeOK'
      BY <2>1, <2>2 DEF JsonInv, JsonTypeOK
    <2>4. UnreadInputStays' /\ MovedBehind'
      BY <2>2 DEF JsonInv, UnreadInputStays, MovedBehind
    <2>5. CopiedBelow'
      BY <2>1, <2>2 DEF JsonInv, CopiedBelow, Marked
    <2> QED  BY <2>3, <2>4, <2>5 DEF JsonInv
  <1>2. CASE JsonNext
    BY <1>2, ParseVariantKeeps, ParseFirstKeeps, ParseKeyKeeps, ParseStringKeeps, ParseBareKeyKeeps,
       SetStringKeeps, ParseColonKeeps, ParseMoreKeeps DEF JsonNext
  <1> QED  BY <1>1, <1>2

LEMMA AlwaysJsonInv == JsonSpec => []JsonInv
  <1>1. JsonInv /\ [JsonNext]_jsonVars => JsonInv'
    BY JsonKept
  <1> QED  BY JsonBegins, <1>1, PTL DEF JsonSpec

-----------------------------------------------------------------------------
(* What follows from it                                                      *)

\* Whatever the text is, and however keys, values and escapes follow one another in
\* it, StringMover puts no string where the latch has yet to read: what parse gets
\* is the text.
THEOREM InputReadAsSent == JsonSpec => []UnreadInputStays
  <1>1. JsonInv => UnreadInputStays
    BY DEF JsonInv
  <1> QED  BY AlwaysJsonInv, <1>1, PTL

\* Whatever the text and the pool's size are, the strings that StringCopier and
\* save() put at the pool's beginning and the variants that allocRight puts at its
\* end never share a byte.
THEOREM PoolNeverCollides == JsonSpec => []ZonesApart
  <1>1. JsonInv => ZonesApart
    <2> SUFFICES ASSUME JsonInv PROVE ZonesApart
      OBVIOUS
    <2>1. /\ Right \in Int /\ PoolLeft \in Nat /\ capacity \in Nat
          /\ Marked(memory, Right) /\ PoolLeft <= Right /\ 0 <= SlotSize * Allocated
      BY RightIsInt, JsonConstants DEF JsonInv, CopiedBelow, JsonTypeOK
    <2>2. Right <= capacity
      <3>1. \A a, b \in Int : 0 <= b => a - b <= a
        OBVIOUS
      <3>2. SlotSize * Allocated \in Int
        BY JsonConstants DEF JsonInv, JsonTypeOK
      <3> QED  BY <2>1, <3>1, <3>2 DEF Right
    <2>3. ASSUME NEW i \in Right .. capacity - 1 PROVE memory[i] = "slot"
      <3>1. i \in 0 .. capacity - 1 /\ i >= Right
        BY <2>1
      <3> QED  BY <2>1, <3>1 DEF Marked
    <2>4. ASSUME NEW i \in 0 .. PoolLeft - 1 PROVE memory[i] # "slot"
      <3>1. i \in 0 .. capacity - 1 /\ ~(i >= Right)
        BY <2>1, <2>2
      <3> QED  BY <2>1, <3>1 DEF Marked
    <2> QED  BY <2>1, <2>3, <2>4 DEF ZonesApart
  <1> QED  BY AlwaysJsonInv, <1>1, PTL

-----------------------------------------------------------------------------
(* Parsing ends                                                              *)

\* A step reads on, or goes on from one place to another.
WithoutReading == {<<"first", "variant">>, <<"first", "key">>, <<"key", "bare">>,
                   <<"bare", "colon">>, <<"bare", "value">>, <<"value", "more">>}
Moves ==
    /\ pc # "done"
    /\ \/ pc' = "done"
       \/ position' \in {position + 1, position + 2} /\ pc' # "done"
       \/ position' = position /\ <<pc, pc'>> \in WithoutReading

\* addSlot goes on to the slot's variant, or fails.
LEMMA AddSlotGoesOn ==
  ASSUME NEW key, NEW old, NEW end, AddSlot(key, old, end)
  PROVE  pc' \in {"variant", "done"}
  BY DEF AddSlot, Stop

LEMMA FailsStops == ASSUME NEW code, Fails(code) PROVE pc' = "done"
  BY DEF Fails, Stop

\* Every action reads on, goes on, or ends the parsing.
LEMMA EveryStepMoves == ASSUME JsonInv, JsonNext PROVE Moves
  <1>s. string.use \in {"colon", "value"}
    BY DEF JsonInv, JsonTypeOK
  <1>1. CASE ParseVariant
    BY <1>1, FailsStops DEF ParseVariant, Ended, Stop, Moves
  <1>2. CASE ParseFirst
    BY <1>2, FailsStops, AddSlotGoesOn DEF ParseFirst, Ended, Close, AddElement, Moves, WithoutReading
  <1>3. CASE ParseKey
    BY <1>3, FailsStops DEF ParseKey, Ended, Stop, Moves, WithoutReading
  <1>4. CASE ParseString
    BY <1>4, <1>s, FailsStops DEF ParseString, Ended, AppendChar, EndString, Moves
  <1>5. CASE ParseBareKey
    BY <1>5, <1>s, FailsStops DEF ParseBareKey, AppendChar, EndString, Moves, WithoutReading
  <1>6. CASE SetString
    BY <1>6 DEF SetString, Moves, WithoutReading
  <1>7. CASE ParseColon
    BY <1>7, FailsStops, AddSlotGoesOn DEF ParseColon, Ended, AddMember, Moves
  <1>8. CASE ParseMore
    BY <1>8, FailsStops, AddSlotGoesOn DEF ParseMore, Ended, Close, AddElement, Moves
  <1> QED  BY <1>1, <1>2, <1>3, <1>4, <1>5, <1>6, <1>7, <1>8 DEF JsonNext

\* So a step without reading goes down in rank, and any step in what remains.
LEMMA RankDecreases ==
  /\ \A p \in Places : Rank[p] \in 0 .. 4
  /\ \A w \in WithoutReading : Rank[w[2]] < Rank[w[1]]
  BY DEF Rank, Places, WithoutReading

LEMMA MovesRunOut ==
  ASSUME JsonInv, JsonInv', Moves, text' = text
  PROVE  Remaining' < Remaining /\ Remaining \in Nat
  <1>1. PICK n \in Nat : n = Len(text)
    BY LatchReads DEF JsonInv
  <1>2. PICK a \in 0 .. n : a = position
    BY <1>1 DEF JsonInv, JsonTypeOK
  <1>3. PICK b \in 0 .. n : b = position'
    BY <1>1 DEF JsonInv, JsonTypeOK
  <1>4. PICK p \in Places : p = pc /\ p # "done"
    BY DEF JsonInv, JsonTypeOK, Moves
  <1>5. PICK q \in Places : q = pc'
    BY DEF JsonInv, JsonTypeOK
  <1>6. PICK r \in 0 .. 4 : r = Rank[p]
    BY RankDecreases
  <1>7. PICK s \in 0 .. 4 : s = Rank[q]
    BY RankDecreases
  <1>8. Remaining = 5 * (n - a) + r + 1
    BY <1>1, <1>2, <1>4, <1>6 DEF Remaining
  <1>9. Remaining' = IF q = "done" THEN 0 ELSE 5 * (n - b) + s + 1
    BY <1>1, <1>3, <1>5, <1>7 DEF Remaining
  <1>10. \/ q = "done"
         \/ b \in {a + 1, a + 2}
         \/ b = a /\ <<p, q>> \in WithoutReading
    BY <1>2, <1>3, <1>4, <1>5 DEF Moves
  <1>11. <<p, q>> \in WithoutReading => s < r
    BY <1>6, <1>7, RankDecreases
  <1>12. q # "done" => 5 * (n - b) + s + 1 < 5 * (n - a) + r + 1
    BY <1>10, <1>11
  <1>13. 0 < 5 * (n - a) + r + 1 /\ 5 * (n - a) + r + 1 \in Nat
    OBVIOUS
  <1> QED  BY <1>8, <1>9, <1>12, <1>13

\* Whatever the text and the pool's size are, deserializeJson returns: each step of the
\* parser brings it nearer to its end, by a measure that cannot fall below 0.
THEOREM ParsingEnds == JsonSpec => StepsRunOut
  <1>1. JsonInv /\ [JsonNext]_jsonVars => [Remaining' < Remaining /\ Remaining \in Nat]_jsonVars
    <2> SUFFICES ASSUME JsonInv, JsonNext PROVE Remaining' < Remaining /\ Remaining \in Nat
      OBVIOUS
    <2> QED  BY JsonKept, EveryStepMoves, MovesRunOut DEF JsonNext, inputVars
  <1> QED  BY AlwaysJsonInv, <1>1, PTL DEF JsonSpec, StepsRunOut

-----------------------------------------------------------------------------
(* Slots and their types                                                     *)

\* A set of numbers has a least element: 0 .. n is the smaller set the smaller n is,
\* and strict inclusion of finite sets is well-founded.
LEMMA LeastIn ==
  ASSUME NEW S \in SUBSET Nat, S # {}
  PROVE  Min(S) \in S /\ \A y \in S : Min(S) <= y
  <1> DEFINE T == {0 .. n : n \in S}
  <1>1. ASSUME NEW n \in Nat PROVE 0 .. n \in FiniteSubsetsOf(Nat)
    BY FS_Interval DEF FiniteSubsetsOf
  <1>2. T \subseteq FiniteSubsetsOf(Nat) /\ T # {}
    BY <1>1
  <1>3. PICK X \in T : \A Y \in T : ~ (<<Y, X>> \in StrictSubsetOrdering(Nat))
    BY <1>2, FS_StrictSubsetOrderingWellFounded, WFMin, Zenon
  <1>4. PICK x \in S : X = 0 .. x
    OBVIOUS
  <1>5. ASSUME NEW y \in S, y < x PROVE FALSE
    <2>1. 0 .. y \subseteq 0 .. x /\ x \in 0 .. x /\ x \notin 0 .. y
      BY <1>5
    <2>2. <<0 .. y, 0 .. x>> \in StrictSubsetOrdering(Nat)
      BY <2>1 DEF StrictSubsetOrdering
    <2> QED  BY <1>3, <1>4, <2>2
  <1>6. \A y \in S : x <= y
    BY <1>5
  <1> QED  BY <1>6 DEF Min

\* A slot's fields, and where a collection is open.
Types == {"null", "number", "string", "array", "object"}
SlotRecords == [key : Nat \cup {-1}, next : Nat, type : Types, at : Nat, size : Nat,
                head : Nat, tail : Nat]
InKey == pc \in {"first", "key", "bare", "colon"} \/ (pc = "string" /\ string.use = "colon")
SlotsTyped ==
    /\ slots \in [0 .. Allocated -> SlotRecords]
    /\ variant \in 0 .. Allocated
    /\ open \in Seq(0 .. Allocated)
    /\ InKey => open # << >>
    /\ pc = "bare" => string.use = "colon"

\* What an action puts into a slot is again a slot's record.
LEMMA EmptySlotTyped ==
  ASSUME NEW key \in Nat \cup {-1}
  PROVE  [EmptySlot EXCEPT !.key = key] \in SlotRecords
  BY DEF EmptySlot, SlotRecords, Types

LEMMA SlotChanged ==
  ASSUME NEW r \in SlotRecords, NEW t \in Types, NEW a \in Nat, NEW z \in Nat
  PROVE  /\ [r EXCEPT !.type = t] \in SlotRecords
         /\ [r EXCEPT !.type = t, !.at = a, !.size = z] \in SlotRecords
         /\ [r EXCEPT !.type = t, !.head = a, !.tail = z] \in SlotRecords
         /\ [r EXCEPT !.head = a, !.tail = z] \in SlotRecords
         /\ [r EXCEPT !.tail = a] \in SlotRecords
         /\ [r EXCEPT !.next = a] \in SlotRecords
  <1>1. [r EXCEPT !.type = t] \in SlotRecords /\ [r EXCEPT !.tail = a] \in SlotRecords
    BY DEF SlotRecords
  <1>2. [r EXCEPT !.type = t, !.at = a, !.size = z] \in SlotRecords
    BY DEF SlotRecords
  <1>3. [r EXCEPT !.type = t, !.head = a, !.tail = z] \in SlotRecords
    BY DEF SlotRecords
  <1>4. [r EXCEPT !.head = a, !.tail = z] \in SlotRecords
    BY DEF SlotRecords
  <1>5. [r EXCEPT !.next = a] \in SlotRecords
    BY DEF SlotRecords
  <1> QED  BY <1>1, <1>2, <1>3, <1>4, <1>5

\* addSlot, with the slot linked into its collection.
LEMMA WithSlotTyped ==
  ASSUME JsonTypeOK, slots \in [0 .. Allocated -> SlotRecords], NEW c \in 0 .. Allocated,
         NEW key \in Nat \cup {-1}
  PROVE  WithSlot(slots, c, key) \in [0 .. Allocated + 1 -> SlotRecords]
  <1>1. PICK n \in Nat : n = Allocated + 1
    BY DEF JsonTypeOK
  <1> DEFINE w == WithSlot(slots, c, key)
  <1>2. w = [i \in 0 .. n |-> w[i]]
    BY <1>1 DEF WithSlot
  <1>3. ASSUME NEW i \in 0 .. n PROVE w[i] \in SlotRecords
    <2>1. w[i] = IF i = n THEN [EmptySlot EXCEPT !.key = key]
            ELSE IF i = c /\ slots[c].tail = 0 THEN [slots[i] EXCEPT !.head = n, !.tail = n]
            ELSE IF i = c THEN [slots[i] EXCEPT !.tail = n]
            ELSE IF i = slots[c].tail /\ i # 0 THEN [slots[i] EXCEPT !.next = n]
            ELSE slots[i]
      BY <1>1 DEF WithSlot
    <2>2. CASE i = n
      BY <2>1, <2>2, EmptySlotTyped
    <2>3. CASE i # n
      <3>1. i \in 0 .. Allocated
        BY <1>1, <2>3 DEF JsonTypeOK
      <3>2. PICK r \in SlotRecords : r = slots[i]
        BY <3>1
      <3>3. "null" \in Types
        BY DEF Types
      <3>4. /\ [r EXCEPT !.head = n, !.tail = n] \in SlotRecords
            /\ [r EXCEPT !.tail = n] \in SlotRecords
            /\ [r EXCEPT !.next = n] \in SlotRecords
        BY <3>3, SlotChanged
      <3> HIDE DEF w
      <3> QED  BY <2>1, <2>3, <3>2, <3>4
    <2> QED  BY <2>2, <2>3
  <1> HIDE DEF w
  <1> QED  BY <1>1, <1>2, <1>3 DEF w

\* getMember gives a slot of the pool.
LEMMA MemberTyped ==
  ASSUME JsonTypeOK, NEW c, NEW key, Member(c, key) # {}
  PROVE  Min(Member(c, key)) \in 0 .. Allocated
  <1>1. Member(c, key) \in SUBSET (0 .. Allocated) /\ 0 .. Allocated \in SUBSET Nat
    BY DEF Member, JsonTypeOK
  <1>2. Member(c, key) \in SUBSET Nat
    BY <1>1
  <1> QED  BY <1>1, <1>2, LeastIn

\* save() finds a copy below the strings' end, or puts the string there.
LEMMA SavedSomewhere ==
  ASSUME JsonTypeOK
  PROVE  /\ SavedAt \in Nat
         /\ Stored => SavedAt \in Copies(Parsed)
  <1>1. string.at \in Nat
    BY DEF JsonTypeOK
  <1>2. ASSUME Stored PROVE SavedAt \in Copies(Parsed) /\ SavedAt \in Nat
    <2>1. Copies(Parsed) \in SUBSET (0 .. left - 1) /\ Copies(Parsed) # {}
      BY <1>2 DEF Copies, Stored
    <2>2. 0 .. left - 1 \in SUBSET Nat
      OBVIOUS
    <2>3. Copies(Parsed) \in SUBSET Nat
      BY <2>1, <2>2
    <2>4. Min(Copies(Parsed)) \in Copies(Parsed)
      BY <2>1, <2>3, LeastIn
    <2> QED  BY <1>2, <2>3, <2>4 DEF SavedAt
  <1>3. ~Stored => SavedAt = string.at
    BY DEF SavedAt
  <1> QED  BY <1>1, <1>2, <1>3

\* What a step does to the slots, ...
Added(key) == open # << >> /\ slots' = WithSlot(slots, Last(open), key) /\ variant' = Allocated + 1
NewMember == pc = "colon" /\ input' = TerminatedInput /\ AddMember /\ Added(SavedAt)
SlotStep ==
    \/ slots' = slots
    \/ slots' = Emptied("array") \/ slots' = Emptied("object")
    \/ slots' = [slots EXCEPT ![variant].type = "number"]
    \/ SetString
    \/ Added(-1) \/ NewMember
\* ... and to what is being parsed.
OpenStep ==
    /\ Added(-1) \/ Added(SavedAt) \/ variant' \in 0 .. Allocated
    /\ open' \in Seq(0 .. Allocated)
    /\ InKey' => open' # << >>
    /\ pc' = "bare" => string'.use = "colon"

\* The operators that the actions are made of, one by one; then the actions.
LEMMA AddSlotAdds ==
  ASSUME NEW key, NEW old, NEW end, AddSlot(key, old, end), open # << >>
  PROVE  \/ pc' = "variant" /\ Added(key)
         \/ pc' = "done" /\ slots' = slots /\ variant' = variant
  BY DEF AddSlot, Stop, Added

LEMMA FailsKeeps ==
  ASSUME NEW code, Fails(code)
  PROVE  /\ pc' = "done" /\ error' = code
         /\ UNCHANGED <<slots, variant, open, string, left, input, memory, position>>
  BY DEF Fails, Stop, poolVars

LEMMA FailsSteps ==
  ASSUME SlotsTyped, NEW code, Fails(code)
  PROVE  SlotStep /\ OpenStep
  BY FailsKeeps DEF SlotsTyped, SlotStep, OpenStep, InKey

LEMMA FrontOfSeq ==
  ASSUME NEW S, NEW s \in Seq(S), s # << >>
  PROVE  Front(s) \in Seq(S) /\ Last(s) \in S /\ Len(Front(s)) = Len(s) - 1 /\ Len(s) > 0
  <1>1. Len(s) \in Nat /\ Len(s) > 0 /\ \A i \in 1 .. Len(s) : s[i] \in S
    BY EmptySeq
  <1>2. Front(s) = [i \in 1 .. Len(s) - 1 |-> s[i]]
    BY DEF Front
  <1> QED  BY <1>1, <1>2 DEF Last

LEMMA AddElementSteps ==
  ASSUME SlotsTyped, AddElement, open # << >>
  PROVE  SlotStep /\ OpenStep
  <1>1. /\ \/ pc' = "variant" /\ Added(-1)
           \/ pc' = "done" /\ slots' = slots /\ variant' = variant
        /\ open' = open
    <2>1. AddSlot(-1, memory, PoolLeft) /\ open' = open
      BY DEF AddElement
    <2> QED  BY <2>1, AddSlotAdds
  <1> QED  BY <1>1 DEF SlotsTyped, SlotStep, OpenStep, InKey

LEMMA CloseSteps ==
  ASSUME SlotsTyped, Close, open # << >>
  PROVE  SlotStep /\ OpenStep
  <1>1. open' = Front(open) /\ slots' = slots /\ variant' = variant /\ pc' = "more"
    BY DEF Close, poolVars
  <1> QED  BY <1>1, FrontOfSeq DEF SlotsTyped, SlotStep, OpenStep, InKey

LEMMA StringSteps ==
  ASSUME SlotsTyped, NEW use, StartString(use)
  PROVE  SlotStep /\ UNCHANGED <<variant, open>> /\ string'.use = use
  BY DEF SlotStep, StartString

LEMMA AppendSteps ==
  ASSUME JsonInv, NEW c, AppendChar(c)
  PROVE  slots' = slots /\ UNCHANGED <<variant, open, pc>> /\ string'.use = string.use
  <1>1. string \in [at : Nat, size : Nat, use : {"colon", "value"}]
    BY DEF JsonInv, JsonTypeOK
  <1> QED  BY <1>1 DEF AppendChar

LEMMA EndSteps ==
  ASSUME JsonInv, SlotsTyped, NEW next, EndString(next), pc \in {"string", "bare"}
  PROVE  SlotStep /\ OpenStep
  <1>0. string.use \in {"colon", "value"}
    BY DEF JsonInv, JsonTypeOK
  <1>1. CASE overflowed
    BY <1>1, FailsSteps DEF EndString
  <1>2. CASE ~overflowed
    BY <1>0, <1>2 DEF EndString, poolVars, SlotsTyped, SlotStep, OpenStep, InKey
  <1> QED  BY <1>1, <1>2 DEF JsonInv, JsonTypeOK

LEMMA EveryStep == ASSUME JsonInv, SlotsTyped, JsonNext PROVE SlotStep /\ OpenStep
  <1>1. CASE ParseVariant
    <2>1. CASE \E code : Fails(code)
      BY <2>1, FailsSteps
    <2>2. CASE /\ slots' = Emptied("array") \/ slots' = Emptied("object")
               /\ \/ open' = open /\ pc' = "done"
                  \/ open' = Append(open, variant) /\ pc' = "first"
               /\ variant' = variant
      <3>1. Append(open, variant) \in Seq(0 .. Allocated) /\ Append(open, variant) # << >>
        BY DEF SlotsTyped
      <3> QED  BY <2>2, <3>1 DEF SlotStep, OpenStep, InKey, SlotsTyped
    <2>3. CASE StartString("value") /\ pc' = "string"
      BY <2>3, StringSteps DEF SlotsTyped, OpenStep, InKey
    <2>4. CASE /\ slots' = [slots EXCEPT ![variant].type = "number"] \/ slots' = slots
               /\ pc' = "more" /\ UNCHANGED <<open, variant>>
      BY <2>4 DEF SlotsTyped, SlotStep, OpenStep, InKey
    <2> QED  BY <1>1, <2>1, <2>2, <2>3, <2>4 DEF ParseVariant, Ended, Stop, Emptied
  <1>2. CASE ParseFirst
    <2>0. pc = "first" /\ open # << >>
      BY <1>2 DEF ParseFirst, SlotsTyped, InKey
    <2>1. CASE Ended("IncompleteInput")
      BY <2>1, FailsSteps DEF Ended
    <2>2. CASE Close
      BY <2>0, <2>2, CloseSteps
    <2>3. CASE AddElement
      BY <2>0, <2>3, AddElementSteps
    <2>4. CASE pc' = "key" /\ UNCHANGED <<poolVars, string, open, variant, error>>
      BY <2>0, <2>4 DEF poolVars, SlotsTyped, SlotStep, OpenStep, InKey
    <2> QED  BY <1>2, <2>1, <2>2, <2>3, <2>4 DEF ParseFirst
  <1>3. CASE ParseKey
    <2>0. pc = "key" /\ open # << >>
      BY <1>3 DEF ParseKey, SlotsTyped, InKey
    <2>1. CASE Ended("IncompleteInput")
      BY <2>1, FailsSteps DEF Ended
    <2>2. CASE StartString("colon") /\ pc' \in {"string", "bare", "done"}
      BY <2>0, <2>2, StringSteps DEF SlotsTyped, OpenStep, InKey
    <2> QED  BY <1>3, <2>1, <2>2 DEF ParseKey, Stop
  <1>4. CASE ParseString
    <2>0. pc = "string"
      BY <1>4 DEF ParseString
    <2>1. CASE \E code : Fails(code)
      BY <2>1, FailsSteps
    <2>2. CASE \E c : AppendChar(c)
      BY <2>0, <2>2, AppendSteps DEF SlotsTyped, SlotStep, OpenStep, InKey
    <2>3. CASE EndString(position + 1)
      BY <2>0, <2>3, EndSteps
    <2> QED  BY <1>4, <2>1, <2>2, <2>3 DEF ParseString, Ended
  <1>5. CASE ParseBareKey
    <2>0. pc = "bare"
      BY <1>5 DEF ParseBareKey
    <2>2. CASE \E c : AppendChar(c)
      BY <2>0, <2>2, AppendSteps DEF SlotsTyped, SlotStep, OpenStep, InKey
    <2>3. CASE EndString(position)
      BY <2>0, <2>3, EndSteps
    <2> QED  BY <1>5, <2>2, <2>3 DEF ParseBareKey
  <1>6. CASE SetString
    <2>1. pc' = "more" /\ UNCHANGED <<open, variant>>
      BY <1>6 DEF SetString
    <2> QED  BY <1>6, <2>1 DEF SlotsTyped, SlotStep, OpenStep, InKey
  <1>7. CASE ParseColon
    <2>0. pc = "colon" /\ open # << >>
      BY <1>7 DEF ParseColon, SlotsTyped, InKey
    <2>1. CASE \E code : Fails(code)
      BY <2>1, FailsSteps
    <2>2. CASE AddMember /\ input' = TerminatedInput /\ open' = open
      <3>1. \/ pc' = "variant" /\ Added(SavedAt)
            \/ pc' = "done" /\ slots' = slots /\ variant' = variant
        BY <2>0, <2>2, AddSlotAdds DEF AddMember
      <3> QED  BY <2>0, <2>2, <3>1 DEF SlotsTyped, SlotStep, OpenStep, InKey, NewMember
    <2>3. CASE /\ Member(Last(open), Parsed) # {}
               /\ variant' = Min(Member(Last(open), Parsed))
               /\ pc' = "variant" /\ slots' = slots /\ open' = open
      <3>1. variant' \in 0 .. Allocated
        BY <2>3, MemberTyped DEF JsonInv
      <3> QED  BY <2>3, <3>1 DEF SlotsTyped, SlotStep, OpenStep, InKey
    <2> QED  BY <1>7, <2>1, <2>2, <2>3 DEF ParseColon, Ended
  <1>8. CASE ParseMore
    <2>0. pc = "more"
      BY <1>8 DEF ParseMore
    <2>1. CASE \E code : Fails(code)
      BY <2>1, FailsSteps
    <2>2. CASE open # << >> /\ Close
      BY <2>2, CloseSteps
    <2>3. CASE open # << >> /\ AddElement
      BY <2>3, AddElementSteps
    <2>4. CASE open # << >> /\ pc' = "key" /\ UNCHANGED <<poolVars, string, open, variant, error>>
      BY <2>4 DEF poolVars, SlotsTyped, SlotStep, OpenStep, InKey
    <2> QED  BY <1>8, <2>1, <2>2, <2>3, <2>4 DEF ParseMore, Ended
  <1> QED  BY <1>1, <1>2, <1>3, <1>4, <1>5, <1>6, <1>7, <1>8 DEF JsonNext

\* A slot that is added is the last one, and the only one.
LEMMA AddedOne ==
  ASSUME JsonTypeOK, NEW c, NEW key, slots' = WithSlot(slots, c, key)
  PROVE  Allocated' = Allocated + 1 /\ DOMAIN slots' = 0 .. Allocated + 1
  <1>1. DOMAIN slots' = 0 .. Allocated + 1 /\ Allocated \in Nat
    BY DEF WithSlot, JsonTypeOK
  <1>2. Cardinality(0 .. Allocated + 1) = Allocated + 2
    BY <1>1, FS_Interval
  <1>3. Allocated' = Cardinality(DOMAIN slots') - 1
    BY DEF Allocated
  <1>4. Cardinality(DOMAIN slots') = Allocated + 2
    BY <1>1, <1>2, Zenon
  <1> QED  BY <1>1, <1>3, <1>4

\* The number of slots.
LEMMA AllocatedKept ==
  ASSUME JsonTypeOK, slots \in [0 .. Allocated -> SlotRecords], variant \in 0 .. Allocated, SlotStep
  PROVE  \/ Allocated' = Allocated /\ DOMAIN slots' = DOMAIN slots
         \/ Allocated' = Allocated + 1 /\ (Added(-1) \/ Added(SavedAt))
  <1>1. CASE Added(-1) \/ Added(SavedAt)
    BY <1>1, AddedOne DEF Added
  <1>2. CASE DOMAIN slots' = DOMAIN slots
    BY <1>2 DEF Allocated
  <1> QED  BY <1>1, <1>2 DEF SlotStep, Emptied, SetString, NewMember

\* Every step keeps the slots' types.
LEMMA SlotsStayTyped ==
  ASSUME JsonInv, SlotsTyped, SlotStep, OpenStep
  PROVE  SlotsTyped'
  <1>0. JsonTypeOK /\ slots \in [0 .. Allocated -> SlotRecords] /\ variant \in 0 .. Allocated
        /\ Allocated \in Nat
    BY DEF JsonInv, SlotsTyped, JsonTypeOK
  <1>1. CASE \E key \in {-1, SavedAt} : Added(key)
    <2>1. PICK key \in {-1, SavedAt} : Added(key)
      BY <1>1
    <2>2. key \in Nat \cup {-1}
      BY <1>0, SavedSomewhere
    <2>3. slots' = WithSlot(slots, Last(open), key) /\ variant' = Allocated + 1 /\ open # << >>
      BY <2>1 DEF Added
    <2>4. Last(open) \in 0 .. Allocated
      BY <2>3, FrontOfSeq DEF SlotsTyped
    <2>5. slots' \in [0 .. Allocated + 1 -> SlotRecords] /\ Allocated' = Allocated + 1
      BY <1>0, <2>2, <2>3, <2>4, WithSlotTyped, AddedOne
    <2>6. variant' \in 0 .. Allocated + 1
      BY <1>0, <2>3
    <2>7. open' \in Seq(0 .. Allocated + 1)
      <3>1. 0 .. Allocated \subseteq 0 .. Allocated + 1 /\ open' \in Seq(0 .. Allocated)
        BY <1>0 DEF OpenStep
      <3> QED  BY <3>1, SeqMonotonic
    <2>8. Allocated' = Allocated + 1
      BY <2>5
    <2>9. slots' \in [0 .. Allocated' -> SlotRecords] /\ variant' \in 0 .. Allocated'
          /\ open' \in Seq(0 .. Allocated')
      BY <2>5, <2>6, <2>7, <2>8, Zenon
    <2> QED  BY <2>9 DEF SlotsTyped, OpenStep
  <1>2. CASE ~ \E key \in {-1, SavedAt} : Added(key)
    <2>1. Allocated' = Allocated /\ variant' \in 0 .. Allocated /\ open' \in Seq(0 .. Allocated)
      BY <1>0, <1>2, AllocatedKept DEF OpenStep
    <2>2. slots' \in [0 .. Allocated -> SlotRecords]
      <3>1. PICK r \in SlotRecords : r = slots[variant]
        BY <1>0
      <3>2. ASSUME NEW r2 \in SlotRecords, slots' = [slots EXCEPT ![variant] = r2]
            PROVE  slots' \in [0 .. Allocated -> SlotRecords]
        BY <1>0, <3>2
      <3>3. CASE slots' = slots
        BY <1>0, <3>3
      <3>4. CASE \E t \in {"array", "object"} : slots' = Emptied(t)
        <4>1. PICK t \in {"array", "object"} : slots' = Emptied(t)
          BY <3>4
        <4>2. slots' = [slots EXCEPT ![variant] = [r EXCEPT !.type = t, !.head = 0, !.tail = 0]]
          BY <1>0, <3>1, <4>1 DEF Emptied
        <4>3. t \in Types /\ 0 \in Nat
          BY DEF Types
        <4>4. [r EXCEPT !.type = t, !.head = 0, !.tail = 0] \in SlotRecords
          BY <4>3, SlotChanged
        <4> QED  BY <3>2, <4>2, <4>4
      <3>5. CASE slots' = [slots EXCEPT ![variant].type = "number"]
        <4>2. slots' = [slots EXCEPT ![variant] = [r EXCEPT !.type = "number"]]
          BY <1>0, <3>1, <3>5
        <4>3. "number" \in Types /\ 0 \in Nat
          BY DEF Types
        <4>4. [r EXCEPT !.type = "number"] \in SlotRecords
          BY <4>3, SlotChanged
        <4> QED  BY <3>2, <4>2, <4>4
      <3>6. CASE SetString
        <4>1. PICK a \in Nat : a = SavedAt
          BY <1>0, SavedSomewhere
        <4>2. PICK z \in Nat : z = string.size
          BY <1>0 DEF JsonTypeOK
        <4>3. slots' = [slots EXCEPT ![variant] = [r EXCEPT !.type = "string", !.at = a, !.size = z]]
          BY <1>0, <3>1, <3>6, <4>1, <4>2 DEF SetString
        <4>4. "string" \in Types
          BY DEF Types
        <4>5. [r EXCEPT !.type = "string", !.at = a, !.size = z] \in SlotRecords
          BY <4>4, SlotChanged
        <4> QED  BY <3>2, <4>3, <4>5
      <3> QED  BY <1>2, <3>3, <3>4, <3>5, <3>6 DEF SlotStep, NewMember
    <2> QED  BY <2>1, <2>2 DEF SlotsTyped, OpenStep
  <1> QED  BY <1>1, <1>2

LEMMA SlotsBegin == JsonInit => SlotsTyped
  <1> SUFFICES ASSUME NEW t \in Seq(Characters), Begin(t) PROVE SlotsTyped
    BY DEF JsonInit
  <1>1. slots = [i \in {0} |-> EmptySlot] /\ open = << >> /\ variant = 0 /\ pc = "variant"
    BY DEF Begin
  <1>2. Allocated = 0
    <2>1. DOMAIN slots = {0} /\ Cardinality({0}) = 1
      BY <1>1, FS_Singleton
    <2> QED  BY <2>1 DEF Allocated
  <1>3. EmptySlot \in SlotRecords
    BY DEF EmptySlot, SlotRecords, Types
  <1> QED  BY <1>1, <1>2, <1>3 DEF SlotsTyped, InKey

LEMMA SlotsKept == ASSUME JsonInv, SlotsTyped, [JsonNext]_jsonVars PROVE SlotsTyped'
  <1>1. CASE UNCHANGED jsonVars
    <2>1. UNCHANGED <<slots, variant, open, pc, string>>
      BY <1>1 DEF jsonVars, inputVars, poolVars
    <2>2. Allocated' = Allocated
      BY <2>1 DEF Allocated
    <2> QED  BY <2>1, <2>2 DEF SlotsTyped, InKey
  <1>2. CASE JsonNext
    BY <1>2, EveryStep, SlotsStayTyped
  <1> QED  BY <1>1, <1>2

-----------------------------------------------------------------------------
(* What is accepted is closed                                                *)

\* Induction on 0 .. N, by the least number for which the statement fails.
LEMMA UpTo ==
  ASSUME NEW N \in Nat, NEW S, 0 \in S, \A n \in 0 .. N - 1 : n \in S => n + 1 \in S
  PROVE  0 .. N \subseteq S
  <1> SUFFICES ASSUME NEW k \in 0 .. N, k \notin S PROVE FALSE
    OBVIOUS
  <1> DEFINE T == {n \in 0 .. N : n \notin S}
  <1>1. T \in SUBSET Nat /\ T # {}
    OBVIOUS
  <1>2. PICK m \in T : \A y \in T : m <= y
    BY <1>1, LeastIn
  <1>3. m # 0 /\ m \in 0 .. N /\ m \notin S
    BY <1>2
  <1>4. m - 1 \in 0 .. N - 1 /\ m - 1 \notin T
    BY <1>2, <1>3
  <1>5. m - 1 \in S
    BY <1>4
  <1>6. (m - 1) + 1 \in S
    BY <1>4, <1>5
  <1> QED  BY <1>3, <1>6


\* Nesting is a recursive function: what its definition chooses exists, ...
Scans(t, d) == d = [n \in 0 .. Len(t) |-> IF n = 0 THEN Outside ELSE Scanned(d[n - 1], t[n])]
LEMMA ScanExists == ASSUME NEW S, NEW t \in Seq(S) PROVE \E d : Scans(t, d)
  <1> DEFINE N == Len(t)
             Up(k, d) == d = [n \in 0 .. N |-> IF n = 0 \/ n > k THEN Outside
                                               ELSE Scanned(d[n - 1], t[n])]
             K == {k \in 0 .. N : \E d : Up(k, d)}
  <1>0. N \in Nat
    OBVIOUS
  <1>1. 0 \in K
    <2> DEFINE e == [n \in 0 .. N |-> Outside]
    <2>1. e = [n \in 0 .. N |-> IF n = 0 \/ n > 0 THEN Outside ELSE Scanned(e[n - 1], t[n])]
      <3>1. ASSUME NEW n \in 0 .. N PROVE n = 0 \/ n > 0
        OBVIOUS
      <3> QED  BY <3>1
    <2>2. Up(0, e)
      BY <2>1
    <2> QED  BY <1>0, <2>2
  <1>2. ASSUME NEW k \in 0 .. N - 1, k \in K PROVE k + 1 \in K
    <2>1. PICK d : Up(k, d)
      BY <1>2
    <2> DEFINE e == [n \in 0 .. N |-> IF n = k + 1 THEN Scanned(d[k], t[k + 1]) ELSE d[n]]
    <2>2. ASSUME NEW n \in 0 .. N
          PROVE  e[n] = IF n = 0 \/ n > k + 1 THEN Outside ELSE Scanned(e[n - 1], t[n])
      <3>1. d[n] = IF n = 0 \/ n > k THEN Outside ELSE Scanned(d[n - 1], t[n])
        BY <2>1
      <3>2. CASE n = k + 1
        <4>1. n - 1 = k /\ k \in 0 .. N /\ k # k + 1 /\ ~(n = 0 \/ n > k + 1)
          BY <1>0, <3>2
        <4>2. e[n - 1] = d[k] /\ e[n] = Scanned(d[k], t[k + 1])
          BY <3>2, <4>1
        <4> QED  BY <3>2, <4>1, <4>2, Zenon
      <3>3. CASE n # k + 1 /\ (n = 0 \/ n > k)
        <4>1. (n = 0 \/ n > k + 1) /\ e[n] = d[n]
          BY <3>3
        <4> QED  BY <3>1, <3>3, <4>1, Zenon
      <3>4. CASE n # k + 1 /\ ~(n = 0 \/ n > k)
        <4>1. ~(n = 0 \/ n > k + 1) /\ e[n] = d[n] /\ n - 1 \in 0 .. N /\ n - 1 # k + 1
          BY <3>4
        <4>2. e[n - 1] = d[n - 1]
          BY <4>1
        <4> QED  BY <3>1, <3>4, <4>1, <4>2, Zenon
      <3> QED  BY <3>2, <3>3, <3>4
    <2>3. e = [n \in 0 .. N |-> e[n]]
      OBVIOUS
    <2> HIDE DEF e
    <2>4. Up(k + 1, e)
      BY <2>2, <2>3
    <2>5. k + 1 \in 0 .. N
      BY <1>0
    <2> HIDE DEF Up
    <2> QED  BY <2>4, <2>5
  <1>3. 0 .. N \subseteq K
    <2> HIDE DEF K
    <2> QED  BY <1>0, <1>1, <1>2, UpTo
  <1>4. N \in K
    BY <1>0, <1>3
  <1>5. PICK d : Up(N, d)
    BY <1>4
  <1>6. ASSUME NEW n \in 0 .. N PROVE ~(n > N)
    BY <1>0
  <1>7. Scans(t, d)
    BY <1>5, <1>6 DEF Scans
  <1> QED  BY <1>7

\* ... so that Nesting follows the recursion.
LEMMA NestingScans ==
  ASSUME NEW S, NEW t \in Seq(S)
  PROVE  /\ Nesting(t)[0] = Outside
         /\ \A n \in 1 .. Len(t) : Nesting(t)[n] = Scanned(Nesting(t)[n - 1], t[n])
  <1>1. PICK e : Scans(t, e)
    BY ScanExists
  <1>2. Nesting(t) = CHOOSE d : Scans(t, d)
    BY DEF Nesting, Scans
  <1>3. Scans(t, Nesting(t))
    BY <1>1, <1>2, Zenon
  <1>4. PICK d : d = Nesting(t) /\ Scans(t, d)
    BY <1>3
  <1>5. PICK N \in Nat : N = Len(t)
    OBVIOUS
  <1>6. \A n \in 0 .. N : d[n] = IF n = 0 THEN Outside ELSE Scanned(d[n - 1], t[n])
    BY <1>4, <1>5, Zenon DEF Scans
  <1>7. ASSUME NEW n \in 1 .. N PROVE d[n] = Scanned(d[n - 1], t[n])
    <2>1. n \in 0 .. N /\ n # 0
      OBVIOUS
    <2> QED  BY <1>6, <2>1
  <1>8. d[0] = Outside
    BY <1>6
  <1> QED  BY <1>4, <1>5, <1>7, <1>8

\* One character on.
LEMMA NestingNext ==
  ASSUME NEW S, NEW t \in Seq(S), NEW n \in 0 .. Len(t) - 1
  PROVE  Nesting(t)[n + 1] = Scanned(Nesting(t)[n], t[n + 1])
  <1>1. n + 1 \in 1 .. Len(t) /\ (n + 1) - 1 = n
    OBVIOUS
  <1> QED  BY <1>1, NestingScans

\* What comes later in a text does not matter.
LEMMA NestingOfPrefix ==
  ASSUME NEW S, NEW w \in Seq(S), NEW n \in 0 .. Len(w), NEW k \in 0 .. n
  PROVE  Nesting(SubSeq(w, 1, n))[k] = Nesting(w)[k]
  <1> DEFINE t == SubSeq(w, 1, n)
             K == {j \in 0 .. n : Nesting(t)[j] = Nesting(w)[j]}
  <1>1. t \in Seq(S) /\ Len(t) = n /\ \A i \in 1 .. n : t[i] = w[i]
    OBVIOUS
  <1> HIDE DEF t
  <1>2. 0 \in K
    BY <1>1, NestingScans
  <1>3. ASSUME NEW j \in 0 .. n - 1, j \in K PROVE j + 1 \in K
    <2>1. j \in 0 .. Len(t) - 1 /\ j \in 0 .. Len(w) - 1 /\ j + 1 \in 1 .. n /\ j + 1 \in 0 .. n
      BY <1>1
    <2>2. Nesting(t)[j + 1] = Scanned(Nesting(t)[j], t[j + 1])
      BY <1>1, <2>1, NestingNext
    <2>3. Nesting(w)[j + 1] = Scanned(Nesting(w)[j], w[j + 1])
      BY <2>1, NestingNext
    <2>4. t[j + 1] = w[j + 1] /\ Nesting(t)[j] = Nesting(w)[j]
      BY <1>1, <1>3, <2>1
    <2> QED  BY <2>1, <2>2, <2>3, <2>4
  <1>4. 0 .. n \subseteq K
    <2> HIDE DEF K
    <2> QED  BY <1>2, <1>3, UpTo
  <1> QED  BY <1>4 DEF t

\* Where the parser believes to be, which is where the text before the latch ends.
Place(where, depth) == [in |-> where, depth |-> depth]
Here == Place(IF pc = "string" THEN "string" ELSE "none", Len(open))
NestingInv ==
    /\ pc # "done" => Nesting(text)[position] = Here
    /\ pc \notin {"variant", "done"} => position > 0
    /\ AcceptsClosed

\* What a character does outside a string, and inside one.
LEMMA ScannedOutside ==
  ASSUME NEW n, NEW c
  PROVE  Scanned(Place("none", n), c) =
             IF c = Quote THEN Place("string", n)
             ELSE IF c \in {"{", "["} THEN Place("none", n + 1)
             ELSE IF c \in {"}", "]"} THEN Place("none", n - 1)
             ELSE Place("none", n)
  <1> DEFINE s == Place("none", n)
  <1>1. s.in = "none" /\ s.in # "escape" /\ s.in # "string"
    BY DEF Place
  <1>2. CASE c = Quote
    <2>1. Scanned(s, c) = [s EXCEPT !.in = "string"]
      BY <1>1, <1>2 DEF Scanned, Quote
    <2> QED  BY <1>2, <2>1 DEF Place
  <1>3. CASE c \in {"{", "["}
    <2>1. Scanned(s, c) = [s EXCEPT !.depth = s.depth + 1] /\ c # Quote
      BY <1>1, <1>3 DEF Scanned, Quote
    <2>2. [s EXCEPT !.depth = s.depth + 1] = Place("none", n + 1)
      BY DEF Place
    <2> QED  BY <1>3, <2>1, <2>2
  <1>4. CASE c \in {"}", "]"}
    <2>1. Scanned(s, c) = [s EXCEPT !.depth = s.depth - 1] /\ c \notin {Quote, "{", "["}
      BY <1>1, <1>4 DEF Scanned, Quote
    <2>2. [s EXCEPT !.depth = s.depth - 1] = Place("none", n - 1)
      BY DEF Place
    <2> QED  BY <1>4, <2>1, <2>2
  <1>5. CASE c \notin {Quote, "{", "[", "}", "]"}
    <2>1. Scanned(s, c) = s
      BY <1>1, <1>5 DEF Scanned
    <2> QED  BY <1>5, <2>1
  <1> QED  BY <1>2, <1>3, <1>4, <1>5

LEMMA ScannedInside ==
  ASSUME NEW n, NEW c
  PROVE  /\ Scanned(Place("string", n), c) =
             IF c = Quote THEN Place("none", n)
             ELSE IF c = Backslash THEN Place("escape", n)
             ELSE Place("string", n)
         /\ Scanned(Place("escape", n), c) = Place("string", n)
  <1> DEFINE s == Place("string", n)
  <1>1. s.in = "string" /\ Quote # Backslash
    BY DEF Place, Quote, Backslash
  <1>2. Scanned(Place("escape", n), c) = Place("string", n)
    BY DEF Scanned, Place
  <1>3. CASE c = Quote
    BY <1>1, <1>3 DEF Scanned, Place
  <1>4. CASE c = Backslash
    BY <1>1, <1>4 DEF Scanned, Place
  <1>5. CASE c \notin {Quote, Backslash}
    <2>1. Scanned(s, c) = s /\ c # Quote /\ c # Backslash
      BY <1>1, <1>5 DEF Scanned
    <2> QED  BY <1>2, <2>1
  <1> QED  BY <1>3, <1>4, <1>5, <1>2

\* What is behind the latch when it has read one character or two.
LEMMA ReadOne ==
  ASSUME JsonInv, NestingInv, text' = text, pc # "done", Current # NUL, position' = position + 1
  PROVE  Nesting(text)'[position'] = Scanned(Here, Current) /\ position' > 0
  <1>1. /\ Len(text) \in Nat /\ position \in Nat /\ position + 1 \in 0 .. Len(text)
    BY LatchReads DEF JsonInv
  <1>2. position \in 0 .. Len(text) - 1 /\ position # Len(text) /\ position \in position .. Len(text)
    BY <1>1
  <1>3. text[position + 1] = Current
    BY <1>2 DEF JsonInv, UnreadInputStays, Current
  <1>4. Nesting(text)[position + 1] = Scanned(Nesting(text)[position], text[position + 1])
    BY <1>2, NestingNext DEF JsonInv, JsonTypeOK
  <1>5. Nesting(text)' = Nesting(text)
    BY DEF Nesting
  <1> QED  BY <1>1, <1>3, <1>4, <1>5 DEF NestingInv

LEMMA ReadTwo ==
  ASSUME JsonInv, NestingInv, text' = text, pc = "string", Current = Backslash,
         input[position + 1] # NUL, position' = position + 2
  PROVE  Nesting(text)'[position'] = Here /\ position' > 0
  <1>0. Current # NUL
    BY JsonConstants
  <1>1. /\ Len(text) \in Nat /\ position \in Nat /\ position + 1 \in 0 .. Len(text)
        /\ position + 2 \in 0 .. Len(text)
    BY <1>0, LatchReads DEF JsonInv
  <1>2. /\ position \in 0 .. Len(text) - 1 /\ position # Len(text) /\ position \in position .. Len(text)
        /\ position + 1 \in 0 .. Len(text) - 1 /\ position + 1 # Len(text)
        /\ position + 1 \in position .. Len(text) /\ (position + 1) + 1 = position + 2
    BY <1>1
  <1>3. text[position + 1] = Current
    BY <1>2 DEF JsonInv, UnreadInputStays, Current
  <1>4. Nesting(text)[position + 1] = Scanned(Nesting(text)[position], text[position + 1])
    BY <1>2, NestingNext DEF JsonInv, JsonTypeOK
  <1>5. Nesting(text)[position + 2] = Scanned(Nesting(text)[position + 1], text[position + 2])
    BY <1>2, NestingNext DEF JsonInv, JsonTypeOK
  <1>6. Nesting(text)' = Nesting(text)
    BY DEF Nesting
  <1>7. Nesting(text)[position] = Place("string", Len(open)) /\ Here = Place("string", Len(open))
    BY DEF NestingInv, Here
  <1>8. Nesting(text)[position + 1] = Place("escape", Len(open))
    BY <1>3, <1>4, <1>7, ScannedInside DEF Quote, Backslash
  <1>9. Nesting(text)[position + 2] = Place("string", Len(open))
    BY <1>5, <1>8, ScannedInside
  <1> QED  BY <1>1, <1>6, <1>7, <1>9

\* A step that fails accepts nothing; one that reads nothing stays where it is.
LEMMA NestingStops ==
  ASSUME pc' = "done", error' # "Ok" PROVE NestingInv'
  BY DEF NestingInv, AcceptsClosed

LEMMA NestingFails ==
  ASSUME NEW code, Fails(code), code # "Ok" PROVE NestingInv'
  BY NestingStops DEF Fails, Stop

LEMMA NestingStays ==
  ASSUME NestingInv, UNCHANGED <<text, position, open>>, pc \notin {"string", "done"},
         pc' \notin {"string", "done"}, pc # "variant" \/ pc' = "variant"
  PROVE  NestingInv'
  <1>1. Nesting(text)' = Nesting(text) /\ Len(open)' = Len(open) /\ pc # "done" /\ pc' # "done"
    BY DEF Nesting
  <1>2. Here' = Here
    BY <1>1 DEF Here
  <1>3. position' > 0 \/ pc' = "variant"
    BY DEF NestingInv
  <1> QED  BY <1>1, <1>2, <1>3 DEF NestingInv, AcceptsClosed

LEMMA NestingReads ==
  ASSUME JsonInv, NestingInv, text' = text, pc # "done", pc' # "done", Current # NUL,
         position' = position + 1, Scanned(Here, Current) = Here'
  PROVE  NestingInv'
  BY ReadOne DEF NestingInv, AcceptsClosed

LEMMA NestingAdds ==
  ASSUME JsonInv, NestingInv, UNCHANGED <<text, open>>, pc \in {"first", "more", "colon"},
         NEW key, NEW old, NEW end, AddSlot(key, old, end),
         \/ position' = position
         \/ position' = position + 1 /\ Current \in {":", ","}
  PROVE  NestingInv'
  <1>1. CASE pc' = "done"
    BY <1>1, NestingStops DEF AddSlot, Stop
  <1>2. CASE pc' = "variant" /\ position' = position
    BY <1>2, NestingStays
  <1>3. CASE pc' = "variant" /\ position' = position + 1 /\ Current \in {":", ","}
    <2>1. Here = Place("none", Len(open)) /\ Here' = Place("none", Len(open))
      BY <1>3 DEF Here
    <2>2. Scanned(Here, Current) = Here'
      BY <1>3, <2>1, ScannedOutside DEF Quote
    <2> QED  BY <1>3, <2>2, NestingReads DEF NUL
  <1> QED  BY <1>1, <1>2, <1>3, AddSlotGoesOn

LEMMA NestingCloses ==
  ASSUME JsonInv, SlotsTyped, NestingInv, text' = text, pc \in {"first", "more"}, open # << >>, Close
  PROVE  NestingInv'
  <1>1. Current \in {"]", "}"} /\ position' = position + 1 /\ pc' = "more" /\ open' = Front(open)
    BY DEF Close, Closing
  <1>2. Len(open') = Len(open) - 1
    BY <1>1, FrontOfSeq DEF SlotsTyped
  <1>3. Here = Place("none", Len(open)) /\ Here' = Place("none", Len(open) - 1)
    BY <1>1, <1>2 DEF Here
  <1>4. Scanned(Here, Current) = Here'
    BY <1>1, <1>3, ScannedOutside DEF Quote
  <1> QED  BY <1>1, <1>4, NestingReads DEF NUL

\* Every action keeps the two together.
LEMMA NestingStep ==
  ASSUME JsonInv, SlotsTyped, NestingInv, JsonNext PROVE NestingInv'
  <1>t. text' = text /\ Len(open) \in Nat
    BY DEF JsonNext, inputVars, SlotsTyped
  <1>1. CASE ParseVariant
    <2>0. pc = "variant" /\ Here = Place("none", Len(open))
      BY <1>1 DEF ParseVariant, Here
    <2>1. CASE Ended(IF position = 0 THEN "EmptyInput" ELSE "IncompleteInput")
      BY <2>1, NestingFails DEF Ended
    <2>2. CASE Fails("InvalidInput")
      BY <2>2, NestingFails
    <2>3. CASE Stop("TooDeep")
      BY <2>3, NestingStops DEF Stop
    <2>4. CASE /\ Current \in {"{", "["}
               /\ open' = Append(open, variant) /\ position' = position + 1 /\ pc' = "first"
      <3>1. Len(open') = Len(open) + 1
        BY <2>4, AppendProperties DEF SlotsTyped
      <3>2. Here' = Place("none", Len(open) + 1)
        BY <2>4, <3>1 DEF Here
      <3>3. Scanned(Here, Current) = Here'
        BY <2>0, <2>4, <3>2, ScannedOutside DEF Quote
      <3> QED  BY <1>t, <2>0, <2>4, <3>3, NestingReads DEF NUL
    <2>5. CASE Current = Quote /\ StartString("value") /\ position' = position + 1 /\ pc' = "string"
      <3>1. Here' = Place("string", Len(open))
        BY <2>5 DEF Here, StartString
      <3>2. Scanned(Here, Current) = Here'
        BY <2>0, <2>5, <3>1, ScannedOutside
      <3> QED  BY <1>t, <2>0, <2>5, <3>2, NestingReads, JsonConstants
    <2>6. CASE Current \in {"1", "null"} /\ position' = position + 1 /\ pc' = "more" /\ open' = open
      <3>1. Here' = Place("none", Len(open))
        BY <2>6 DEF Here
      <3>2. Scanned(Here, Current) = Here'
        BY <2>0, <2>6, <3>1, ScannedOutside DEF Quote
      <3> QED  BY <1>t, <2>0, <2>6, <3>2, NestingReads DEF NUL
    <2> QED  BY <1>1, <2>1, <2>2, <2>3, <2>4, <2>5, <2>6 DEF ParseVariant
  <1>2. CASE ParseFirst
    <2>0. pc = "first" /\ open # << >>
      BY <1>2 DEF ParseFirst, SlotsTyped, InKey
    <2>1. CASE Ended("IncompleteInput")
      BY <2>1, NestingFails DEF Ended
    <2>2. CASE Close
      BY <1>t, <2>0, <2>2, NestingCloses
    <2>3. CASE AddElement /\ position' = position
      BY <1>t, <2>0, <2>3, NestingAdds DEF AddElement
    <2>4. CASE pc' = "key" /\ UNCHANGED <<open, position>>
      BY <1>t, <2>0, <2>4, NestingStays
    <2> QED  BY <1>2, <2>1, <2>2, <2>3, <2>4 DEF ParseFirst
  <1>3. CASE ParseKey
    <2>0. pc = "key" /\ Here = Place("none", Len(open))
      BY <1>3 DEF ParseKey, Here
    <2>1. CASE Ended("IncompleteInput")
      BY <2>1, NestingFails DEF Ended
    <2>2. CASE Current = Quote /\ StartString("colon") /\ position' = position + 1 /\ pc' = "string"
      <3>1. Here' = Place("string", Len(open))
        BY <2>2 DEF Here, StartString
      <3>2. Scanned(Here, Current) = Here'
        BY <2>0, <2>2, <3>1, ScannedOutside
      <3> QED  BY <1>t, <2>0, <2>2, <3>2, NestingReads, JsonConstants
    <2>3. CASE StartString("colon") /\ pc' = "bare" /\ position' = position
      BY <1>t, <2>0, <2>3, NestingStays DEF StartString
    <2>4. CASE Stop("InvalidInput")
      BY <2>4, NestingStops DEF Stop
    <2> QED  BY <1>3, <2>1, <2>2, <2>3, <2>4 DEF ParseKey
  <1>4. CASE ParseString
    <2>0. pc = "string" /\ Here = Place("string", Len(open))
      BY <1>4 DEF ParseString, Here
    <2>1. CASE Ended("IncompleteInput") \/ Fails("IncompleteInput") \/ Fails("InvalidInput")
      BY <2>1, NestingFails DEF Ended
    <2>2. CASE /\ Current \notin {NUL, Quote, Backslash} /\ AppendChar(Current)
               /\ position' = position + 1
      <3>1. Here' = Here /\ pc' = pc
        BY <2>2 DEF Here, AppendChar
      <3>2. Scanned(Here, Current) = Here'
        BY <2>0, <2>2, <3>1, ScannedInside
      <3> QED  BY <1>t, <2>0, <2>2, <3>1, <3>2, NestingReads
    <2>3. CASE /\ Current = Backslash /\ input[position + 1] \in Special
               /\ AppendChar(input[position + 1]) /\ position' = position + 2
      <3>1. Here' = Here /\ pc' = pc
        BY <2>3 DEF Here, AppendChar
      <3>2. input[position + 1] # NUL
        BY <2>3, JsonConstants
      <3>3. Nesting(text)'[position'] = Here' /\ position' > 0
        BY <1>t, <2>0, <2>3, <3>1, <3>2, ReadTwo
      <3> QED  BY <2>0, <3>1, <3>3 DEF NestingInv, AcceptsClosed
    <2>4. CASE Current = Quote /\ EndString(position + 1)
      <3>1. CASE overflowed
        BY <2>4, <3>1, NestingFails DEF EndString
      <3>2. CASE ~overflowed
        <4>1. /\ position' = position + 1 /\ pc' = string.use /\ open' = open
              /\ string.use \in {"colon", "value"}
          BY <2>4, <3>2 DEF EndString, JsonInv, JsonTypeOK
        <4>2. Here' = Place("none", Len(open))
          BY <4>1 DEF Here
        <4>3. Scanned(Here, Current) = Here'
          BY <2>0, <2>4, <4>2, ScannedInside
        <4> QED  BY <1>t, <2>0, <2>4, <4>1, <4>3, NestingReads, JsonConstants
      <3> QED  BY <3>1, <3>2
    <2> QED  BY <1>4, <2>1, <2>2, <2>3, <2>4 DEF ParseString
  <1>5. CASE ParseBareKey
    <2>0. pc = "bare" /\ Here = Place("none", Len(open))
      BY <1>5 DEF ParseBareKey, Here
    <2>1. CASE Current \in KeyCharacters /\ AppendChar(Current) /\ position' = position + 1
      <3>1. Here' = Here /\ pc' = pc
        BY <2>1 DEF Here, AppendChar
      <3>2. Scanned(Here, Current) = Here'
        BY <2>0, <2>1, <3>1, ScannedOutside DEF Quote, KeyCharacters
      <3>3. Current # NUL
        BY <2>1, JsonConstants
      <3> QED  BY <1>t, <2>0, <2>1, <3>1, <3>2, <3>3, NestingReads
    <2>2. CASE EndString(position) /\ overflowed
      BY <2>2, NestingFails DEF EndString
    <2>3. CASE EndString(position) /\ ~overflowed
      <3>1. /\ position' = position /\ pc' = string.use /\ open' = open
            /\ string.use \in {"colon", "value"}
        BY <2>3 DEF EndString, JsonInv, JsonTypeOK
      <3> QED  BY <1>t, <2>0, <3>1, NestingStays
    <2> QED  BY <1>5, <2>1, <2>2, <2>3 DEF ParseBareKey
  <1>6. CASE SetString
    BY <1>t, <1>6, NestingStays DEF SetString
  <1>7. CASE ParseColon
    <2>0. pc = "colon" /\ Here = Place("none", Len(open))
      BY <1>7 DEF ParseColon, Here
    <2>1. CASE Ended("IncompleteInput") \/ Fails("InvalidInput")
      BY <2>1, NestingFails DEF Ended
    <2>2. CASE Current = ":" /\ position' = position + 1 /\ AddMember /\ open' = open
      BY <1>t, <2>0, <2>2, NestingAdds DEF AddMember
    <2>3. CASE Current = ":" /\ position' = position + 1 /\ pc' = "variant" /\ open' = open
      <3>1. Here' = Here
        BY <2>0, <2>3 DEF Here
      <3>2. Scanned(Here, Current) = Here'
        BY <2>0, <2>3, <3>1, ScannedOutside DEF Quote
      <3> QED  BY <1>t, <2>0, <2>3, <3>2, NestingReads DEF NUL
    <2> QED  BY <1>7, <2>1, <2>2, <2>3 DEF ParseColon
  <1>8. CASE ParseMore
    <2>0. pc = "more" /\ Here = Place("none", Len(open))
      BY <1>8 DEF ParseMore, Here
    <2>1. CASE open = << >> /\ \E code : Fails(code)
      <3>1. /\ pc' = "done" /\ position' = position /\ Nesting(text)' = Nesting(text)
        BY <1>t, <2>1 DEF Fails, Stop, Nesting
      <3>2. Here = Outside
        BY <2>0, <2>1 DEF Outside, Place
      <3>3. position > 0 /\ Nesting(text)[position] = Outside
        BY <2>0, <3>2 DEF NestingInv
      <3> QED  BY <3>1, <3>3 DEF NestingInv, AcceptsClosed
    <2>2. CASE Ended("IncompleteInput") \/ Fails("InvalidInput")
      BY <2>2, NestingFails DEF Ended
    <2>3. CASE open # << >> /\ Close
      BY <1>t, <2>0, <2>3, NestingCloses
    <2>4. CASE Current = "," /\ position' = position + 1 /\ AddElement
      BY <1>t, <2>0, <2>4, NestingAdds DEF AddElement
    <2>5. CASE Current = "," /\ position' = position + 1 /\ pc' = "key" /\ open' = open
      <3>1. Here' = Here
        BY <2>0, <2>5 DEF Here
      <3>2. Scanned(Here, Current) = Here'
        BY <2>0, <2>5, <3>1, ScannedOutside DEF Quote
      <3> QED  BY <1>t, <2>0, <2>5, <3>2, NestingReads DEF NUL
    <2> QED  BY <1>8, <2>1, <2>2, <2>3, <2>4, <2>5 DEF ParseMore
  <1> QED  BY <1>1, <1>2, <1>3, <1>4, <1>5, <1>6, <1>7, <1>8 DEF JsonNext

LEMMA NestingBegins == JsonInit => NestingInv
  <1> SUFFICES ASSUME NEW t \in Seq(Characters), Begin(t) PROVE NestingInv
    BY DEF JsonInit
  <1>1. text = t /\ position = 0 /\ open = << >> /\ pc = "variant"
    BY DEF Begin
  <1>2. Nesting(t)[0] = Outside
    BY NestingScans
  <1>3. Here = Outside
    BY <1>1 DEF Here, Outside, Place
  <1> QED  BY <1>1, <1>2, <1>3 DEF NestingInv, AcceptsClosed

LEMMA NestingKept ==
  ASSUME JsonInv, SlotsTyped, NestingInv, [JsonNext]_jsonVars PROVE NestingInv'
  <1>1. CASE UNCHANGED jsonVars
    <2>1. UNCHANGED <<text, position, open, pc, error>>
      BY <1>1 DEF jsonVars, inputVars
    <2>2. Nesting(text)' = Nesting(text) /\ Here' = Here
      BY <2>1 DEF Nesting, Here
    <2> QED  BY <2>1, <2>2 DEF NestingInv, AcceptsClosed
  <1> QED  BY <1>1, NestingStep

LEMMA AlwaysTypedAndNested == JsonSpec => [](JsonInv /\ SlotsTyped /\ NestingInv)
  <1>1. JsonInit => JsonInv /\ SlotsTyped /\ NestingInv
    BY JsonBegins, SlotsBegin, NestingBegins
  <1>2. JsonInv /\ SlotsTyped /\ NestingInv /\ [JsonNext]_jsonVars
            => (JsonInv /\ SlotsTyped /\ NestingInv)'
    BY JsonKept, SlotsKept, NestingKept
  <1> QED  BY <1>1, <1>2, PTL DEF JsonSpec

\* deserializeJson accepts a text, however the pool is sized and whatever follows, only
\* at a place where each string and each bracket that the text opened is closed.
THEOREM OnlyClosedTextsAccepted == JsonSpec => []AcceptsClosed
  <1>1. NestingInv => AcceptsClosed
    BY DEF NestingInv
  <1> QED  BY AlwaysTypedAndNested, <1>1, PTL

\* The texts that w begins with.  When w closes at its end and not before, as a
\* document does, none of them is accepted.
CutOf(w) == \E n \in 0 .. Len(w) - 1 : text = SubSeq(w, 1, n)
CutRefused == \A w \in Seq(Characters) : ClosesAtEnd(w) /\ CutOf(w) => ~(pc = "done" /\ error = "Ok")

\* So whatever part of info.dat an interrupted save has left, Load_info_File never takes
\* it for a document: no beginning of a text that closes at its end, and not before,
\* is accepted.
THEOREM NoCutAccepted == JsonSpec => []CutRefused
  <1>1. JsonTypeOK /\ AcceptsClosed => CutRefused
    <2> SUFFICES ASSUME JsonTypeOK, AcceptsClosed, NEW w \in Seq(Characters), ClosesAtEnd(w),
                        NEW n \in 0 .. Len(w) - 1, text = SubSeq(w, 1, n),
                        pc = "done", error = "Ok"
                 PROVE  FALSE
      BY DEF CutRefused, CutOf
    <2>1. Len(text) = n /\ position \in 0 .. n /\ position > 0 /\ n \in 0 .. Len(w)
      BY DEF JsonTypeOK, AcceptsClosed
    <2>2. Nesting(text)[position] = Outside
      BY DEF AcceptsClosed
    <2>3. Nesting(w)[position] = Outside
      BY <2>1, <2>2, NestingOfPrefix
    <2>4. position \in 1 .. Len(w) - 1
      BY <2>1
    <2>5. \A m \in 1 .. Len(w) - 1 : Nesting(w)[m] # Outside
      BY DEF ClosesAtEnd
    <2> QED  BY <2>3, <2>4, <2>5
  <1>2. JsonInv /\ SlotsTyped /\ NestingInv => JsonTypeOK /\ AcceptsClosed
    BY DEF JsonInv, NestingInv
  <1> QED  BY AlwaysTypedAndNested, <1>1, <1>2, PTL

-----------------------------------------------------------------------------
(* Strings that are held stay                                                *)

\* Strings that are kept end below the end of the strings.
EndsBelow(k) == \E e \in k .. left - 1 : Zone[e] = NUL
StringsInv ==
    /\ pc \in InString => string.at = left
    /\ \A s \in 0 .. Allocated :
           /\ slots[s].key >= 0 => EndsBelow(slots[s].key)
           /\ slots[s].type = "string" => slots[s].at + slots[s].size < left
\* What a step leaves as it is.
KeptBelow ==
    /\ left' >= left /\ DOMAIN Zone' = DOMAIN Zone
    /\ \A n \in 0 .. left - 1 : Zone'[n] = Zone[n]

\* The bytes that strings may lie in.
LEMMA ZoneBounds ==
  ASSUME JsonInv, StringsInv, pc # "done"
  PROVE  \E m \in Nat : /\ DOMAIN Zone = 0 .. m - 1 /\ left <= m /\ m <= Len(text) + capacity + 1
  <1>1. /\ Len(text) \in Nat /\ position \in 0 .. Len(text) /\ capacity \in Nat /\ left \in Nat
        /\ string \in [at : Nat, size : Nat, use : {"colon", "value"}]
        /\ DOMAIN input = 0 .. Len(text) /\ DOMAIN memory = 0 .. capacity - 1
        /\ storage \in {"move", "copy"} /\ pc \in Places
    BY LatchReads DEF JsonInv, JsonTypeOK
  <1>2. CASE storage = "copy"
    <2>1. DOMAIN Zone = 0 .. capacity - 1 /\ left <= Right /\ Right \in Int
      BY <1>1, <1>2, RightIsInt DEF Zone, JsonInv, CopiedBelow, PoolLeft
    <2>2. Right <= capacity
      <3>1. \A a, b \in Int : 0 <= b => a - b <= a
        OBVIOUS
      <3>2. SlotSize * Allocated \in Int /\ 0 <= SlotSize * Allocated
        BY JsonConstants DEF JsonInv, JsonTypeOK
      <3> QED  BY <1>1, <3>1, <3>2 DEF Right
    <2> QED  BY <1>1, <2>1, <2>2
  <1>3. CASE storage = "move"
    <2>1. pc \in {"string", "value", "bare", "colon"} => string.at = left /\ string.at + string.size <= position
      BY <1>1, <1>3 DEF JsonInv, MovedBehind, StringsInv, InString
    <2>2. pc \notin {"string", "value", "bare", "colon"} => left <= position
      BY <1>1, <1>3 DEF JsonInv, MovedBehind, Places
    <2>3. left <= position
      BY <1>1, <2>1, <2>2
    <2>4. DOMAIN Zone = 0 .. Len(text)
      BY <1>1, <1>3 DEF Zone
    <2>5. Len(text) + 1 \in Nat /\ (Len(text) + 1) - 1 = Len(text) /\ left <= Len(text) + 1
          /\ Len(text) + 1 <= Len(text) + capacity + 1
      BY <1>1, <2>3
    <2> QED  BY <2>4, <2>5
  <1> QED  BY <1>1, <1>2, <1>3

\* A string that ends below stays one that does.
LEMMA EndsStay ==
  ASSUME left \in Nat, left' \in Nat, KeptBelow, NEW k \in Nat, EndsBelow(k)
  PROVE  EndsBelow(k)'
  <1>1. PICK z \in Nat : z = left
    OBVIOUS
  <1>2. PICK y \in Nat : y = left'
    OBVIOUS
  <1>3. y >= z
    BY <1>1, <1>2 DEF KeptBelow
  <1>4. PICK e \in k .. z - 1 : Zone[e] = NUL
    BY <1>1 DEF EndsBelow
  <1>5. e \in 0 .. z - 1 /\ e \in k .. y - 1
    <2>1. e \in Nat /\ e >= k /\ e <= z - 1
      BY <1>4
    <2>2. e <= y - 1
      BY <1>3, <2>1
    <2> QED  BY <2>1, <2>2
  <1>6. Zone'[e] = NUL
    BY <1>1, <1>4, <1>5 DEF KeptBelow
  <1> QED  BY <1>2, <1>5, <1>6 DEF EndsBelow

\* Where a string that begins at a byte may end; CString takes the least of them.
Ends(at) == {n \in at .. Len(text) + capacity : n \in DOMAIN Zone /\ Zone[n] = NUL}

\* Bytes below the strings' end stay, and so does each string that ends there.
LEMMA BytesStay ==
  ASSUME KeptBelow, left \in Nat, NEW at \in Nat, NEW size \in Nat, at + size <= left
  PROVE  Bytes(at, size)' = Bytes(at, size)
  <1>1. ASSUME NEW i \in 1 .. size PROVE Zone'[at + i - 1] = Zone[at + i - 1]
    <2>1. at + i - 1 \in 0 .. left - 1
      OBVIOUS
    <2> QED  BY <2>1 DEF KeptBelow
  <1> QED  BY <1>1 DEF Bytes

LEMMA CStringStays ==
  ASSUME JsonInv, StringsInv, pc # "done", UNCHANGED inputVars, KeptBelow, NEW k \in Nat, EndsBelow(k)
  PROVE  CString(k)' = CString(k)
  <1>1. PICK m \in Nat : DOMAIN Zone = 0 .. m - 1 /\ left <= m /\ m <= Len(text) + capacity + 1
    BY ZoneBounds
  <1>2. PICK z \in Nat : z = left
    BY DEF JsonInv, JsonTypeOK
  <1>3. PICK b \in Nat : b = Len(text) + capacity
    BY LatchReads DEF JsonInv, JsonTypeOK
  <1>4. PICK e \in k .. z - 1 : Zone[e] = NUL
    BY <1>2 DEF EndsBelow
  <1>5. PICK A : A = Ends(k)
    OBVIOUS
  <1>6. PICK B : B = Ends(k)'
    OBVIOUS
  <1>7. A = {n \in k .. b : n \in 0 .. m - 1 /\ Zone[n] = NUL}
    BY <1>1, <1>3, <1>5 DEF Ends
  <1>8. B = {n \in k .. b : n \in 0 .. m - 1 /\ Zone'[n] = NUL}
    <2>1. (Len(text) + capacity)' = b /\ DOMAIN Zone' = 0 .. m - 1
      BY <1>1, <1>3 DEF inputVars, KeptBelow
    <2> QED  BY <1>6, <2>1 DEF Ends
  <1>9. A \in SUBSET Nat /\ B \in SUBSET Nat
    BY <1>7, <1>8
  <1>10. ASSUME NEW n \in k .. z - 1 PROVE n \in A <=> n \in B
    <2>1. Zone'[n] = Zone[n] /\ n \in k .. b /\ n \in 0 .. m - 1
      <3>1. n \in 0 .. left - 1
        BY <1>2
      <3>2. Zone'[n] = Zone[n]
        BY <3>1 DEF KeptBelow
      <3>3. z <= m /\ m <= b + 1
        BY <1>1, <1>2, <1>3
      <3> QED  BY <3>2, <3>3
    <2> QED  BY <1>7, <1>8, <2>1
  <1>11. e \in A /\ e \in B
    <2>1. e \in k .. b /\ e \in 0 .. m - 1
      BY <1>1, <1>2, <1>3
    <2>2. e \in A
      BY <1>4, <1>7, <2>1
    <2> QED  BY <1>10, <2>2
  <1>12. Min(A) \in A /\ (\A y \in A : Min(A) <= y) /\ Min(B) \in B /\ (\A y \in B : Min(B) <= y)
    BY <1>9, <1>11, LeastIn
  <1>13. PICK a \in Nat : a = Min(A)
    BY <1>9, <1>12
  <1>14. PICK c \in Nat : c = Min(B)
    BY <1>9, <1>12
  <1>15. a \in k .. z - 1 /\ c \in k .. z - 1
    <2>1. a <= e /\ c <= e /\ a >= k /\ c >= k
      BY <1>7, <1>8, <1>11, <1>12, <1>13, <1>14
    <2> QED  BY <2>1
  <1>16. a = c
    <2>1. a \in B /\ c \in A
      BY <1>10, <1>12, <1>13, <1>14, <1>15
    <2>2. a <= c /\ c <= a
      BY <1>12, <1>13, <1>14, <2>1
    <2> QED  BY <2>2
  <1>17. a - k \in Nat /\ k + (a - k) <= left
    BY <1>2, <1>15
  <1>18. PICK d \in Nat : d = a - k
    BY <1>17
  <1>19. Bytes(k, d)' = Bytes(k, d)
    BY <1>2, <1>17, <1>18, BytesStay
  <1>20. CString(k) = Bytes(k, d)
    <2>1. CString(k) = IF A = {} THEN <<NUL>> ELSE Bytes(k, Min(A) - k)
      BY <1>5 DEF CString, Ends
    <2> QED  BY <1>11, <1>13, <1>18, <2>1
  <1>21. CString(k)' = Bytes(k, d)'
    <2>1. CString(k)' = IF B = {} THEN <<NUL>> ELSE Bytes(k, Min(B) - k)'
      BY <1>6 DEF CString, Ends, Bytes
    <2>2. B # {} /\ Min(B) - k = d
      BY <1>11, <1>14, <1>16, <1>18
    <2> QED  BY <2>1, <2>2 DEF Bytes
  <1> QED  BY <1>19, <1>20, <1>21

\* A step that writes nothing, ...
LEMMA KeptUnwritten ==
  ASSUME JsonInv, UNCHANGED inputVars, UNCHANGED <<input, memory, left>>
  PROVE  KeptBelow
  <1>1. left' >= left /\ Zone' = Zone
    BY DEF JsonInv, JsonTypeOK, Zone, inputVars
  <1> QED  BY <1>1 DEF KeptBelow

\* ... or a byte behind the strings, or a slot.
LEMMA KeptWritten ==
  ASSUME JsonInv, StringsInv, pc # "done", UNCHANGED inputVars, left' >= left,
         NEW at \in Nat, at >= left, NEW c, NEW old,
         input' = input \/ input' = [input EXCEPT ![at] = c],
         old = memory \/ old = [memory EXCEPT ![at] = c],
         \/ memory' = old
         \/ memory' = WithSlotBytes(old) /\ (storage = "copy" => left <= Right - SlotSize)
  PROVE  KeptBelow
  <1>1. PICK m \in Nat : DOMAIN Zone = 0 .. m - 1 /\ left <= m
    BY ZoneBounds
  <1>2. left \in Nat /\ Right \in Int /\ SlotSize \in Nat /\ 0 .. left - 1 \subseteq DOMAIN Zone
    BY <1>1, RightIsInt, JsonConstants DEF JsonInv, JsonTypeOK
  <1>3. ASSUME NEW n \in 0 .. left - 1 PROVE n # at
    BY <1>2
  <1>4. CASE storage = "copy"
    <2>1. Zone = memory /\ Zone' = memory'
      BY <1>4 DEF Zone, inputVars
    <2>2. DOMAIN old = DOMAIN memory /\ \A n \in 0 .. left - 1 : old[n] = memory[n]
      BY <1>2, <1>3, <2>1
    <2>3. CASE memory' = WithSlotBytes(old) /\ left <= Right - SlotSize
      <3>1. memory' = [n \in DOMAIN old |-> IF n \in Right - SlotSize .. Right - 1 THEN "slot" ELSE old[n]]
        BY <2>3 DEF WithSlotBytes
      <3>2. ASSUME NEW n \in 0 .. left - 1 PROVE memory'[n] = memory[n]
        <4>1. n \in DOMAIN old /\ n \notin Right - SlotSize .. Right - 1
          BY <1>2, <2>1, <2>2, <2>3
        <4> QED  BY <2>2, <3>1, <4>1
      <3> QED  BY <2>1, <2>2, <3>1, <3>2 DEF KeptBelow
    <2>4. CASE memory' = old
      BY <2>1, <2>2, <2>4 DEF KeptBelow
    <2> QED  BY <1>4, <2>3, <2>4
  <1>5. CASE storage # "copy"
    <2>1. Zone = input /\ Zone' = input'
      BY <1>5 DEF Zone, inputVars
    <2> QED  BY <1>2, <1>3, <2>1 DEF KeptBelow
  <1> QED  BY <1>4, <1>5

\* The string that is parsed goes behind those that are kept; ...
LEMMA StringWhere ==
  ASSUME JsonInv, StringsInv, pc \in InString
  PROVE  /\ string.at = left /\ left \in Nat /\ string.size \in Nat
         /\ string.at + string.size \in Nat /\ string.at + string.size >= left
  <1>1. string \in [at : Nat, size : Nat, use : {"colon", "value"}] /\ left \in Nat
        /\ string.at = left
    BY DEF JsonInv, JsonTypeOK, StringsInv
  <1> QED  BY <1>1

LEMMA AppendKeeps ==
  ASSUME JsonInv, StringsInv, UNCHANGED inputVars, pc \in {"string", "bare"}, NEW c, AppendChar(c)
  PROVE  KeptBelow /\ left' = left /\ string'.at = string.at /\ pc' = pc /\ slots' = slots
  <1>1. PICK at \in Nat : at = string.at + string.size /\ at >= left /\ left \in Nat
    BY StringWhere DEF InString
  <1>2. /\ input' = input \/ input' = [input EXCEPT ![at] = c]
        /\ memory' = memory \/ memory' = [memory EXCEPT ![at] = c]
        /\ left' = left /\ pc' = pc /\ slots' = slots
        /\ string' = IF Fits(at) THEN [string EXCEPT !.size = @ + 1] ELSE string
    BY <1>1 DEF AppendChar
  <1>3. string'.at = string.at
    BY <1>2 DEF JsonInv, JsonTypeOK
  <1>4. left' >= left
    BY <1>1, <1>2
  <1>5. PICK old : old = memory'
    OBVIOUS
  <1>6. KeptBelow
    BY <1>1, <1>2, <1>4, <1>5, KeptWritten
  <1> QED  BY <1>2, <1>3, <1>6

\* ... and ends there, unless there is a copy of it.
LEMMA SavedKeeps ==
  ASSUME JsonInv, StringsInv, UNCHANGED inputVars, pc \in {"colon", "value"},
         input' = TerminatedInput,
         \/ memory' = TerminatedMemory
         \/ memory' = WithSlotBytes(TerminatedMemory)
            /\ (storage = "copy" => SavedEnd + SlotSize <= Right),
         left' \in {SavedEnd, string.at + string.size} \/ left' = left
  PROVE  KeptBelow /\ left' \in Nat
  <1>1. PICK at \in Nat : at = string.at + string.size /\ at >= left /\ left \in Nat
    BY StringWhere DEF InString
  <1>2. PICK end \in Nat : end = SavedEnd /\ end >= left
    <2>1. SavedEnd \in {left, at + 1}
      BY <1>1 DEF SavedEnd, Stored
    <2> QED  BY <1>1, <2>1
  <1>3. /\ input' = input \/ input' = [input EXCEPT ![at] = NUL]
        /\ TerminatedMemory = memory \/ TerminatedMemory = [memory EXCEPT ![at] = NUL]
    BY <1>1 DEF TerminatedInput, TerminatedMemory, Terminated
  <1>4. left' \in {end, at, left}
    BY <1>1, <1>2
  <1>5. left' >= left /\ left' \in Nat
    BY <1>1, <1>2, <1>4
  <1>6. PICK old : old = TerminatedMemory
    OBVIOUS
  <1>7. storage = "copy" /\ SavedEnd + SlotSize <= Right => left <= Right - SlotSize
    <2>1. Right \in Int /\ SlotSize \in Nat
      BY RightIsInt, JsonConstants DEF JsonInv
    <2> QED  BY <1>1, <1>2, <2>1
  <1>8. \/ memory' = old
        \/ memory' = WithSlotBytes(old) /\ (storage = "copy" => left <= Right - SlotSize)
    BY <1>6, <1>7
  <1>9. pc # "done"
    OBVIOUS
  <1>10. old = memory \/ old = [memory EXCEPT ![at] = NUL]
    BY <1>3, <1>6
  <1>11. input' = input \/ input' = [input EXCEPT ![at] = NUL]
    BY <1>3
  <1>12. KeptBelow
    BY <1>1, <1>5, <1>8, <1>9, <1>10, <1>11, KeptWritten
  <1> QED  BY <1>5, <1>12

LEMMA ParsedLength == ASSUME JsonInv PROVE Len(Parsed) = string.size
  BY DEF JsonInv, JsonTypeOK, Parsed, Bytes

\* A string that is saved, as a key or as a value, ends below the strings' new end.
LEMMA SavedEnds ==
  ASSUME JsonInv, StringsInv, UNCHANGED inputVars, pc \in {"colon", "value"},
         input' = TerminatedInput, left' = SavedEnd,
         \/ memory' = TerminatedMemory
         \/ memory' = WithSlotBytes(TerminatedMemory)
            /\ (storage = "copy" => SavedEnd + SlotSize <= Right),
         NEW k \in Nat, k = SavedAt
  PROVE  EndsBelow(k)' /\ k + string.size < left'
  <1>1. PICK at \in Nat : at = string.at + string.size /\ at >= left /\ left \in Nat
    BY StringWhere DEF InString
  <1>2. KeptBelow /\ left' \in Nat
    BY SavedKeeps
  <1>3. Stored => k \in Copies(Parsed)
    BY SavedSomewhere DEF JsonInv
  <1>5. CASE Stored
    <2>1. storage = "copy" /\ left' = left
      BY <1>5 DEF Stored, SavedEnd
    <2>2. k + Len(Parsed) < left /\ memory[k + Len(Parsed)] = NUL
      BY <1>3, <1>5 DEF Copies
    <2>3. PICK z \in Nat : z = string.size /\ Len(Parsed) = z
      BY ParsedLength, StringWhere DEF InString
    <2>4. k + z \in k .. left - 1 /\ Zone[k + z] = NUL
      BY <1>1, <2>1, <2>2, <2>3 DEF Zone
    <2>5. EndsBelow(k)
      BY <2>4 DEF EndsBelow
    <2>6. EndsBelow(k)'
      BY <1>1, <1>2, <2>5, EndsStay
    <2> QED  BY <2>1, <2>2, <2>3, <2>6
  <1>6. CASE ~Stored
    <2>1. k = string.at /\ left' = at + 1 /\ k = left /\ string.size \in Nat
      BY <1>1, <1>6, StringWhere DEF SavedAt, SavedEnd, InString
    <2>2. k <= at
      BY <1>1, <2>1
    <2>3. Zone'[at] = NUL
      <3>1. CASE storage = "copy"
        <4>1. at < Right /\ Right \in Int /\ Right <= capacity /\ capacity \in Nat /\ SlotSize \in Nat
          <5>1. Right \in Int /\ capacity \in Nat
            BY RightIsInt DEF JsonInv
          <5>2. at + 1 <= Right
            BY <1>1, <3>1, StringSaved
          <5>3. \A a, b \in Int : 0 <= b => a - b <= a
            OBVIOUS
          <5>4. SlotSize * Allocated \in Int /\ 0 <= SlotSize * Allocated /\ SlotSize \in Nat
            BY JsonConstants DEF JsonInv, JsonTypeOK
          <5> QED  BY <5>1, <5>2, <5>3, <5>4 DEF Right
        <4>2. at \in 0 .. capacity - 1 /\ DOMAIN memory = 0 .. capacity - 1
          BY <4>1 DEF JsonInv, JsonTypeOK
        <4>3. TerminatedMemory[at] = NUL /\ DOMAIN TerminatedMemory = DOMAIN memory
          BY <1>1, <3>1, <4>2 DEF TerminatedMemory, Terminated
        <4>4. CASE memory' = TerminatedMemory
          BY <3>1, <4>3, <4>4 DEF Zone, inputVars
        <4>5. CASE memory' = WithSlotBytes(TerminatedMemory) /\ SavedEnd + SlotSize <= Right
          <5>1. at + 1 + SlotSize <= Right
            BY <1>6, <4>5, <1>1 DEF SavedEnd
          <5>2. at \notin Right - SlotSize .. Right - 1
            BY <4>1, <5>1
          <5>3. memory'[at] = TerminatedMemory[at]
            BY <4>2, <4>3, <4>5, <5>2 DEF WithSlotBytes
          <5> QED  BY <3>1, <4>3, <5>3 DEF Zone, inputVars
        <4> QED  BY <3>1, <4>4, <4>5
      <3>2. CASE storage = "move"
        <4>1. at <= position /\ position \in 0 .. Len(text)
          BY <1>1, <3>2, StringSaved DEF JsonInv, JsonTypeOK
        <4>2. at \in 0 .. Len(text) /\ DOMAIN input = 0 .. Len(text)
          BY <4>1 DEF JsonInv, JsonTypeOK
        <4>3. input'[at] = NUL
          BY <1>1, <3>2, <4>2 DEF TerminatedInput, Terminated
        <4> QED  BY <3>2, <4>3 DEF Zone, inputVars
      <3> QED  BY <3>1, <3>2 DEF JsonInv, JsonTypeOK
    <2>4. at \in k .. left' - 1
      BY <2>1, <2>2
    <2>5. EndsBelow(k)'
      BY <2>3, <2>4 DEF EndsBelow
    <2>6. k + string.size < left'
      BY <1>1, <2>1
    <2> QED  BY <2>5, <2>6
  <1> QED  BY <1>5, <1>6

\* What every step does to the strings.
StringStep ==
    /\ KeptBelow /\ left' \in Nat
    /\ pc' \in InString => string'.at = left'

LEMMA StringFails ==
  ASSUME JsonInv, UNCHANGED inputVars, NEW code, Fails(code)
  PROVE  StringStep
  BY FailsKeeps, KeptUnwritten DEF StringStep, InString, JsonInv, JsonTypeOK

LEMMA StringUnwritten ==
  ASSUME JsonInv, UNCHANGED inputVars, UNCHANGED <<input, memory, left>>, pc' \notin InString
  PROVE  StringStep
  BY KeptUnwritten DEF StringStep, JsonInv, JsonTypeOK

LEMMA StringStarts ==
  ASSUME JsonInv, UNCHANGED inputVars, NEW use, StartString(use)
  PROVE  StringStep
  BY KeptUnwritten DEF StringStep, StartString, JsonInv, JsonTypeOK

LEMMA StringEnds ==
  ASSUME JsonInv, StringsInv, UNCHANGED inputVars, NEW next, EndString(next), pc \in {"string", "bare"}
  PROVE  StringStep
  <1>1. CASE overflowed
    BY <1>1, StringFails DEF EndString
  <1>2. CASE ~overflowed
    <2>1. UNCHANGED <<input, memory, left, string>>
      BY <1>2 DEF EndString, poolVars
    <2>2. KeptBelow /\ left' \in Nat
      BY <2>1, KeptUnwritten DEF JsonInv, JsonTypeOK
    <2>3. string.at = left
      BY DEF StringsInv, InString
    <2> QED  BY <2>1, <2>2, <2>3 DEF StringStep
  <1> QED  BY <1>1, <1>2

LEMMA StringAppends ==
  ASSUME JsonInv, StringsInv, UNCHANGED inputVars, pc \in {"string", "bare"}, NEW c, AppendChar(c)
  PROVE  StringStep
  BY AppendKeeps DEF StringStep, StringsInv, InString, JsonInv, JsonTypeOK

LEMMA ElementKeeps ==
  ASSUME JsonInv, StringsInv, UNCHANGED inputVars, pc \in {"first", "more"}, AddElement
  PROVE  StringStep
  <1>1. /\ AddSlot(-1, memory, PoolLeft) /\ UNCHANGED <<input, left, string>>
        /\ Right \in Int /\ SlotSize \in Nat /\ left \in Nat
    BY RightIsInt, JsonConstants DEF AddElement, JsonInv, JsonTypeOK
  <1>2. \/ memory' = memory
        \/ memory' = WithSlotBytes(memory) /\ PoolLeft + SlotSize <= Right
    BY <1>1 DEF AddSlot
  <1>3. storage = "copy" /\ PoolLeft + SlotSize <= Right => left <= Right - SlotSize
    BY <1>1 DEF PoolLeft
  <1>4. pc' \notin InString
    BY <1>1, AddSlotGoesOn DEF InString
  <1>5. PICK old : old = memory
    OBVIOUS
  <1>6. \/ memory' = old
        \/ memory' = WithSlotBytes(old) /\ (storage = "copy" => left <= Right - SlotSize)
    BY <1>2, <1>3, <1>5
  <1>7. left' >= left /\ left >= left
    BY <1>1
  <1>8. KeptBelow
    BY <1>1, <1>5, <1>6, <1>7, KeptWritten
  <1> QED  BY <1>1, <1>4, <1>8 DEF StringStep

LEMMA EveryStringStep == ASSUME JsonInv, StringsInv, JsonNext PROVE StringStep
  <1>i. UNCHANGED inputVars
    BY DEF JsonNext
  <1>1. CASE ParseVariant
    <2>1. CASE \E code : Fails(code)
      BY <1>i, <2>1, StringFails
    <2>2. CASE StartString("value")
      BY <1>i, <2>2, StringStarts
    <2>3. CASE UNCHANGED <<input, memory, left>> /\ pc' \in {"first", "more", "done"}
      BY <1>i, <2>3, StringUnwritten DEF InString
    <2> QED  BY <1>1, <2>1, <2>2, <2>3 DEF ParseVariant, Ended, Stop
  <1>2. CASE ParseFirst
    <2>1. CASE Ended("IncompleteInput")
      BY <1>i, <2>1, StringFails DEF Ended
    <2>2. CASE Close
      BY <1>i, <2>2, StringUnwritten DEF Close, poolVars, InString
    <2>3. CASE AddElement
      BY <1>i, <1>2, <2>3, ElementKeeps DEF ParseFirst
    <2>4. CASE pc' = "key" /\ UNCHANGED poolVars
      BY <1>i, <2>4, StringUnwritten DEF poolVars, InString
    <2> QED  BY <1>2, <2>1, <2>2, <2>3, <2>4 DEF ParseFirst
  <1>3. CASE ParseKey
    <2>1. CASE Ended("IncompleteInput")
      BY <1>i, <2>1, StringFails DEF Ended
    <2>2. CASE StartString("colon")
      BY <1>i, <2>2, StringStarts
    <2> QED  BY <1>3, <2>1, <2>2 DEF ParseKey
  <1>4. CASE ParseString
    <2>0. pc = "string"
      BY <1>4 DEF ParseString
    <2>1. CASE \E code : Fails(code)
      BY <1>i, <2>1, StringFails
    <2>2. CASE \E c : AppendChar(c)
      BY <1>i, <2>0, <2>2, StringAppends
    <2>3. CASE EndString(position + 1)
      BY <1>i, <2>0, <2>3, StringEnds
    <2> QED  BY <1>4, <2>1, <2>2, <2>3 DEF ParseString, Ended
  <1>5. CASE ParseBareKey
    <2>0. pc = "bare"
      BY <1>5 DEF ParseBareKey
    <2>2. CASE \E c : AppendChar(c)
      BY <1>i, <2>0, <2>2, StringAppends
    <2>3. CASE EndString(position)
      BY <1>i, <2>0, <2>3, StringEnds
    <2> QED  BY <1>5, <2>2, <2>3 DEF ParseBareKey
  <1>6. CASE SetString
    <2>1. KeptBelow /\ left' \in Nat
      BY <1>i, <1>6, SavedKeeps DEF SetString
    <2> QED  BY <1>6, <2>1 DEF SetString, StringStep, InString
  <1>7. CASE ParseColon
    <2>0. pc = "colon"
      BY <1>7 DEF ParseColon
    <2>1. CASE \E code : Fails(code)
      BY <1>i, <2>1, StringFails
    <2>2. CASE AddMember /\ input' = TerminatedInput
      <3>1. \/ memory' = TerminatedMemory
            \/ memory' = WithSlotBytes(TerminatedMemory)
               /\ (storage = "copy" => SavedEnd + SlotSize <= Right)
        BY <2>2 DEF AddMember, AddSlot
      <3>2. pc' \notin InString /\ left' = SavedEnd
        BY <2>2, AddSlotGoesOn DEF InString, AddMember
      <3> QED  BY <1>i, <2>0, <2>2, <3>1, <3>2, SavedKeeps DEF StringStep
    <2>3. CASE /\ input' = TerminatedInput /\ memory' = TerminatedMemory /\ pc' = "variant"
               /\ left' = IF storage = "move" THEN string.at + string.size ELSE left
      <3>1. KeptBelow /\ left' \in Nat
        BY <1>i, <2>0, <2>3, SavedKeeps
      <3> QED  BY <2>3, <3>1 DEF StringStep, InString
    <2> QED  BY <1>7, <2>1, <2>2, <2>3 DEF ParseColon, Ended
  <1>8. CASE ParseMore
    <2>1. CASE \E code : Fails(code)
      BY <1>i, <2>1, StringFails
    <2>2. CASE Close
      BY <1>i, <2>2, StringUnwritten DEF Close, poolVars, InString
    <2>3. CASE AddElement
      BY <1>i, <1>8, <2>3, ElementKeeps DEF ParseMore
    <2>4. CASE pc' = "key" /\ UNCHANGED poolVars
      BY <1>i, <2>4, StringUnwritten DEF poolVars, InString
    <2> QED  BY <1>8, <2>1, <2>2, <2>3, <2>4 DEF ParseMore, Ended
  <1> QED  BY <1>1, <1>2, <1>3, <1>4, <1>5, <1>6, <1>7, <1>8 DEF JsonNext

\* What a step does to a slot's strings.
LEMMA SlotStrings ==
  ASSUME JsonInv, SlotsTyped, SlotStep, NEW s \in 0 .. Allocated
  PROVE  /\ slots'[s].key = slots[s].key
         /\ \/ SetString /\ slots'[s].at = SavedAt /\ slots'[s].size = string.size
            \/ slots'[s].at = slots[s].at /\ slots'[s].size = slots[s].size
               /\ (slots'[s].type = "string" => slots[s].type = "string")
  <1>1. slots \in [0 .. Allocated -> SlotRecords] /\ variant \in 0 .. Allocated
    BY DEF SlotsTyped
  <1>2. PICK r \in SlotRecords : r = slots[s]
    BY <1>1
  <1>3. CASE slots' = slots
    BY <1>3
  <1>4. CASE slots' = Emptied("array") \/ slots' = Emptied("object")
    <2>1. slots'[s] \in {r, [r EXCEPT !.type = "array", !.head = 0, !.tail = 0],
                             [r EXCEPT !.type = "object", !.head = 0, !.tail = 0]}
      BY <1>1, <1>2, <1>4 DEF Emptied
    <2> QED  BY <1>2, <2>1 DEF SlotRecords
  <1>5. CASE slots' = [slots EXCEPT ![variant].type = "number"]
    <2>1. slots'[s] \in {r, [r EXCEPT !.type = "number"]}
      BY <1>1, <1>2, <1>5
    <2> QED  BY <1>2, <2>1 DEF SlotRecords
  <1>6. CASE SetString
    <2>1. PICK a : a = SavedAt
      OBVIOUS
    <2>2. slots'[s] = r \/ slots'[s] = [r EXCEPT !.type = "string", !.at = a, !.size = string.size]
      BY <1>1, <1>2, <1>6, <2>1 DEF SetString
    <2> QED  BY <1>2, <1>6, <2>1, <2>2 DEF SlotRecords
  <1>7. CASE \E c, key : slots' = WithSlot(slots, c, key)
    <2>1. PICK n \in Nat : n = Allocated + 1 /\ s # n /\ s \in 0 .. n
      BY DEF JsonInv, JsonTypeOK
    <2>2. slots'[s] \in {r, [r EXCEPT !.head = n, !.tail = n], [r EXCEPT !.tail = n], [r EXCEPT !.next = n]}
      BY <1>2, <1>7, <2>1 DEF WithSlot
    <2> QED  BY <1>2, <2>2 DEF SlotRecords
  <1> QED  BY <1>3, <1>4, <1>5, <1>6, <1>7 DEF SlotStep, NewMember, Added

LEMMA NewSlotStrings ==
  ASSUME JsonInv, NEW c, NEW key, slots' = WithSlot(slots, c, key)
  PROVE  slots'[Allocated + 1].key = key /\ slots'[Allocated + 1].type = "null"
  <1>1. PICK n \in Nat : n = Allocated + 1 /\ n \in 0 .. n
    BY DEF JsonInv, JsonTypeOK
  <1>2. slots'[n] = [EmptySlot EXCEPT !.key = key]
    BY <1>1 DEF WithSlot
  <1> QED  BY <1>1, <1>2 DEF EmptySlot

\* So strings that are kept stay below the strings' end.
LEMMA StringsStep ==
  ASSUME JsonInv, SlotsTyped, StringsInv, JsonNext, JsonInv', SlotsTyped'
  PROVE  StringsInv'
  <1>1. SlotStep /\ StringStep /\ UNCHANGED inputVars
    BY EveryStep, EveryStringStep DEF JsonNext
  <1>2. /\ KeptBelow /\ left \in Nat /\ left' \in Nat
        /\ pc' \in InString => string'.at = left'
    BY <1>1 DEF StringStep, JsonInv, JsonTypeOK
  <1>3. ASSUME NEW s \in 0 .. Allocated
        PROVE  /\ slots'[s].key >= 0 => \E k : k = slots'[s].key /\ EndsBelow(k)'
               /\ slots'[s].type = "string" => slots'[s].at + slots'[s].size < left'
    <2>1. slots[s] \in SlotRecords
      BY DEF SlotsTyped
    <2>2. PICK k \in Nat \cup {-1} : k = slots[s].key
      BY <2>1 DEF SlotRecords
    <2>3. k >= 0 => EndsBelow(k)
      BY <2>2 DEF StringsInv
    <2>4. k >= 0 => EndsBelow(k)'
      BY <1>2, <2>2, <2>3, EndsStay
    <2>5. CASE slots'[s].type = "string" /\ slots[s].type = "string"
               /\ slots'[s].at = slots[s].at /\ slots'[s].size = slots[s].size
      <3>1. PICK z \in Nat : z = left
        BY <1>2
      <3>2. PICK y \in Nat : y = left'
        BY <1>2
      <3>3. y >= z
        BY <1>2, <3>1, <3>2 DEF KeptBelow
      <3>4. PICK a \in Nat : a = slots[s].at
        BY <2>1 DEF SlotRecords
      <3>5. PICK b \in Nat : b = slots[s].size
        BY <2>1 DEF SlotRecords
      <3>6. a + b < z
        BY <2>5, <3>1, <3>4, <3>5 DEF StringsInv
      <3>7. a + b < y
        BY <3>3, <3>6
      <3>8. slots'[s].at + slots'[s].size < left'
        BY <2>5, <3>2, <3>4, <3>5, <3>7
      <3> QED  BY <1>1, <2>2, <2>4, <3>8, SlotStrings
    <2>6. CASE SetString /\ slots'[s].at = SavedAt /\ slots'[s].size = string.size
      <3>1. PICK a \in Nat : a = SavedAt
        BY SavedSomewhere DEF JsonInv
      <3>2. a + string.size < left'
        BY <1>1, <2>6, <3>1, SavedEnds DEF SetString
      <3> QED  BY <1>1, <2>2, <2>4, <2>6, <3>1, <3>2, SlotStrings
    <2> QED  BY <1>1, <2>2, <2>4, <2>5, <2>6, SlotStrings
  <1>4. ASSUME NEW s \in 0 .. Allocated', s \notin 0 .. Allocated
        PROVE  /\ slots'[s].key >= 0 => \E k : k = slots'[s].key /\ EndsBelow(k)'
               /\ slots'[s].type = "string" => slots'[s].at + slots'[s].size < left'
    <2>1. Allocated' = Allocated + 1 /\ (Added(-1) \/ NewMember)
      <3>1. JsonTypeOK /\ slots \in [0 .. Allocated -> SlotRecords] /\ variant \in 0 .. Allocated
        BY DEF JsonInv, SlotsTyped
      <3>2. Allocated' # Allocated
        BY <1>4
      <3>3. ~(slots' = slots)
        BY <3>2 DEF Allocated
      <3>4. DOMAIN slots' # DOMAIN slots
        BY <3>2 DEF Allocated
      <3> QED  BY <1>1, <3>1, <3>2, <3>3, <3>4, AllocatedKept DEF SlotStep, Emptied, SetString
    <2>2. s = Allocated + 1
      BY <1>4, <2>1 DEF JsonInv, JsonTypeOK
    <2>3. CASE Added(-1)
      BY <2>2, <2>3, NewSlotStrings DEF Added
    <2>4. CASE NewMember
      <3>1. PICK k \in Nat : k = SavedAt
        BY SavedSomewhere DEF JsonInv
      <3>2. slots'[s].key = k /\ slots'[s].type = "null"
        BY <2>2, <2>4, <3>1, NewSlotStrings DEF NewMember, Added
      <3>3. /\ pc = "colon" /\ input' = TerminatedInput /\ left' = SavedEnd
            /\ \/ memory' = TerminatedMemory
               \/ memory' = WithSlotBytes(TerminatedMemory)
                  /\ (storage = "copy" => SavedEnd + SlotSize <= Right)
        BY <2>4 DEF NewMember, AddMember, AddSlot
      <3>4. EndsBelow(k)'
        BY <1>1, <3>1, <3>3, SavedEnds
      <3> QED  BY <3>2, <3>4
    <2> QED  BY <2>1, <2>3, <2>4
  <1>5. ASSUME NEW s \in 0 .. Allocated'
        PROVE  /\ (slots[s].key >= 0 => EndsBelow(slots[s].key))'
               /\ (slots[s].type = "string" => slots[s].at + slots[s].size < left)'
    <2>1. slots'[s].key >= 0 => \E k : k = slots'[s].key /\ EndsBelow(k)'
      BY <1>3, <1>4
    <2>2. slots'[s].type = "string" => slots'[s].at + slots'[s].size < left'
      BY <1>3, <1>4
    <2> QED  BY <2>1, <2>2 DEF EndsBelow
  <1> QED  BY <1>2, <1>5 DEF StringsInv

LEMMA StringsBegin == JsonInit => StringsInv
  <1> SUFFICES ASSUME NEW t \in Seq(Characters), Begin(t) PROVE StringsInv
    BY DEF JsonInit
  <1>1. slots = [i \in {0} |-> EmptySlot] /\ pc = "variant"
    BY DEF Begin
  <1>2. Allocated = 0
    <2>1. DOMAIN slots = {0} /\ Cardinality({0}) = 1
      BY <1>1, FS_Singleton
    <2> QED  BY <2>1 DEF Allocated
  <1> QED  BY <1>1, <1>2 DEF StringsInv, EmptySlot, InString

LEMMA StringsKept ==
  ASSUME JsonInv, SlotsTyped, StringsInv, [JsonNext]_jsonVars PROVE StringsInv'
  <1>1. CASE UNCHANGED jsonVars
    <2>1. UNCHANGED <<slots, pc, string, left, storage, memory, input>>
      BY <1>1 DEF jsonVars, inputVars, poolVars
    <2>2. Allocated' = Allocated /\ Zone' = Zone
      BY <2>1 DEF Allocated, Zone
    <2> QED  BY <2>1, <2>2 DEF StringsInv, EndsBelow
  <1>2. CASE JsonNext
    BY <1>2, StringsStep, JsonKept, SlotsKept
  <1> QED  BY <1>1, <1>2

\* A key or a string that the document holds stays what it was: neither the string
\* parsed next, nor a terminator, nor a slot is ever written over it, whether the
\* parser moves strings in the input or copies them into the pool.
THEOREM HeldStringsStay == JsonSpec => StringsStay
  <1>1. JsonInit => JsonInv /\ SlotsTyped /\ StringsInv
    BY JsonBegins, SlotsBegin, StringsBegin
  <1>2. JsonInv /\ SlotsTyped /\ StringsInv /\ [JsonNext]_jsonVars
            => (JsonInv /\ SlotsTyped /\ StringsInv)'
    BY JsonKept, SlotsKept, StringsKept
  <1>3. JsonInv /\ SlotsTyped /\ StringsInv /\ [JsonNext]_jsonVars
            => [\A s \in DOMAIN slots :
                  /\ slots[s].key >= 0 => CString(slots[s].key)' = CString(slots[s].key)
                  /\ slots[s].type = "string" /\ slots'[s].at = slots[s].at /\ slots'[s].size = slots[s].size
                        => Held(s)' = Held(s)]_jsonVars
    <2> SUFFICES ASSUME JsonInv, SlotsTyped, StringsInv, JsonNext, NEW s \in DOMAIN slots
                 PROVE  /\ slots[s].key >= 0 => CString(slots[s].key)' = CString(slots[s].key)
                        /\ slots[s].type = "string" /\ slots'[s].at = slots[s].at
                               /\ slots'[s].size = slots[s].size => Held(s)' = Held(s)
      OBVIOUS
    <2>1. SlotStep /\ KeptBelow /\ UNCHANGED inputVars /\ pc # "done"
      BY EveryStep, EveryStringStep, EveryStepMoves DEF JsonNext, StringStep, Moves
    <2>2. s \in 0 .. Allocated /\ slots[s] \in SlotRecords /\ left \in Nat
      BY DEF JsonInv, JsonTypeOK, SlotsTyped
    <2>3. slots'[s].key = slots[s].key
      BY <2>1, <2>2, SlotStrings
    <2>4. ASSUME slots[s].key >= 0 PROVE CString(slots[s].key)' = CString(slots[s].key)
      <3>1. PICK k \in Nat : k = slots[s].key
        BY <2>2, <2>4 DEF SlotRecords
      <3>2. EndsBelow(k)
        BY <2>2, <2>4, <3>1 DEF StringsInv
      <3>3. CString(k)' = CString(k)
        BY <2>1, <3>2, CStringStays
      <3>4. CString(slots[s].key)' = CString(k)'
        BY <2>3, <3>1 DEF CString
      <3> QED  BY <3>1, <3>3, <3>4
    <2>5. ASSUME slots[s].type = "string", slots'[s].at = slots[s].at, slots'[s].size = slots[s].size
          PROVE  Held(s)' = Held(s)
      <3>1. PICK a \in Nat : a = slots[s].at
        BY <2>2 DEF SlotRecords
      <3>2. PICK z \in Nat : z = slots[s].size
        BY <2>2 DEF SlotRecords
      <3>3. a + z <= left
        BY <2>2, <2>5, <3>1, <3>2 DEF StringsInv
      <3>4. Bytes(a, z)' = Bytes(a, z)
        BY <2>1, <2>2, <3>3, BytesStay
      <3>5. Held(s)' = Bytes(a, z)' /\ Held(s) = Bytes(a, z)
        BY <2>5, <3>1, <3>2 DEF Held, Bytes
      <3> QED  BY <3>4, <3>5
    <2> QED  BY <2>4, <2>5
  <1> QED  BY <1>1, <1>2, <1>3, PTL DEF JsonSpec, StringsStay

-----------------------------------------------------------------------------
(* Lists stay apart                                                          *)

\* c's list, and s's place in a list.
HasList(h, x, l, n, p, c) ==
    /\ h[c] = 0 <=> l[c] = 0
    /\ h[c] # 0 => h[c] > c /\ h[c] <= n /\ p[h[c]] = c
    /\ l[c] # 0 => l[c] > c /\ l[c] <= n /\ p[l[c]] = c /\ x[l[c]] = 0
InList(x, l, n, p, s) ==
    /\ x[s] # 0 => x[s] > s /\ x[s] <= n /\ p[x[s]] = p[s]
    /\ x[s] = 0 /\ p[s] >= 0 => l[p[s]] = s
Chained(h, x, l, n, p) ==
    /\ \A c \in 0 .. n : HasList(h, x, l, n, p, c)
    /\ \A s \in 1 .. n : InList(x, l, n, p, s)

\* The links of a number of slots, as they should be; ...
Links(n) == [0 .. n -> Nat]
Linked(h, x, l, n) == \E p \in [1 .. n -> -1 .. n] : Chained(h, x, l, n, p)
\* ... with one more in the list of c, or with nothing in it.
Grown(h, x, l, hh, xx, ll, n, c) ==
    /\ hh[n + 1] = 0 /\ xx[n + 1] = 0 /\ ll[n + 1] = 0
    /\ \A s \in 0 .. n : hh[s] = IF s = c /\ l[c] = 0 THEN n + 1 ELSE h[s]
    /\ \A s \in 0 .. n : ll[s] = IF s = c THEN n + 1 ELSE l[s]
    /\ \A s \in 0 .. n : xx[s] = IF s = l[c] /\ s # 0 THEN n + 1 ELSE x[s]
Cleared(h, l, hh, ll, n, c) ==
    /\ \A s \in 0 .. n : hh[s] = IF s = c THEN 0 ELSE h[s]
    /\ \A s \in 0 .. n : ll[s] = IF s = c THEN 0 ELSE l[s]

\* A slot more, at its collection's tail.
LEMMA ChainGrows ==
  ASSUME NEW n \in Nat, NEW h \in Links(n), NEW x \in Links(n), NEW l \in Links(n),
         NEW c \in 0 .. n, Linked(h, x, l, n), NEW hh, NEW xx, NEW ll, Grown(h, x, l, hh, xx, ll, n, c)
  PROVE  Linked(hh, xx, ll, n + 1)
  <1>a. PICK p \in [1 .. n -> -1 .. n] : Chained(h, x, l, n, p)
    BY DEF Linked
  <1>b. h \in [0 .. n -> Nat] /\ x \in [0 .. n -> Nat] /\ l \in [0 .. n -> Nat]
    BY DEF Links
  <1>c. /\ hh[n + 1] = 0 /\ xx[n + 1] = 0 /\ ll[n + 1] = 0
        /\ \A s \in 0 .. n : hh[s] = IF s = c /\ l[c] = 0 THEN n + 1 ELSE h[s]
        /\ \A s \in 0 .. n : ll[s] = IF s = c THEN n + 1 ELSE l[s]
        /\ \A s \in 0 .. n : xx[s] = IF s = l[c] /\ s # 0 THEN n + 1 ELSE x[s]
    BY DEF Grown
  <1> USE <1>a, <1>b, <1>c
  <1> DEFINE pp == [s \in 1 .. n + 1 |-> IF s = n + 1 THEN c ELSE p[s]]
  <1>p. \A s \in 1 .. n : p[s] \in -1 .. n
    OBVIOUS
  <1>1. pp \in [1 .. n + 1 -> -1 .. n + 1]
    <2>1. ASSUME NEW s \in 1 .. n + 1 PROVE (IF s = n + 1 THEN c ELSE p[s]) \in -1 .. n + 1
      <3>1. CASE s = n + 1
        BY <3>1
      <3>2. CASE s # n + 1
        <4>1. s \in 1 .. n
          BY <3>2
        <4>2. PICK v \in -1 .. n : v = p[s]
          BY <4>1, <1>p
        <4>3. v \in -1 .. n + 1
          OBVIOUS
        <4> QED  BY <3>2, <4>2, <4>3
      <3> QED  BY <3>1, <3>2
    <2> QED  BY <2>1
  <1>2. pp[n + 1] = c
    OBVIOUS
  <1>q. ASSUME NEW s \in 1 .. n PROVE pp[s] = p[s]
    <2>1. s # n + 1 /\ s \in 1 .. n + 1
      OBVIOUS
    <2> QED  BY <2>1
  <1>h. /\ \A s \in 0 .. n : HasList(h, x, l, n, p, s)
        /\ \A s \in 1 .. n : InList(x, l, n, p, s)
    BY DEF Chained
  <1> HIDE DEF pp
  <1>3. ASSUME NEW s \in 0 .. n + 1
        PROVE  HasList(hh, xx, ll, n + 1, pp, s)
    <2>1. CASE s = n + 1
      BY <2>1 DEF HasList
    <2>2. CASE s \in 0 .. n /\ s = c
      <3>1. ll[s] = n + 1 /\ n + 1 > s /\ n + 1 # 0
        BY <2>2
      <3>2. hh[s] = IF l[c] = 0 THEN n + 1 ELSE h[s]
        BY <2>2
      <3>3. l[c] = 0 <=> h[s] = 0
        BY <2>2, <1>h DEF HasList
      <3>4. h[s] # 0 => h[s] > s /\ h[s] <= n /\ p[h[s]] = s
        BY <2>2, <1>h DEF HasList
      <3>5. h[s] \in Nat
        BY <2>2
      <3>6. h[s] # 0 => pp[h[s]] = s /\ h[s] <= n + 1
        <4> SUFFICES ASSUME h[s] # 0 PROVE pp[h[s]] = s /\ h[s] <= n + 1
          OBVIOUS
        <4>1. PICK a \in 1 .. n : a = h[s]
          BY <3>4, <3>5
        <4>2. pp[a] = p[a]
          BY <1>q
        <4> QED  BY <4>1, <4>2, <3>4
      <3>7. hh[s] # 0 /\ hh[s] > s /\ hh[s] <= n + 1 /\ pp[hh[s]] = s
        <4>1. CASE l[c] = 0
          BY <3>1, <3>2, <4>1, <2>2, <1>2
        <4>2. CASE l[c] # 0
          <5>1. hh[s] = h[s] /\ h[s] # 0
            BY <2>2, <3>2, <3>3, <4>2
          <5> QED  BY <3>4, <3>6, <5>1
        <4> QED  BY <4>1, <4>2
      <3>8. ll[s] <= n + 1 /\ pp[ll[s]] = s /\ xx[ll[s]] = 0
        BY <2>2, <3>1, <1>2
      <3> QED  BY <3>1, <3>7, <3>8 DEF HasList
    <2>3. CASE s \in 0 .. n /\ s # c
      <3>1. hh[s] = h[s] /\ ll[s] = l[s]
        BY <2>3
      <3>2. PICK a \in Nat : a = h[s]
        BY <2>3
      <3>3. PICK b \in Nat : b = l[s]
        BY <2>3
      <3>4. /\ a = 0 <=> b = 0
            /\ a # 0 => a > s /\ a <= n /\ p[a] = s
            /\ b # 0 => b > s /\ b <= n /\ p[b] = s /\ x[b] = 0
        BY <2>3, <3>2, <3>3, <1>h DEF HasList
      <3>5. l[c] # 0 => p[l[c]] = c
        BY <1>h DEF HasList
      <3>6. b # 0 => b # l[c]
        BY <3>4, <3>5, <2>3
      <3>7. b # 0 => b \in 1 .. n /\ b \in 0 .. n
        BY <3>4
      <3>8. ASSUME b # 0 PROVE xx[b] = 0 /\ pp[b] = s
        <4>1. b \in 1 .. n /\ b \in 0 .. n
          BY <3>7, <3>8
        <4>2. pp[b] = p[b]
          BY <4>1, <1>q
        <4>3. xx[b] = x[b]
          BY <4>1, <3>6, <3>8
        <4> QED  BY <3>4, <3>8, <4>2, <4>3
      <3>9. ASSUME a # 0 PROVE a \in 1 .. n /\ pp[a] = s
        <4>1. a \in 1 .. n
          BY <3>4, <3>9
        <4>2. pp[a] = p[a]
          BY <4>1, <1>q
        <4> QED  BY <3>4, <3>9, <4>1, <4>2
      <3>10. (a # 0 => a <= n + 1) /\ (b # 0 => b <= n + 1)
        BY <3>4
      <3> QED  BY <3>1, <3>2, <3>3, <3>4, <3>8, <3>9, <3>10, Zenon DEF HasList
    <2> QED  BY <2>1, <2>2, <2>3
  <1>4. ASSUME NEW s \in 1 .. n + 1
        PROVE  InList(xx, ll, n + 1, pp, s)
    <2>1. CASE s = n + 1
      BY <2>1, <1>2 DEF InList
    <2>2. CASE s \in 1 .. n /\ s = l[c]
      <3>1. xx[s] = n + 1 /\ n + 1 > s /\ n + 1 # 0 /\ pp[s] = p[s] /\ n + 1 <= n + 1
        <4>1. pp[s] = p[s]
          BY <2>2, <1>q
        <4>2. xx[s] = n + 1
          BY <2>2
        <4> QED  BY <2>2, <4>1, <4>2
      <3>2. p[s] = c
        BY <2>2, <1>h DEF HasList
      <3> QED  BY <3>1, <3>2, <1>2 DEF InList
    <2>3. CASE s \in 1 .. n /\ s # l[c]
      <3>1. xx[s] = x[s] /\ pp[s] = p[s] /\ p[s] \in -1 .. n
        <4>1. pp[s] = p[s]
          BY <2>3, <1>q
        <4> QED  BY <2>3, <4>1, <1>p
      <3>2. PICK a \in Nat : a = x[s]
        BY <2>3
      <3>3. PICK q \in -1 .. n : q = p[s]
        BY <3>1
      <3>4. /\ a # 0 => a > s /\ a <= n /\ p[a] = q
            /\ a = 0 /\ q >= 0 => l[q] = s
        BY <2>3, <3>2, <3>3, <1>h DEF InList
      <3>5. ASSUME a # 0 PROVE a \in 1 .. n /\ pp[a] = q /\ a <= n + 1
        <4>1. a \in 1 .. n /\ a <= n + 1
          BY <2>3, <3>4, <3>5
        <4>2. pp[a] = p[a]
          BY <4>1, <1>q
        <4> QED  BY <3>4, <3>5, <4>1, <4>2
      <3>6. a = 0 /\ q >= 0 => ll[q] = s
        <4> SUFFICES ASSUME a = 0, q >= 0 PROVE ll[q] = s
          OBVIOUS
        <4>1. q \in 0 .. n /\ l[q] = s
          BY <3>4
        <4>2. q # c
          BY <4>1, <2>3
        <4> QED  BY <4>1, <4>2
      <3> QED  BY <3>1, <3>2, <3>3, <3>4, <3>5, <3>6, Zenon DEF InList
    <2> QED  BY <2>1, <2>2, <2>3
  <1>5. Chained(hh, xx, ll, n + 1, pp)
    BY <1>3, <1>4, Zenon DEF Chained
  <1> QED  BY <1>1, <1>5 DEF Linked

\* A collection begins anew: what was in it is in none.
LEMMA ChainReset ==
  ASSUME NEW n \in Nat, NEW h \in Links(n), NEW x \in Links(n), NEW l \in Links(n),
         NEW c \in 0 .. n, Linked(h, x, l, n), NEW hh, NEW ll, Cleared(h, l, hh, ll, n, c)
  PROVE  Linked(hh, x, ll, n)
  <1>a. PICK p \in [1 .. n -> -1 .. n] : Chained(h, x, l, n, p)
    BY DEF Linked
  <1>b. h \in [0 .. n -> Nat] /\ x \in [0 .. n -> Nat] /\ l \in [0 .. n -> Nat]
    BY DEF Links
  <1>c. /\ \A s \in 0 .. n : hh[s] = IF s = c THEN 0 ELSE h[s]
        /\ \A s \in 0 .. n : ll[s] = IF s = c THEN 0 ELSE l[s]
    BY DEF Cleared
  <1> USE <1>a, <1>b, <1>c
  <1> DEFINE pp == [s \in 1 .. n |-> IF p[s] = c THEN -1 ELSE p[s]]
  <1>1. pp \in [1 .. n -> -1 .. n]
    OBVIOUS
  <1>2. ASSUME NEW s \in 1 .. n PROVE p[s] \in -1 .. n /\ pp[s] = IF p[s] = c THEN -1 ELSE p[s]
    OBVIOUS
  <1>h. /\ \A s \in 0 .. n : HasList(h, x, l, n, p, s)
        /\ \A s \in 1 .. n : InList(x, l, n, p, s)
    BY DEF Chained
  <1> HIDE DEF pp
  <1>4. ASSUME NEW s \in 0 .. n PROVE HasList(hh, x, ll, n, pp, s)
    <2>1. CASE s = c
      BY <2>1 DEF HasList
    <2>2. CASE s # c
      <3>1. hh[s] = h[s] /\ ll[s] = l[s]
        BY <2>2
      <3>2. PICK a \in Nat : a = h[s]
        OBVIOUS
      <3>3. PICK b \in Nat : b = l[s]
        OBVIOUS
      <3>4. /\ a = 0 <=> b = 0
            /\ a # 0 => a > s /\ a <= n /\ p[a] = s
            /\ b # 0 => b > s /\ b <= n /\ p[b] = s /\ x[b] = 0
        BY <3>2, <3>3, <1>h DEF HasList
      <3>5. ASSUME a # 0 PROVE a \in 1 .. n /\ pp[a] = s
        <4>1. a \in 1 .. n
          BY <3>4, <3>5
        <4>2. pp[a] = IF p[a] = c THEN -1 ELSE p[a]
          BY <4>1, <1>2
        <4> QED  BY <2>2, <3>4, <3>5, <4>1, <4>2
      <3>6. ASSUME b # 0 PROVE b \in 1 .. n /\ pp[b] = s
        <4>1. b \in 1 .. n
          BY <3>4, <3>6
        <4>2. pp[b] = IF p[b] = c THEN -1 ELSE p[b]
          BY <4>1, <1>2
        <4> QED  BY <2>2, <3>4, <3>6, <4>1, <4>2
      <3> QED  BY <3>1, <3>2, <3>3, <3>4, <3>5, <3>6, Zenon DEF HasList
    <2> QED  BY <2>1, <2>2
  <1>5. ASSUME NEW s \in 1 .. n PROVE InList(x, ll, n, pp, s)
    <2>1. PICK a \in Nat : a = x[s]
      OBVIOUS
    <2>2. PICK q \in -1 .. n : q = p[s]
      OBVIOUS
    <2>3. PICK r : r = pp[s]
      OBVIOUS
    <2>4. /\ a # 0 => a > s /\ a <= n /\ p[a] = q
          /\ a = 0 /\ q >= 0 => l[q] = s
      BY <2>1, <2>2, <1>h DEF InList
    <2>5. r = IF q = c THEN -1 ELSE q
      BY <2>2, <2>3, <1>2
    <2>6. ASSUME a # 0 PROVE pp[a] = r
      <3>1. a \in 1 .. n
        BY <2>4, <2>6
      <3>2. pp[a] = IF p[a] = c THEN -1 ELSE p[a]
        BY <3>1, <1>2
      <3> QED  BY <2>4, <2>5, <2>6, <3>2
    <2>7. ASSUME a = 0, r >= 0 PROVE ll[r] = s
      <3>1. q # c
        BY <2>5, <2>7
      <3>2. r = q /\ q >= 0 /\ q \in 0 .. n
        BY <2>5, <2>7, <3>1
      <3>3. l[q] = s
        BY <2>4, <2>7, <3>2
      <3> QED  BY <3>1, <3>2, <3>3
    <2> QED  BY <2>1, <2>3, <2>4, <2>6, <2>7, Zenon DEF InList
  <1>6. Chained(hh, x, ll, n, pp)
    BY <1>4, <1>5, Zenon DEF Chained
  <1> QED  BY <1>1, <1>6 DEF Linked

\* The links of the slots there are.
Heads == [s \in 0 .. Allocated |-> slots[s].head]
Nexts == [s \in 0 .. Allocated |-> slots[s].next]
Tails == [s \in 0 .. Allocated |-> slots[s].tail]
\* Each slot but the root has a collection whose list it is in, or none any more (-1).
ListsInv == Linked(Heads, Nexts, Tails, Allocated)

LEMMA LinksTyped ==
  ASSUME SlotsTyped
  PROVE  Heads \in Links(Allocated) /\ Nexts \in Links(Allocated) /\ Tails \in Links(Allocated)
  <1>1. ASSUME NEW s \in 0 .. Allocated
        PROVE  slots[s].head \in Nat /\ slots[s].next \in Nat /\ slots[s].tail \in Nat
    <2>1. slots[s] \in SlotRecords
      BY DEF SlotsTyped
    <2> QED  BY <2>1 DEF SlotRecords
  <1> QED  BY <1>1 DEF Heads, Nexts, Tails, Links

LEMMA ListsBegin == JsonInit => ListsInv
  <1> SUFFICES ASSUME NEW t \in Seq(Characters), Begin(t) PROVE ListsInv
    BY DEF JsonInit
  <1>1. slots = [i \in {0} |-> EmptySlot]
    BY DEF Begin
  <1>2. Allocated = 0
    <2>1. DOMAIN slots = {0} /\ Cardinality({0}) = 1
      BY <1>1, FS_Singleton
    <2> QED  BY <2>1 DEF Allocated
  <1> DEFINE p == [s \in 1 .. Allocated |-> -1]
  <1>3. p \in [1 .. Allocated -> -1 .. Allocated]
    BY <1>2
  <1>4. Heads[0] = 0 /\ Tails[0] = 0
    BY <1>1, <1>2 DEF Heads, Tails, EmptySlot
  <1> HIDE DEF p
  <1>5. Chained(Heads, Nexts, Tails, Allocated, p)
    BY <1>2, <1>4 DEF Chained, HasList, InList
  <1> QED  BY <1>3, <1>5 DEF ListsInv, Linked

\* A step that moves no link.
LEMMA LinksKept ==
  ASSUME ListsInv, Allocated' = Allocated,
         \A s \in 0 .. Allocated : /\ slots'[s].head = slots[s].head
                                   /\ slots'[s].next = slots[s].next
                                   /\ slots'[s].tail = slots[s].tail
  PROVE  ListsInv'
  <1>1. Heads' = Heads /\ Nexts' = Nexts /\ Tails' = Tails
    BY DEF Heads, Nexts, Tails
  <1> QED  BY <1>1 DEF ListsInv

\* A variant that becomes an empty collection.
LEMMA LinksEmptied ==
  ASSUME SlotsTyped, ListsInv, Allocated \in Nat, Allocated' = Allocated, NEW t, slots' = Emptied(t)
  PROVE  ListsInv'
  <1>2. slots \in [0 .. Allocated -> SlotRecords] /\ variant \in 0 .. Allocated
    BY DEF SlotsTyped
  <1>3. ASSUME NEW s \in 0 .. Allocated
        PROVE  /\ slots'[s].head = IF s = variant THEN 0 ELSE slots[s].head
               /\ slots'[s].tail = IF s = variant THEN 0 ELSE slots[s].tail
               /\ slots'[s].next = slots[s].next
    <2>1. PICK r \in SlotRecords : r = slots[s]
      BY <1>2
    <2>2. slots'[s] = IF s = variant THEN [r EXCEPT !.type = t, !.head = 0, !.tail = 0] ELSE r
      BY <1>2, <2>1 DEF Emptied
    <2> QED  BY <2>1, <2>2 DEF SlotRecords
  <1>4. PICK n \in Nat : n = Allocated
    OBVIOUS
  <1>5. PICK h \in Links(n) : h = Heads
    BY <1>4, LinksTyped
  <1>6. PICK x \in Links(n) : x = Nexts
    BY <1>4, LinksTyped
  <1>7. PICK l \in Links(n) : l = Tails
    BY <1>4, LinksTyped
  <1>8. PICK hh : hh = Heads'
    OBVIOUS
  <1>9. PICK ll : ll = Tails'
    OBVIOUS
  <1>10. Cleared(h, l, hh, ll, n, variant)
    BY <1>3, <1>4, <1>5, <1>7, <1>8, <1>9 DEF Heads, Tails, Cleared
  <1>11. Nexts' = x
    BY <1>3, <1>6 DEF Nexts
  <1>12. Linked(h, x, l, n)
    BY <1>4, <1>5, <1>6, <1>7, Zenon DEF ListsInv
  <1>13. variant \in 0 .. n
    BY <1>2, <1>4
  <1>14. Linked(hh, x, ll, n)
    BY <1>10, <1>12, <1>13, ChainReset, Zenon
  <1>15. Allocated' = n
    BY <1>4
  <1> QED  BY <1>8, <1>9, <1>11, <1>14, <1>15, Zenon DEF ListsInv

\* A slot that is added.
LEMMA LinksAdded ==
  ASSUME JsonInv, SlotsTyped, ListsInv, NEW c \in 0 .. Allocated, NEW key, slots' = WithSlot(slots, c, key)
  PROVE  ListsInv'
  <1>2. slots \in [0 .. Allocated -> SlotRecords]
    BY DEF SlotsTyped
  <1>4. PICK n \in Nat : n = Allocated
    BY DEF JsonInv, JsonTypeOK
  <1>3. ASSUME NEW s \in 0 .. n
        PROVE  /\ slots'[s].head = IF s = c /\ slots[c].tail = 0 THEN n + 1 ELSE slots[s].head
               /\ slots'[s].tail = IF s = c THEN n + 1 ELSE slots[s].tail
               /\ s # c => slots'[s].next = IF s = slots[c].tail /\ s # 0 THEN n + 1 ELSE slots[s].next
               /\ s = c => slots'[s].next = slots[s].next
    <2>1. PICK r \in SlotRecords : r = slots[s]
      BY <1>2, <1>4
    <2>2. slots'[s] =
            IF s = c /\ slots[c].tail = 0 THEN [r EXCEPT !.head = n + 1, !.tail = n + 1]
            ELSE IF s = c THEN [r EXCEPT !.tail = n + 1]
            ELSE IF s = slots[c].tail /\ s # 0 THEN [r EXCEPT !.next = n + 1]
            ELSE r
      <3>1. s # n + 1 /\ s \in 0 .. n + 1
        OBVIOUS
      <3> QED  BY <1>4, <2>1, <3>1 DEF WithSlot
    <2> QED  BY <2>1, <2>2 DEF SlotRecords
  <1>n. slots'[n + 1].head = 0 /\ slots'[n + 1].next = 0 /\ slots'[n + 1].tail = 0
    <2>1. slots'[n + 1] = [EmptySlot EXCEPT !.key = key]
      <3>1. n + 1 \in 0 .. n + 1
        OBVIOUS
      <3> QED  BY <1>4, <3>1 DEF WithSlot
    <2> QED  BY <2>1 DEF EmptySlot
  <1>5. PICK h \in Links(n) : h = Heads
    BY <1>4, LinksTyped
  <1>6. PICK x \in Links(n) : x = Nexts
    BY <1>4, LinksTyped
  <1>7. PICK l \in Links(n) : l = Tails
    BY <1>4, LinksTyped
  <1>8. PICK hh : hh = Heads'
    OBVIOUS
  <1>9. PICK ll : ll = Tails'
    OBVIOUS
  <1>10. PICK xx : xx = Nexts'
    OBVIOUS
  <1>11. Allocated' = n + 1
    BY <1>4, AddedOne DEF JsonInv
  <1>12. Linked(h, x, l, n)
    BY <1>4, <1>5, <1>6, <1>7, Zenon DEF ListsInv
  <1>13. c # slots[c].tail \/ c = 0
    <2>1. l[c] = slots[c].tail /\ l[c] \in Nat
      BY <1>4, <1>7 DEF Tails, Links
    <2>2. l[c] # 0 => l[c] > c
      BY <1>4, <1>12 DEF Linked, Chained, HasList
    <2> QED  BY <1>4, <2>1, <2>2
  <1>14. ASSUME NEW s \in 0 .. n
         PROVE  /\ hh[s] = slots'[s].head /\ ll[s] = slots'[s].tail /\ xx[s] = slots'[s].next
                /\ h[s] = slots[s].head /\ l[s] = slots[s].tail /\ x[s] = slots[s].next
    <2>1. s \in 0 .. n + 1
      OBVIOUS
    <2> QED  BY <1>4, <1>5, <1>6, <1>7, <1>8, <1>9, <1>10, <1>11, <2>1 DEF Heads, Tails, Nexts
  <1>15. hh[n + 1] = 0 /\ xx[n + 1] = 0 /\ ll[n + 1] = 0
    <2>1. n + 1 \in 0 .. n + 1
      OBVIOUS
    <2> QED  BY <1>n, <1>8, <1>9, <1>10, <1>11, <2>1 DEF Heads, Tails, Nexts
  <1>16. l[c] = slots[c].tail
    BY <1>4, <1>14
  <1>17. \A s \in 0 .. n : hh[s] = IF s = c /\ l[c] = 0 THEN n + 1 ELSE h[s]
    BY <1>3, <1>14, <1>16
  <1>18. \A s \in 0 .. n : ll[s] = IF s = c THEN n + 1 ELSE l[s]
    BY <1>3, <1>14, <1>16
  <1>19. \A s \in 0 .. n : xx[s] = IF s = l[c] /\ s # 0 THEN n + 1 ELSE x[s]
    BY <1>3, <1>13, <1>14, <1>16
  <1>20. Grown(h, x, l, hh, xx, ll, n, c)
    BY <1>15, <1>17, <1>18, <1>19 DEF Grown
  <1>21. c \in 0 .. n
    BY <1>4
  <1>22. Linked(hh, xx, ll, n + 1)
    BY <1>12, <1>20, <1>21, ChainGrows, Zenon
  <1> QED  BY <1>8, <1>9, <1>10, <1>11, <1>22, Zenon DEF ListsInv

\* Every step moves no link, empties a collection, or adds a slot.
LEMMA ListsStep ==
  ASSUME JsonInv, SlotsTyped, ListsInv, SlotStep
  PROVE  ListsInv'
  <1>0. JsonTypeOK /\ slots \in [0 .. Allocated -> SlotRecords] /\ variant \in 0 .. Allocated
        /\ Allocated \in Nat
    BY DEF JsonInv, SlotsTyped, JsonTypeOK
  <1>1. CASE \E key : Added(key)
    <2>1. Last(open) \in 0 .. Allocated
      BY <1>1, FrontOfSeq DEF SlotsTyped, Added
    <2> QED  BY <1>1, <2>1, LinksAdded DEF Added
  <1>2. CASE slots' = Emptied("array") \/ slots' = Emptied("object")
    <2>1. DOMAIN slots' = DOMAIN slots
      BY <1>2 DEF Emptied
    <2>2. Allocated' = Allocated
      BY <2>1 DEF Allocated
    <2> QED  BY <1>0, <1>2, <2>2, LinksEmptied
  <1>3. CASE slots' = slots \/ slots' = [slots EXCEPT ![variant].type = "number"] \/ SetString
    <2>1. DOMAIN slots' = DOMAIN slots
      BY <1>3 DEF SetString
    <2>2. Allocated' = Allocated
      BY <2>1 DEF Allocated
    <2>3. ASSUME NEW s \in 0 .. Allocated
          PROVE  /\ slots'[s].head = slots[s].head
                 /\ slots'[s].next = slots[s].next
                 /\ slots'[s].tail = slots[s].tail
      <3>1. PICK r \in SlotRecords : r = slots[s]
        BY <1>0
      <3>2. PICK a : a = SavedAt
        OBVIOUS
      <3>3. slots'[s] \in {r, [r EXCEPT !.type = "number"],
                              [r EXCEPT !.type = "string", !.at = a, !.size = string.size]}
        BY <1>0, <1>3, <3>1, <3>2 DEF SetString
      <3> QED  BY <3>1, <3>3 DEF SlotRecords
    <2> QED  BY <2>2, <2>3, LinksKept
  <1> QED  BY <1>1, <1>2, <1>3 DEF SlotStep, NewMember

LEMMA ListsKept ==
  ASSUME JsonInv, SlotsTyped, ListsInv, [JsonNext]_jsonVars PROVE ListsInv'
  <1>1. CASE UNCHANGED jsonVars
    <2>1. slots' = slots
      BY <1>1 DEF jsonVars, poolVars
    <2>2. Allocated' = Allocated
      BY <2>1 DEF Allocated
    <2> QED  BY <2>1, <2>2, LinksKept
  <1>2. CASE JsonNext
    BY <1>2, EveryStep, ListsStep
  <1> QED  BY <1>1, <1>2

\* Downwards, by the least distance from the top.
LEMMA DownFrom ==
  ASSUME NEW N \in Nat, NEW S, \A t \in 1 .. N : (\A u \in t + 1 .. N : u \in S) => t \in S
  PROVE  1 .. N \subseteq S
  <1> SUFFICES ASSUME NEW k \in 1 .. N, k \notin S PROVE FALSE
    OBVIOUS
  <1> DEFINE T == {N - t : t \in {u \in 1 .. N : u \notin S}}
  <1>1. T \in SUBSET Nat /\ T # {}
    OBVIOUS
  <1>2. PICK m \in T : \A y \in T : m <= y
    BY <1>1, LeastIn
  <1>3. PICK t \in 1 .. N : t \notin S /\ m = N - t
    BY <1>2
  <1>4. ASSUME NEW u \in t + 1 .. N, u \notin S PROVE FALSE
    <2>1. N - u \in T
      BY <1>4
    <2>2. m <= N - u
      <3> HIDE DEF T
      <3> QED  BY <1>2, <2>1
    <2> QED  BY <1>3, <2>2
  <1> QED  BY <1>3, <1>4

\* In lists whose links go up only, Slots gives a slot and those after it.
Follows(d, x, n) == d = [t \in 0 .. n |-> IF t = 0 THEN << >> ELSE <<t>> \o d[x[t]]]
Upward(x, n) == x \in [0 .. n -> Nat] /\ \A t \in 1 .. n : x[t] = 0 \/ (t < x[t] /\ x[t] <= n)

\* The recursive function that Slots chooses exists, ...
LEMMA FollowsExists ==
  ASSUME NEW n \in Nat, NEW x, Upward(x, n)
  PROVE  \E d : Follows(d, x, n)
  <1> DEFINE From(k, d) == d = [t \in 0 .. n |-> IF t = 0 \/ t < k THEN << >> ELSE <<t>> \o d[x[t]]]
             S == {k \in 1 .. n : \E d : From(k, d)}
  <1>0. ASSUME NEW t \in 1 .. n PROVE x[t] = 0 \/ (x[t] \in 1 .. n /\ t < x[t])
    BY DEF Upward
  <1>1. \E d : From(n + 1, d)
    <2> DEFINE e == [t \in 0 .. n |-> << >>]
    <2>1. ASSUME NEW t \in 0 .. n PROVE t = 0 \/ t < n + 1
      OBVIOUS
    <2>2. From(n + 1, e)
      BY <2>1
    <2> QED  BY <2>2
  <1>2. ASSUME NEW k \in 1 .. n, \A u \in k + 1 .. n : u \in S PROVE k \in S
    <2>1. PICK d : From(k + 1, d)
      <3>1. CASE k = n
        BY <1>1, <3>1
      <3>2. CASE k # n
        <4>1. k + 1 \in k + 1 .. n
          BY <3>2
        <4>2. k + 1 \in S
          BY <1>2, <4>1
        <4> QED  BY <4>2
      <3> QED  BY <3>1, <3>2
    <2> DEFINE e == [t \in 0 .. n |-> IF t = k THEN <<k>> \o d[x[k]] ELSE d[t]]
    <2>2. ASSUME NEW t \in 0 .. n PROVE d[t] = IF t = 0 \/ t < k + 1 THEN << >> ELSE <<t>> \o d[x[t]]
      BY <2>1
    <2>3. ASSUME NEW t \in 0 .. n PROVE e[t] = IF t = 0 \/ t < k THEN << >> ELSE <<t>> \o e[x[t]]
      <3>1. CASE t = k
        <4>1. x[k] \in 0 .. n /\ x[k] # k
          BY <1>0
        <4>2. e[x[k]] = d[x[k]] /\ e[t] = <<k>> \o d[x[k]]
          BY <3>1, <4>1
        <4>3. ~(t = 0 \/ t < k)
          BY <3>1
        <4> HIDE DEF e
        <4> QED  BY <3>1, <4>2, <4>3, Zenon
      <3>2. CASE t # k /\ (t = 0 \/ t < k)
        <4>1. e[t] = d[t] /\ (t = 0 \/ t < k + 1)
          BY <3>2
        <4> HIDE DEF e
        <4> QED  BY <2>2, <3>2, <4>1, Zenon
      <3>3. CASE t # k /\ ~(t = 0 \/ t < k)
        <4>1. t \in 1 .. n /\ ~(t = 0 \/ t < k + 1) /\ k < t
          BY <3>3
        <4>2. x[t] \in 0 .. n /\ x[t] # k
          BY <1>0, <4>1
        <4>3. e[t] = d[t] /\ e[x[t]] = d[x[t]]
          BY <3>3, <4>2
        <4> HIDE DEF e
        <4> QED  BY <2>2, <3>3, <4>1, <4>3, Zenon
      <3> QED  BY <3>1, <3>2, <3>3
    <2>4. e = [t \in 0 .. n |-> e[t]]
      OBVIOUS
    <2> HIDE DEF e
    <2>5. From(k, e)
      BY <2>3, <2>4
    <2> HIDE DEF From
    <2> QED  BY <2>5
  <1>3. 1 .. n \subseteq S
    <2> HIDE DEF S
    <2> QED  BY <1>2, DownFrom
  <1>4. PICK d : From(1, d)
    <2>1. CASE n = 0
      BY <1>1, <2>1
    <2>2. CASE n # 0
      <3>1. 1 \in 1 .. n
        BY <2>2
      <3> QED  BY <1>3, <3>1
    <2> QED  BY <2>1, <2>2
  <1>5. ASSUME NEW t \in 0 .. n PROVE t = 0 \/ t < 1 <=> t = 0
    OBVIOUS
  <1>6. Follows(d, x, n)
    BY <1>4, <1>5 DEF Follows
  <1> QED  BY <1>6

\* ... so that Slots follows the recursion.
LEMMA SlotsFollow ==
  ASSUME JsonInv, SlotsTyped, Upward(Nexts, Allocated)
  PROVE  /\ Slots(0) = << >>
         /\ \A t \in 1 .. Allocated : Slots(t) = <<t>> \o Slots(Nexts[t])
  <1>1. PICK n \in Nat : n = Allocated
    BY DEF JsonInv, JsonTypeOK
  <1>2. DOMAIN slots = 0 .. n
    BY <1>1 DEF JsonInv, JsonTypeOK
  <1> DEFINE F(d) == d = [t \in DOMAIN slots |-> IF t = 0 THEN << >> ELSE <<t>> \o d[slots[t].next]]
  <1>3. PICK e : Follows(e, Nexts, n)
    BY <1>1, FollowsExists
  <1>4. F(e)
    <2>1. ASSUME NEW t \in 0 .. n PROVE Nexts[t] = slots[t].next
      BY <1>1 DEF Nexts
    <2> QED  BY <1>2, <1>3, <2>1 DEF Follows
  <1>5. PICK f : f = CHOOSE d : F(d)
    OBVIOUS
  <1>6. F(f)
    BY <1>4, <1>5, Zenon
  <1>7. \A s : Slots(s) = f[s]
    BY <1>5 DEF Slots
  <1>8. f[0] = << >>
    BY <1>2, <1>6
  <1>9. ASSUME NEW t \in 1 .. n PROVE f[t] = <<t>> \o f[Nexts[t]]
    <2>1. t \in 0 .. n /\ t # 0 /\ Nexts[t] = slots[t].next
      BY <1>1 DEF Nexts
    <2> QED  BY <1>2, <1>6, <2>1
  <1> QED  BY <1>1, <1>7, <1>8, <1>9

\* What the list from t on is, of slots whose collection is that of t.
Listed(q, t, x, n, p) ==
    /\ q \in Seq(1 .. n) /\ q # << >> /\ q[1] = t /\ x[Last(q)] = 0
    /\ \A i, j \in DOMAIN q : i < j => q[i] < q[j]
    /\ \A i \in DOMAIN q : p[q[i]] = p[t]

LEMMA ListedBefore ==
  ASSUME NEW n \in Nat, NEW x, NEW p, NEW t \in 1 .. n, NEW r,
         \/ x[t] = 0 /\ r = << >>
         \/ x[t] > t /\ p[x[t]] = p[t] /\ Listed(r, x[t], x, n, p)
  PROVE  Listed(<<t>> \o r, t, x, n, p)
  <1> DEFINE q == <<t>> \o r
  <1>1. r \in Seq(1 .. n)
    <2>1. CASE x[t] = 0 /\ r = << >>
      BY <2>1
    <2>2. CASE Listed(r, x[t], x, n, p)
      BY <2>2 DEF Listed
    <2> QED  BY <2>1, <2>2
  <1>2. PICK k \in Nat : k = Len(r)
    BY <1>1
  <1>3. q \in Seq(1 .. n) /\ Len(q) = k + 1 /\ q[1] = t /\ q # << >>
    BY <1>1, <1>2
  <1>4. ASSUME NEW i \in 2 .. k + 1 PROVE q[i] = r[i - 1]
    BY <1>1, <1>2
  <1>5. DOMAIN q = 1 .. k + 1 /\ DOMAIN r = 1 .. k
    BY <1>1, <1>2, <1>3
  <1> HIDE DEF q
  <1>6. ASSUME NEW i \in 1 .. k PROVE r[i] > t /\ p[r[i]] = p[t] /\ r[i] \in 1 .. n
    <2>1. x[t] > t /\ p[x[t]] = p[t] /\ Listed(r, x[t], x, n, p)
      BY <1>2, <1>6
    <2>2. r[1] = x[t] /\ p[r[i]] = p[t] /\ (1 < i => r[1] < r[i])
      BY <1>5, <2>1 DEF Listed
    <2>3. r[i] \in 1 .. n /\ r[1] \in 1 .. n
      BY <1>1, <1>2
    <2>4. CASE i = 1
      BY <2>1, <2>2, <2>3, <2>4
    <2>5. CASE 1 < i
      BY <2>1, <2>2, <2>3, <2>5
    <2> QED  BY <2>4, <2>5
  <1>7. ASSUME NEW i \in DOMAIN q, NEW j \in DOMAIN q, i < j PROVE q[i] < q[j]
    <2>1. j \in 2 .. k + 1 /\ j - 1 \in 1 .. k /\ (i = 1 \/ i \in 2 .. k + 1)
      BY <1>5, <1>7
    <2>2. q[j] = r[j - 1]
      BY <1>4, <2>1
    <2>3. CASE i = 1
      <3>1. r[j - 1] > t
        BY <1>6, <2>1
      <3> QED  BY <1>3, <2>2, <2>3, <3>1
    <2>4. CASE i \in 2 .. k + 1
      <3>1. q[i] = r[i - 1] /\ i - 1 \in 1 .. k /\ i - 1 < j - 1
        BY <1>4, <1>7, <2>1, <2>4
      <3>2. k # 0
        BY <3>1
      <3>3. Listed(r, x[t], x, n, p)
        BY <1>2, <3>2
      <3>4. r[i - 1] < r[j - 1]
        BY <1>5, <2>1, <3>1, <3>3 DEF Listed
      <3> QED  BY <2>2, <3>1, <3>4
    <2> QED  BY <2>1, <2>3, <2>4
  <1>8. ASSUME NEW i \in DOMAIN q PROVE p[q[i]] = p[t]
    <2>1. i = 1 \/ (i \in 2 .. k + 1 /\ i - 1 \in 1 .. k)
      BY <1>5, <1>8
    <2>2. CASE i = 1
      BY <1>3, <2>2
    <2>3. CASE i \in 2 .. k + 1 /\ i - 1 \in 1 .. k
      <3>1. q[i] = r[i - 1]
        BY <1>4, <2>3
      <3>2. p[r[i - 1]] = p[t]
        BY <1>6, <2>3
      <3> QED  BY <3>1, <3>2
    <2> QED  BY <2>1, <2>2, <2>3
  <1>9. x[Last(q)] = 0
    <2>1. Last(q) = q[k + 1]
      BY <1>3 DEF Last
    <2>2. CASE r = << >>
      <3>1. k = 0 /\ x[t] = 0
        BY <1>2, <2>2 DEF Listed
      <3> QED  BY <1>3, <2>1, <3>1
    <2>3. CASE r # << >>
      <3>1. Listed(r, x[t], x, n, p) /\ k # 0
        BY <1>1, <1>2, <2>3
      <3>2. k + 1 \in 2 .. k + 1 /\ (k + 1) - 1 = k
        BY <3>1
      <3>3. q[k + 1] = r[k]
        BY <1>4, <3>2
      <3>4. Last(r) = r[k]
        BY <1>2 DEF Last
      <3> QED  BY <2>1, <3>1, <3>3, <3>4 DEF Listed
    <2> QED  BY <2>2, <2>3
  <1>10. Listed(q, t, x, n, p)
    BY <1>3, <1>7, <1>8, <1>9 DEF Listed
  <1> QED  BY <1>10 DEF q

\* Each slot's list goes up, ends, and stays in the slot's collection.
LEMMA ListsListed ==
  ASSUME JsonInv, SlotsTyped, NEW p, Chained(Heads, Nexts, Tails, Allocated, p)
  PROVE  /\ Slots(0) = << >>
         /\ \A t \in 1 .. Allocated : Listed(Slots(t), t, Nexts, Allocated, p)
  <1>1. PICK n \in Nat : n = Allocated
    BY DEF JsonInv, JsonTypeOK
  <1>2. PICK x : x = Nexts
    OBVIOUS
  <1>3. x \in [0 .. n -> Nat]
    BY <1>1, <1>2, LinksTyped DEF Links
  <1>4. ASSUME NEW t \in 1 .. n
        PROVE  x[t] \in Nat /\ (x[t] # 0 => x[t] > t /\ x[t] <= n /\ p[x[t]] = p[t])
    BY <1>1, <1>2, <1>3 DEF Chained, InList
  <1>5. Upward(x, n)
    BY <1>3, <1>4 DEF Upward
  <1>6. Slots(0) = << >> /\ \A t \in 1 .. n : Slots(t) = <<t>> \o Slots(x[t])
    BY <1>1, <1>2, <1>5, SlotsFollow
  <1> DEFINE S == {t \in 1 .. n : Listed(Slots(t), t, x, n, p)}
  <1>7. ASSUME NEW t \in 1 .. n, \A u \in t + 1 .. n : u \in S PROVE t \in S
    <2>1. Slots(t) = <<t>> \o Slots(x[t])
      BY <1>6
    <2>2. PICK r : r = Slots(x[t])
      OBVIOUS
    <2>3. CASE x[t] = 0
      <3>1. r = << >>
        BY <1>6, <2>2, <2>3
      <3>2. Listed(<<t>> \o r, t, x, n, p)
        BY <2>3, <3>1, ListedBefore
      <3> QED  BY <2>1, <2>2, <3>2
    <2>4. CASE x[t] # 0
      <3>1. x[t] > t /\ x[t] <= n /\ p[x[t]] = p[t] /\ x[t] \in Nat
        BY <1>4, <2>4
      <3>2. x[t] \in t + 1 .. n
        BY <3>1
      <3>3. Listed(r, x[t], x, n, p)
        BY <1>7, <2>2, <3>2
      <3>4. Listed(<<t>> \o r, t, x, n, p)
        BY <3>1, <3>3, ListedBefore
      <3> QED  BY <2>1, <2>2, <3>4
    <2> QED  BY <2>3, <2>4
  <1>8. 1 .. n \subseteq S
    <2> HIDE DEF S
    <2> QED  BY <1>7, DownFrom
  <1> QED  BY <1>1, <1>2, <1>6, <1>8

\* The list of a collection.
LEMMA ElementsOf ==
  ASSUME JsonInv, SlotsTyped, NEW p \in [1 .. Allocated -> -1 .. Allocated],
         Chained(Heads, Nexts, Tails, Allocated, p), NEW s \in 0 .. Allocated
  PROVE  /\ Elements(s) \in Seq(1 .. Allocated)
         /\ \A i \in DOMAIN Elements(s) : s < Elements(s)[i] /\ p[Elements(s)[i]] = s
         /\ \A i, j \in DOMAIN Elements(s) : i < j => Elements(s)[i] < Elements(s)[j]
         /\ slots[s].tail = IF Elements(s) = << >> THEN 0 ELSE Last(Elements(s))
  <1>1. PICK n \in Nat : n = Allocated
    BY DEF JsonInv, JsonTypeOK
  <1>2. PICK h \in Nat : h = slots[s].head /\ Heads[s] = h
    <2>1. slots[s] \in SlotRecords /\ Heads[s] = slots[s].head
      BY DEF SlotsTyped, Heads
    <2> QED  BY <2>1 DEF SlotRecords
  <1>3. PICK z : z = slots[s].tail /\ Tails[s] = z
    BY DEF Tails
  <1>4. PICK q : q = Elements(s)
    OBVIOUS
  <1>5. q = Slots(h)
    BY <1>2, <1>4 DEF Elements
  <1>6. /\ h = 0 <=> z = 0
        /\ h # 0 => h > s /\ h <= n /\ p[h] = s
    BY <1>1, <1>2, <1>3 DEF Chained, HasList
  <1>7. CASE h = 0
    <2>1. q = << >>
      BY <1>5, <1>7, ListsListed
    <2> QED  BY <1>3, <1>4, <1>6, <1>7, <2>1
  <1>8. CASE h # 0
    <2>1. h \in 1 .. n /\ p[h] = s /\ h > s
      BY <1>6, <1>8
    <2>2. Listed(q, h, Nexts, n, p)
      BY <1>1, <1>5, <2>1, ListsListed
    <2>3. /\ q \in Seq(1 .. n) /\ q # << >> /\ q[1] = h /\ Nexts[Last(q)] = 0
          /\ \A i, j \in DOMAIN q : i < j => q[i] < q[j]
          /\ \A i \in DOMAIN q : p[q[i]] = s
      BY <2>1, <2>2 DEF Listed
    <2>4. ASSUME NEW i \in DOMAIN q PROVE s < q[i]
      <3>1. q[i] \in 1 .. n /\ 1 \in DOMAIN q /\ (i = 1 \/ 1 < i)
        BY <2>3
      <3>2. 1 < i => q[1] < q[i]
        BY <2>3, <3>1
      <3> QED  BY <2>1, <2>3, <3>1, <3>2
    <2>5. PICK e \in 1 .. n : e = Last(q) /\ p[e] = s
      <3>1. Last(q) \in 1 .. n /\ Last(q) = q[Len(q)] /\ Len(q) \in DOMAIN q
        BY <2>3, FrontOfSeq DEF Last
      <3> QED  BY <2>3, <3>1
    <2>6. Tails[s] = e
      <3>1. Nexts[e] = 0 /\ p[e] >= 0
        BY <2>3, <2>5
      <3> QED  BY <1>1, <2>5, <3>1 DEF Chained, InList
    <2> QED  BY <1>1, <1>3, <1>4, <2>3, <2>4, <2>5, <2>6
  <1> QED  BY <1>7, <1>8

\* Whatever is parsed, and however often keys come again: no variant is in the lists of
\* two collections, a list goes from older slots to newer ones, so that it ends, and its
\* last slot is the collection's tail.
THEOREM CollectionsApart == JsonSpec => []ListsApart
  <1>1. JsonInit => JsonInv /\ SlotsTyped /\ ListsInv
    BY JsonBegins, SlotsBegin, ListsBegin
  <1>2. JsonInv /\ SlotsTyped /\ ListsInv /\ [JsonNext]_jsonVars
            => (JsonInv /\ SlotsTyped /\ ListsInv)'
    BY JsonKept, SlotsKept, ListsKept
  <1>3. JsonInv /\ SlotsTyped /\ ListsInv => ListsApart
    <2> SUFFICES ASSUME JsonInv, SlotsTyped, ListsInv, NEW s \in DOMAIN slots
                 PROVE  /\ \A i \in DOMAIN Elements(s) : s < Elements(s)[i]
                        /\ \A i, j \in DOMAIN Elements(s) : i < j => Elements(s)[i] < Elements(s)[j]
                        /\ slots[s].tail = IF Elements(s) = << >> THEN 0 ELSE Last(Elements(s))
                        /\ \A t \in DOMAIN slots : t # s =>
                               Range(Elements(s)) \cap Range(Elements(t)) = {}
      BY DEF ListsApart
    <2>1. PICK p \in [1 .. Allocated -> -1 .. Allocated] :
              Chained(Heads, Nexts, Tails, Allocated, p)
      BY DEF ListsInv, Linked
    <2>2. DOMAIN slots = 0 .. Allocated
      BY DEF JsonInv, JsonTypeOK
    <2>3. ASSUME NEW t \in DOMAIN slots, t # s
          PROVE  Range(Elements(s)) \cap Range(Elements(t)) = {}
      <3>1. ASSUME NEW e \in Range(Elements(s)), e \in Range(Elements(t)) PROVE FALSE
        <4>1. PICK i \in DOMAIN Elements(s) : e = Elements(s)[i]
          BY DEF Range
        <4>2. PICK j \in DOMAIN Elements(t) : e = Elements(t)[j]
          BY <3>1 DEF Range
        <4>3. p[Elements(s)[i]] = s
          BY <2>1, <2>2, ElementsOf
        <4>4. t \in 0 .. Allocated
          BY <2>2
        <4>5. \A k \in DOMAIN Elements(t) : p[Elements(t)[k]] = t
          BY <2>1, <4>4, ElementsOf
        <4>6. p[Elements(t)[j]] = t
          BY <4>5
        <4> QED  BY <2>3, <4>1, <4>2, <4>3, <4>6
      <3> QED  BY <3>1
    <2> QED  BY <2>1, <2>2, <2>3, ElementsOf
  <1> QED  BY <1>1, <1>2, <1>3, PTL DEF JsonSpec
=============================================================================
