---------------------------- MODULE JsonDeserializer ----------------------------
(* A JSON document and its deserializer (ArduinoJson), as the firmware uses    *)
(* them.  A document's variants grow down from the end of a pool of a fixed    *)
(* size.  Its strings either grow up from the pool's beginning (StringCopier,  *)
(* for the settings file) or stay in the input, which is overwritten with them *)
(* while it is still being read (StringMover, for the messages of dashboards   *)
(* and broker).  The text is any; module JsonDocument has those that occur.    *)
EXTENDS Integers, SequencesExt

CONSTANTS
    Characters,    \* of texts: strings of one character; `null' counts as one
    Capacities,    \* sizes of a pool, in bytes
    SlotSize,      \* sizeof(VariantSlot)
    NestingLimit   \* ARDUINOJSON_DEFAULT_NESTING_LIMIT: 10

ASSUME SizesAssumption == SlotSize \in Nat \ {0} /\ Capacities \subseteq Nat
ASSUME NestingLimitAssumption == NestingLimit \in Nat
ASSUME CharactersAssumption == {"NUL", "slot"} \cap Characters = {}

VARIABLES
    text,          \* the text that is deserialized
    capacity,      \* the size of the pool
    storage,       \* "move" (StringMover) or "copy" (StringCopier)
    input,         \* the text; StringMover puts its strings here
    position,      \* what the latch has read
    memory,        \* the pool's bytes
    left,          \* end of the strings: in the pool, or in the input
    slots,         \* the variants: 0 is the root, the others lie in the pool
    overflowed,    \* the pool's flag
    string,        \* the string being parsed: where it begins, its size, what follows
    open,          \* the collections being parsed, innermost last
    variant,       \* the variant being parsed
    pc,            \* where the deserializer is
    error          \* what deserializeJson returns

inputVars == <<text, capacity, storage>>
poolVars == <<input, memory, left, slots, overflowed>>
jsonVars == <<inputVars, poolVars, position, string, open, variant, pc, error>>

Quote == "\""
Backslash == "\\"
Special == {Quote, Backslash}
NUL == "NUL"
KeyCharacters == {"x", "y", "1", "null"}    \* canBeInNonQuotedString

-----------------------------------------------------------------------------
(* The pool                                                                   *)

Allocated == Cardinality(DOMAIN slots) - 1
Right == capacity - SlotSize * Allocated
PoolLeft == IF storage = "copy" THEN left ELSE 0
Zone == IF storage = "copy" THEN memory ELSE input

\* The bytes of a string of a known size, and of one that ends with a NUL.
Bytes(at, size) == [i \in 1 .. size |-> Zone[at + i - 1]]
CString(at) ==
    LET ends == {n \in at .. Len(text) + capacity : n \in DOMAIN Zone /\ Zone[n] = NUL}
    IN  IF ends = {} THEN <<NUL>> ELSE Bytes(at, Min(ends) - at)

\* findString: a copy of the string s among those stored.
Copies(s) == {at \in 0 .. left - 1 :
                 /\ at = 0 \/ memory[at - 1] = NUL
                 /\ at + Len(s) < left
                 /\ memory[at + Len(s)] = NUL
                 /\ Bytes(at, Len(s)) = s}

EmptySlot == [key |-> -1, next |-> 0, type |-> "null", at |-> 0, size |-> 0, head |-> 0, tail |-> 0]

\* CollectionData::addSlot on the collection c, in the variants as they are in old:
\* the new slot, which the collection's tail then points to.
WithSlot(old, c, key) ==
    LET new == Allocated + 1
    IN  [i \in 0 .. new |->
            IF i = new THEN [EmptySlot EXCEPT !.key = key]
            ELSE IF i = c /\ old[c].tail = 0 THEN [old[i] EXCEPT !.head = new, !.tail = new]
            ELSE IF i = c THEN [old[i] EXCEPT !.tail = new]
            ELSE IF i = old[c].tail /\ i # 0 THEN [old[i] EXCEPT !.next = new]
            ELSE old[i]]

\* allocRight: its bytes, in the pool's bytes as they are in old.
WithSlotBytes(old) ==
    [n \in DOMAIN old |-> IF n \in Right - SlotSize .. Right - 1 THEN "slot" ELSE old[n]]

Stop(code) == pc' = "done" /\ error' = code
Fails(code) == Stop(code) /\ UNCHANGED <<poolVars, position, string, open, variant>>

\* A slot and those after it.
Slots(s) ==
    LET after[t \in DOMAIN slots] == IF t = 0 THEN << >> ELSE <<t>> \o after[slots[t].next]
    IN  after[s]

\* getMember
Member(c, key) ==
    {s \in DOMAIN slots : s \in Range(Slots(slots[c].head)) /\ CString(slots[s].key) = key}

-----------------------------------------------------------------------------
\* deserializeJson of the text t.
Begin(t) ==
    /\ text = t
    /\ capacity \in Capacities
    /\ storage \in {"move", "copy"}
    /\ input = [i \in 0 .. Len(t) |-> IF i = Len(t) THEN NUL ELSE t[i + 1]]
    /\ position = 0
    /\ memory = [i \in 0 .. capacity - 1 |-> "?"]
    /\ left = 0
    /\ slots = [i \in {0} |-> EmptySlot]
    /\ overflowed = FALSE
    /\ string = [at |-> 0, size |-> 0, use |-> "colon"]
    /\ open = << >>
    /\ variant = 0
    /\ pc = "variant"
    /\ error = "Ok"

JsonInit == \E t \in Seq(Characters) : Begin(t)

-----------------------------------------------------------------------------
(* The deserializer                                                           *)

Current == input[position]
EndedAccepts(code) ==    \* variant: no comma and no bracket are needed at the end
    Current = NUL /\ Fails(IF pc = "more" THEN "Ok" ELSE code)
Ended(code) == Current = NUL /\ Fails(code)

\* startString, for a key (a colon follows) or for a value.
StartString(use) ==
    /\ string' = [at |-> left, size |-> 0, use |-> use]
    /\ overflowed' = (overflowed \/ (storage = "copy" /\ left >= Right))
    /\ UNCHANGED <<input, memory, left, slots, open, variant>>

EmptiedHead(t) ==    \* variant: the tail stays
    [slots EXCEPT ![variant].type = t, ![variant].head = 0]
\* toObject and toArray: the variant becomes an empty collection, whatever it was.
Emptied(t) == [slots EXCEPT ![variant].type = t, ![variant].head = 0, ![variant].tail = 0]

\* parseVariant.  A null leaves the variant as it is.
ParseVariant ==
    /\ pc = "variant"
    /\ \/ Ended(IF position = 0 THEN "EmptyInput" ELSE "IncompleteInput")
       \/ /\ Current \in {"{", "["}
          /\ slots' = Emptied(IF Current = "{" THEN "object" ELSE "array")
          /\ IF Len(open) = NestingLimit
             THEN Stop("TooDeep") /\ UNCHANGED <<position, open>>
             ELSE /\ open' = Append(open, variant)
                  /\ position' = position + 1
                  /\ pc' = "first"
                  /\ UNCHANGED error
          /\ UNCHANGED <<input, memory, left, overflowed, string, variant>>
       \/ /\ Current = Quote
          /\ StartString("value")
          /\ position' = position + 1
          /\ pc' = "string"
          /\ UNCHANGED error
       \/ /\ Current \in {"1", "null"}
          /\ slots' = IF Current = "1" THEN [slots EXCEPT ![variant].type = "number"] ELSE slots
          /\ position' = position + 1
          /\ pc' = "more"
          /\ UNCHANGED <<input, memory, left, overflowed, string, open, variant, error>>
       \/ Current \notin {NUL, "{", "[", Quote, "1", "null"} /\ Fails("InvalidInput")

\* The collection being parsed gets a slot, with its key at `key'; its value comes
\* next.  The pool's bytes are those in old, its strings end at `end'.
AddSlot(key, old, end) ==
    LET room == end + SlotSize <= Right
    IN  /\ overflowed' = ~room
        /\ IF room
           THEN /\ slots' = WithSlot(slots, Last(open), key)
                /\ memory' = WithSlotBytes(old)
                /\ variant' = Allocated + 1
                /\ pc' = "variant"
                /\ UNCHANGED error
           ELSE Stop("NoMemory") /\ memory' = old /\ UNCHANGED <<slots, variant>>

\* addElement, for the next value of an array.
AddElement == AddSlot(-1, memory, PoolLeft) /\ UNCHANGED <<input, left, string, open>>

InArray == slots[Last(open)].type = "array"
Closing == IF InArray THEN "]" ELSE "}"

CloseStays ==    \* variant: the bracket is not read
    /\ Current = Closing
    /\ open' = Front(open)
    /\ pc' = "more"
    /\ UNCHANGED <<poolVars, position, string, variant, error>>
\* The collection ends; so does the value of the variant that holds it.
Close ==
    /\ Current = Closing
    /\ open' = Front(open)
    /\ position' = position + 1
    /\ pc' = "more"
    /\ UNCHANGED <<poolVars, string, variant, error>>

\* After the bracket that opens a collection.
ParseFirst ==
    /\ pc = "first"
    /\ \/ Ended("IncompleteInput")
       \/ Close
       \/ /\ Current \notin {NUL, Closing}
          /\ UNCHANGED position
          /\ IF InArray THEN AddElement
             ELSE pc' = "key" /\ UNCHANGED <<poolVars, string, open, variant, error>>

\* parseKey
ParseKey ==
    /\ pc = "key"
    /\ \/ Ended("IncompleteInput")
       \/ /\ Current = Quote
          /\ StartString("colon")
          /\ position' = position + 1
          /\ pc' = "string"
          /\ UNCHANGED error
       \/ /\ Current \in KeyCharacters
          /\ StartString("colon")
          /\ pc' = "bare"
          /\ UNCHANGED <<position, error>>
       \/ /\ Current \notin {NUL, Quote} \cup KeyCharacters
          /\ StartString("colon")
          /\ Stop("InvalidInput")
          /\ UNCHANGED position

FitsTight(at) == storage = "move" \/ at + 2 < Right    \* variant: it keeps two
\* append: StringCopier keeps a byte for the terminator.
Fits(at) == storage = "move" \/ at + 1 < Right
AppendChar(c) ==
    LET at == string.at + string.size
    IN  /\ input' = IF storage = "move" THEN [input EXCEPT ![at] = c] ELSE input
        /\ memory' = IF storage = "copy" /\ Fits(at) THEN [memory EXCEPT ![at] = c] ELSE memory
        /\ overflowed' = (overflowed \/ ~Fits(at))
        /\ string' = IF Fits(at) THEN [string EXCEPT !.size = @ + 1] ELSE string
        /\ UNCHANGED <<left, slots, open, variant, pc, error>>

\* str(): the string, and the bytes with a terminator behind it.
Parsed == Bytes(string.at, string.size)
Unterminated(zone) == zone    \* variant: the next byte is left as it is
Terminated(zone) == [zone EXCEPT ![string.at + string.size] = NUL]
TerminatedInput == IF storage = "move" THEN Terminated(input) ELSE input
TerminatedMemory == IF storage = "copy" THEN Terminated(memory) ELSE memory

\* save(): where the string is kept, and where the strings end then.  The pool
\* keeps one copy of equal strings.
Stored == storage = "copy" /\ Copies(Parsed) # {}
SavedAt == IF Stored THEN Min(Copies(Parsed)) ELSE string.at
SavedEndAligned ==    \* variant: strings begin at multiples of four
    IF Stored THEN left ELSE 4 * ((string.at + string.size + 4) \div 4)
SavedEndTight ==      \* variant: the terminator is not counted
    IF Stored THEN left ELSE string.at + string.size
SavedEnd == IF Stored THEN left ELSE string.at + string.size + 1

\* The end of the string, at which a full pool is noticed.
EndString(next) ==
    IF overflowed THEN Fails("NoMemory")
    ELSE /\ position' = next
         /\ pc' = string.use
         /\ UNCHANGED <<poolVars, string, open, variant, error>>

\* parseQuotedString: a character, an escaped one, or the end of the string.
ParseString ==
    /\ pc = "string"
    /\ \/ Ended("IncompleteInput")
       \/ /\ Current \notin {NUL, Quote, Backslash}
          /\ AppendChar(Current)
          /\ position' = position + 1
       \/ /\ Current = Backslash
          /\ input[position + 1] \in Special
          /\ AppendChar(input[position + 1])
          /\ position' = position + 2
       \/ /\ Current = Backslash
          /\ input[position + 1] = NUL
          /\ Fails("IncompleteInput")
       \/ /\ Current = Backslash
          /\ input[position + 1] \notin Special \cup {NUL}
          /\ Fails("InvalidInput")
       \/ Current = Quote /\ EndString(position + 1)

\* parseNonQuotedString
ParseBareKey ==
    /\ pc = "bare"
    /\ \/ /\ Current \in KeyCharacters
          /\ AppendChar(Current)
          /\ position' = position + 1
       \/ Current \notin KeyCharacters /\ EndString(position)

\* parseStringValue: the variant becomes the string.
SetString ==
    /\ pc = "value"
    /\ slots' = [slots EXCEPT ![variant].type = "string", ![variant].at = SavedAt,
                              ![variant].size = string.size]
    /\ left' = SavedEnd
    /\ input' = TerminatedInput
    /\ memory' = TerminatedMemory
    /\ pc' = "more"
    /\ UNCHANGED <<overflowed, position, string, open, variant, error>>

AddMemberUnsaved ==    \* variant: the slot is added before the key is saved
    /\ AddSlot(SavedAt, TerminatedMemory, PoolLeft)
    /\ left' = SavedEnd

\* A key that is new is saved, then gets a slot.
AddMember ==
    /\ AddSlot(SavedAt, TerminatedMemory, IF storage = "copy" THEN SavedEnd ELSE 0)
    /\ left' = SavedEnd

\* After a key: a key that is there already leads to its variant, and is not saved;
\* StringMover then writes its next string over the terminator.
ParseColon ==
    /\ pc = "colon"
    /\ \/ Ended("IncompleteInput")
       \/ /\ Current = ":"
          /\ position' = position + 1
          /\ input' = TerminatedInput
          /\ IF Member(Last(open), Parsed) = {} THEN AddMember
             ELSE /\ variant' = Min(Member(Last(open), Parsed))
                  /\ left' = IF storage = "move" THEN string.at + string.size ELSE left
                  /\ memory' = TerminatedMemory
                  /\ pc' = "variant"
                  /\ UNCHANGED <<slots, overflowed, error>>
          /\ UNCHANGED <<string, open>>
       \/ Current \notin {NUL, ":"} /\ Fails("InvalidInput")

\* A root that is not enclosed, a number, is read to the character behind it.
Trailing == slots[0].type = "number" /\ Current # NUL

\* After a value: it was the root, which nothing may follow if it is a number, or its
\* collection ends or goes on.
ParseMore ==
    /\ pc = "more"
    /\ \/ open = << >> /\ Fails(IF Trailing THEN "InvalidInput" ELSE "Ok")
       \/ /\ open # << >>
          /\ \/ Ended("IncompleteInput")
             \/ Close
             \/ /\ Current = ","
                /\ position' = position + 1
                /\ IF InArray THEN AddElement
                   ELSE pc' = "key" /\ UNCHANGED <<poolVars, string, open, variant, error>>
             \/ Current \notin {NUL, ",", Closing} /\ Fails("InvalidInput")

JsonNext ==
    /\ \/ ParseVariant \/ ParseFirst \/ ParseKey \/ ParseString \/ ParseBareKey
       \/ SetString \/ ParseColon \/ ParseMore
    /\ UNCHANGED inputVars

JsonSpec == JsonInit /\ [][JsonNext]_jsonVars

-----------------------------------------------------------------------------
(* Properties                                                                 *)

\* A StringMover never overwrites what has yet to be read, however keys, values
\* and escapes follow one another.
UnreadInputStays ==
    \A i \in position .. Len(text) : input[i] = IF i = Len(text) THEN NUL ELSE text[i + 1]

\* Strings and variants never run into each other.
ZonesApart ==
    /\ PoolLeft <= Right
    /\ \A i \in Right .. capacity - 1 : memory[i] = "slot"
    /\ \A i \in 0 .. PoolLeft - 1 : memory[i] # "slot"

\* A string that the document holds, as a key or as a value, is never written over
\* by one that is parsed later, nor by a variant.
Held(s) == Bytes(slots[s].at, slots[s].size)
StringsStay ==
    [][\A s \in DOMAIN slots :
        /\ slots[s].key >= 0 => CString(slots[s].key)' = CString(slots[s].key)
        /\ slots[s].type = "string" /\ slots'[s].at = slots[s].at /\ slots'[s].size = slots[s].size
               => Held(s)' = Held(s)]_jsonVars

\* However values are replaced by those of a key that comes again: a collection's
\* list ends, at its tail, so that the next element goes behind the others, and no
\* variant is in the lists of two.
IsCollection(s) == slots[s].type \in {"array", "object"}
Elements(s) == Slots(slots[s].head)
ListsApart ==
    \A s \in DOMAIN slots : IsCollection(s) =>
        /\ \A i \in DOMAIN Elements(s) : s < Elements(s)[i]
        /\ \A i, j \in DOMAIN Elements(s) : i < j => Elements(s)[i] < Elements(s)[j]
        /\ slots[s].tail = IF Elements(s) = << >> THEN 0 ELSE Last(Elements(s))
        /\ \A t \in DOMAIN slots : IsCollection(t) /\ t # s =>
               Range(Elements(s)) \cap Range(Elements(t)) = {}

\* Each step reads on, or goes on to a place from which only so many steps can be
\* made without reading: deserializeJson returns, whatever the text is.
Rank == [done |-> 0, value |-> 1, colon |-> 1, more |-> 0, variant |-> 0, string |-> 0,
         bare |-> 2, key |-> 3, first |-> 4]
Remaining == IF pc = "done" THEN 0 ELSE 5 * (Len(text) - position) + Rank[pc] + 1
StepsRunOut == [][Remaining' < Remaining /\ Remaining \in Nat]_jsonVars

\* Where the first characters of a text end: in a string, behind a backslash in one,
\* or in neither, and in how many brackets.
Outside == [in |-> "none", depth |-> 0]
Scanned(s, c) ==
    CASE s.in = "escape" -> [s EXCEPT !.in = "string"]
      [] s.in = "string" /\ c = Backslash -> [s EXCEPT !.in = "escape"]
      [] s.in = "string" /\ c = Quote -> [s EXCEPT !.in = "none"]
      [] s.in = "none" /\ c = Quote -> [s EXCEPT !.in = "string"]
      [] s.in = "none" /\ c \in {"{", "["} -> [s EXCEPT !.depth = @ + 1]
      [] s.in = "none" /\ c \in {"}", "]"} -> [s EXCEPT !.depth = @ - 1]
      [] OTHER -> s
Nesting(t) ==
    LET after[n \in 0 .. Len(t)] == IF n = 0 THEN Outside ELSE Scanned(after[n - 1], t[n])
    IN  after

\* A text whose strings and brackets are all closed at its end, and not before.
ClosesAtEnd(t) ==
    Nesting(t)[Len(t)] = Outside /\ \A n \in 1 .. Len(t) - 1 : Nesting(t)[n] # Outside

\* A text is accepted only where each string and bracket that it opened is closed:
\* the beginning of a document, as an interrupted save leaves it, is never taken
\* for the document.
AcceptsClosed == pc = "done" /\ error = "Ok" => position > 0 /\ Nesting(text)[position] = Outside
=============================================================================
