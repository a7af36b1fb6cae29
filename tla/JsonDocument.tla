----------------------------- MODULE JsonDocument -----------------------------
(* What deserializing a document gives that was serialized.  The text is one   *)
(* that JsonSerializer wrote, the beginning of it, as an interrupted save      *)
(* leaves behind, one with a character missing or with more behind it, or one  *)
(* with bare keys, as a person would write it.                                 *)
EXTENDS JsonDeserializer

CONSTANTS
    Documents      \* the documents that are serialized

VARIABLES
    source,        \* the document that was serialized
    form           \* what the text is: "whole", "cut", "dropped", "followed" or "bare"

vars == <<source, form, jsonVars>>

-----------------------------------------------------------------------------
(* The serializer                                                             *)

Escape(c) == IF c \in Special THEN <<Backslash, c>> ELSE <<c>>
WriteString(s) == <<Quote>> \o FlattenSeq([i \in DOMAIN s |-> Escape(s[i])]) \o <<Quote>>

Separated(texts) ==    \* with commas between them
    FlattenSeq([i \in DOMAIN texts |-> (IF i = 1 THEN << >> ELSE <<",">>) \o texts[i]])

\* The keys are quoted, or bare.
RECURSIVE SerializeWith(_, _)
SerializeWith(v, quoted) ==
    CASE v.type = "null" -> <<"null">>
      [] v.type = "number" -> <<"1">>
      [] v.type = "string" -> WriteString(v.text)
      [] v.type = "array" ->
            <<"[">> \o Separated([i \in DOMAIN v.items |-> SerializeWith(v.items[i], quoted)]) \o <<"]">>
      [] v.type = "object" ->
            <<"{">> \o Separated([i \in DOMAIN v.items |->
                (IF quoted THEN WriteString(v.items[i].key) ELSE v.items[i].key)
                    \o <<":">> \o SerializeWith(v.items[i].value, quoted)]) \o <<"}">>
Serialize(v) == SerializeWith(v, TRUE)

\* What JsonSerializer writes of a document is closed at its end, and not before.
ASSUME DocumentsCloseAtEnd ==
    \A v \in Documents : ClosesAtEnd(Serialize(v)) /\ ClosesAtEnd(SerializeWith(v, FALSE))

-----------------------------------------------------------------------------
Texts(v, f) ==
    LET whole == Serialize(v)
    IN  CASE f = "whole" -> {whole}
          [] f = "cut" -> {SubSeq(whole, 1, n) : n \in 0 .. Len(whole) - 1}
          [] f = "dropped" -> {RemoveAt(whole, i) : i \in DOMAIN whole}
          [] f = "followed" -> {Append(whole, "}")}
          [] f = "bare" -> {SerializeWith(v, FALSE)}

Init ==
    /\ source \in Documents
    /\ form \in {"whole", "cut", "dropped", "followed", "bare"}
    /\ \E t \in Texts(source, form) : Begin(t)

Next == JsonNext /\ UNCHANGED <<source, form>>

Spec == Init /\ [][Next]_vars

-----------------------------------------------------------------------------
(* Properties                                                                 *)

\* What the document holds from slot s on.
RECURSIVE Value(_)
Value(s) ==
    LET inside == Slots(slots[s].head)
    IN  CASE slots[s].type = "string" ->
               [type |-> "string", text |-> Bytes(slots[s].at, slots[s].size)]
          [] slots[s].type = "array" ->
               [type |-> "array", items |-> [i \in DOMAIN inside |-> Value(inside[i])]]
          [] slots[s].type = "object" ->
               [type |-> "object", items |-> [i \in DOMAIN inside |->
                   [key |-> CString(slots[inside[i]].key), value |-> Value(inside[i])]]]
          [] OTHER -> [type |-> slots[s].type]

\* What it should hold: of the values of a key the last one that is not null, where
\* the key was first.
RECURSIVE Meaning(_)
Meaning(v) ==
    LET items == v.items
        holds(i) == {j \in DOMAIN items : items[j].key = items[i].key}
        real(i) == {j \in holds(i) : items[j].value.type # "null"}
        kept == SelectSeq([i \in DOMAIN items |-> i], LAMBDA i : i = Min(holds(i)))
        last(i) == IF real(i) = {} THEN i ELSE Max(real(i))
    IN  CASE v.type = "array" -> [v EXCEPT !.items = [i \in DOMAIN items |-> Meaning(items[i])]]
          [] v.type = "object" ->
               [v EXCEPT !.items = [i \in DOMAIN kept |->
                   [key |-> items[kept[i]].key, value |-> Meaning(items[last(kept[i])].value)]]]
          [] OTHER -> v

\* What deserializeJson accepts is the document that was written, whatever of it
\* had to share the pool or the input; the beginning of a document is not
\* accepted, nor is a number with something behind it.
ReadsWhatWasWritten ==
    pc = "done" /\ error = "Ok" =>
        /\ form # "cut"
        /\ form # "dropped" => Value(0) = Meaning(source)
        /\ form = "followed" => source.type # "number"

\* The size of a document by JSON_OBJECT_SIZE, JSON_ARRAY_SIZE and JSON_STRING_SIZE,
\* and how deep it is.
RECURSIVE SizeOf(_)
SizeOf(v) ==
    LET strings(n) == IF storage = "copy" THEN n + 1 ELSE 0
        sum(f) == FoldSeq(LAMBDA x, y : x + y, 0, f)
    IN  CASE v.type = "string" -> strings(Len(v.text))
          [] v.type = "array" -> sum([i \in DOMAIN v.items |-> SlotSize + SizeOf(v.items[i])])
          [] v.type = "object" -> sum([i \in DOMAIN v.items |->
               SlotSize + strings(Len(v.items[i].key)) + SizeOf(v.items[i].value)])
          [] OTHER -> 0
RECURSIVE Depth(_)
Depth(v) ==
    CASE v.type = "array" -> 1 + Max({0} \cup {Depth(x) : x \in Range(v.items)})
      [] v.type = "object" -> 1 + Max({0} \cup {Depth(x.value) : x \in Range(v.items)})
      [] OTHER -> 0

\* A whole document that is not too deep fails only in a pool that is smaller than
\* these macros say.
SizedAsDocumented ==
    pc = "done" /\ form \in {"whole", "bare"} /\ Depth(source) <= NestingLimit
        /\ SizeOf(source) <= capacity => error = "Ok"
=============================================================================
