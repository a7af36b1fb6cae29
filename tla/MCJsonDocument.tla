---------------------------- MODULE MCJsonDocument ----------------------------
(* Scalars, and objects of at most two members, with keys that repeat, strings *)
(* with a character to escape, and collections inside.                         *)
EXTENDS JsonDocument

Keys == {<<"x">>, <<"y", "x">>}
Scalars == {[type |-> "null"], [type |-> "number"], [type |-> "string", text |-> << >>],
            [type |-> "string", text |-> <<"y", "x">>], [type |-> "string", text |-> <<Quote>>]}
ArrayOf(items) == [type |-> "array", items |-> items]
ObjectOf(items) == [type |-> "object", items |-> items]
Pair(k, v) == [key |-> k, value |-> v]
Inner == {ArrayOf(<< >>), ObjectOf(<< >>), ArrayOf(<<ArrayOf(<< >>)>>),
          ArrayOf(<<[type |-> "number"], [type |-> "string", text |-> <<"x">>]>>),
          ObjectOf(<<Pair(<<"x">>, [type |-> "string", text |-> <<"y", "x">>])>>)}
Pairs == {Pair(k, v) : k \in Keys, v \in Scalars \cup Inner}
MCDocuments == Scalars \cup {ObjectOf(<< >>)} \cup {ObjectOf(<<x>>) : x \in Pairs}
                  \cup {ObjectOf(<<x, y>>) : x \in Pairs, y \in Pairs}
MCCharacters == {"{", "}", "[", "]", ":", ",", "x", "y", "1", "null", Quote, Backslash}
=============================================================================
