------------------------------ MODULE MCJkii -------------------------------
(***************************************************************************)
(* Small JSON texts, and the fields that are asked of them.                *)
(***************************************************************************)
EXTENDS Jkii

A == <<"a">>
B == <<"b">>
Slash == <<"a", "/", "b">>       \* needs a backslash in a path
Bracket == <<"[", "0", "]">>     \* would be an index
Back == <<"a", "\\">>            \* would quote a slash after it
Between == <<"\\", "a">>

UpTo2(S) == {<<>>} \union {<<x>> : x \in S} \union {<<x, y>> : x \in S, y \in S}

Pairs(keys, values) == {Pair(k, v) : k \in keys, v \in values}

\* Objects and arrays of up to two members: the first any, the second one of
\* three, and what is inside them again of up to two members.
Inner == {Object(ps) : ps \in UpTo2(Pairs({A, B}, {Number(1)}))}
         \union {Array(vs) : vs \in UpTo2({Number(1), Str(A)})}
Every   == Inner \union {Number(1)}
Some  == {Number(1), Object(<<Pair(B, Number(1))>>), Array(<<Str(A), Number(1)>>)}
Listed(first, second) == {<<>>} \union {<<x>> : x \in first} \union (first \X second)
Outer == {Object(ps) : ps \in Listed(Pairs({A, B}, Every), Pairs({A, B}, Some))}
         \union {Array(vs) : vs \in Listed(Every, Some)}
Long == Array([i \in 1..12 |-> IF i = 3 THEN Array(<<Number(1)>>) ELSE Number(i)])

Rare == {Object(ps) : ps \in UpTo2(Pairs({A, Slash, Bracket, Back, Between},
                                         {Number(1), Object(<<Pair(B, Number(1))>>)}))}

Asked(by, steps, type, room) == [by |-> by, steps |-> steps, type |-> type, room |-> room]

Steps == {Key(A), Key(B), Key(Slash), Key(Bracket), Key(Between), Index(0), Index(1)}
Far   == {<<Index(i)>> : i \in {2, 3, 9, 10, 11, 12}}
Paths == {<<s>> : s \in Steps}
         \union {<<s, u>> : s \in Steps, u \in {Key(A), Key(B), Index(1), Key(Back)}}
         \union {<<Key(Back)>>}

\* A long is wider than an int, or as wide, as where the WICED port runs.
Wide   == 31
Narrow == 7

On(long, v, fields) == [text |-> v.tokens, lex |-> "ok", fields |-> fields, long |-> long]

Ok(v, fields) == On(Wide, v, fields)

\* Where things are: one field, of any type.
Lookups ==
    {Ok(v, <<Asked("path", p, "ANY", 0)>>) : v \in Outer \union Rare, p \in Paths}
    \union
    {Ok(Long, <<Asked("path", p, "ANY", 0)>>) : p \in Far}
    \union
    {Ok(v, <<Asked("name", <<s>>, "ANY", 0)>>) :
        v \in {w \in Outer \union Rare : ~TakenForObject(w.tokens)},
        s \in {Key(A), Key(Slash), Key(Back)}}

\* What things are: two fields, of every type, of values of every kind.
Words == {Word("null", 4), Word("true", 4), Word("minus", 1), Word("junk", 3), Word("unread", 2),
          Word("number", 2), Word("huge", 5), Word("tiny", 5)}
         \union {Word("frac", w) : w \in {3, 7, 8, 9}}
Numbers == {Number(n) : n \in {0, 7, 8, 31, 32, 999, 1000, 99999, 100000,
                               999999, 1000000, 10000000, 100000000,
                               -8, -9, -32, -33, -999, -1000, -10000, -999999, -1000000}}
Others == {Str(A), Str(Slash), Object(<<>>), Array(<<Number(1)>>)}
Kinds == Words \union Numbers \union Others

Of(v) == Object(<<Pair(A, v), Pair(B, Word("true", 4))>>)

Conversions ==
    {On(l, Of(v), <<Asked("name", <<Key(A)>>, t, r), Asked("path", <<Key(s)>>, u, 0)>>) :
        l \in {Wide, Narrow}, v \in Kinds, t \in Types, r \in {0, 2, 4}, u \in {"BOOLEAN", "STRING"}, s \in {B, Slash}}

\* What is not read at all, and what is not an object.
Refusals ==
    {[text |-> v.tokens, lex |-> lex, long |-> Wide,
      fields |-> <<Asked("path", <<Key(A)>>, "ANY", 0)>>] :
        v \in {Of(Number(1)), Array(<<Number(1)>>), Number(1)}, lex \in {"ok", "wrong", "unmatched"}}

AllCalls == Lookups \union Conversions \union Refusals
=============================================================================
