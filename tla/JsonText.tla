----------------------------- MODULE JsonText -----------------------------
(***************************************************************************)
(* JSON texts as jkii reads them: the tokens jsmn makes of a text, in the  *)
(* order they begin, each with its place in the text and, for an object or *)
(* an array, the number of its members.  And what a path of jkii.h means,  *)
(* told by the places alone: a value is inside another if its text is.     *)
(***************************************************************************)
EXTENDS Integers, FiniteSets, SequencesExt

\* A value: its tokens and the width of its text.
Token(type, start, end, size) ==
    [type |-> type, start |-> start, end |-> end, size |-> size,
     chars |-> <<>>, prim |-> "none", n |-> 0]

Moved(tokens, by) ==
    [i \in DOMAIN tokens |-> [tokens[i] EXCEPT !.start = @ + by, !.end = @ + by]]

\* The token of a string is the text between the quotes.
Str(chars) ==
    [tokens |-> <<[Token("STRING", 1, 1 + Len(chars), 0) EXCEPT !.chars = chars]>>,
     width  |-> Len(chars) + 2]

Digits == <<"0", "1", "2", "3", "4", "5", "6", "7", "8", "9">>

Decimal[m \in Nat] == IF m < 10 THEN <<Digits[m + 1]>>
                      ELSE Append(Decimal[m \div 10], Digits[(m % 10) + 1])

Width(n) == IF n < 0 THEN 1 + Len(Decimal[-n]) ELSE Len(Decimal[n])

Word(prim, width) ==
    [tokens |-> <<[Token("PRIMITIVE", 0, width, 0) EXCEPT !.prim = prim]>>,
     width  |-> width]

Number(n) ==
    [tokens |-> <<[Token("PRIMITIVE", 0, Width(n), 0) EXCEPT !.prim = "number", !.n = n]>>,
     width  |-> Width(n)]

(* Members are followed by a comma or the closing bracket.                 *)
Enclosed(type, members) ==
    LET inside == FoldLeft(LAMBDA text, m :
                             [tokens |-> text.tokens \o Moved(m.tokens, text.width),
                              width  |-> text.width + m.width + 1],
                           [tokens |-> <<>>, width |-> 1], members)
        width == IF members = <<>> THEN 2 ELSE inside.width
    IN  [tokens |-> <<Token(type, 0, width, Len(members))>> \o inside.tokens,
         width  |-> width]

(* A key counts its value as a member of its own.                          *)
Pair(key, value) ==
    LET k == Str(key)
    IN  [tokens |-> <<[k.tokens[1] EXCEPT !.size = 1]>> \o Moved(value.tokens, k.width + 1),
         width  |-> k.width + 1 + value.width]

Object(pairs) == Enclosed("OBJECT", pairs)
Array(values) == Enclosed("ARRAY", values)

---------------------------------------------------------------------------
\* A step of a path: to the member with a key, or to the element at an index.
Key(chars) == [into |-> "OBJECT", chars |-> chars, index |-> 0]
Index(i)   == [into |-> "ARRAY", chars |-> <<>>, index |-> i]

Special == {"/", "[", "]"}

(* A path as text: the grammar at jkii.h:185.                             *)
Escaped(chars) ==
    FlattenSeq([i \in DOMAIN chars |->
        IF chars[i] \in Special THEN <<"\\", chars[i]>> ELSE <<chars[i]>>])

Shown(s) == IF s.into = "ARRAY" THEN <<"[">> \o Decimal[s.index] \o <<"]">> ELSE Escaped(s.chars)

Written(steps) == FlattenSeq([i \in DOMAIN steps |-> <<"/">> \o Shown(steps[i])])

Inside(t, i, j) == t[j].start < t[i].start /\ t[i].end < t[j].end

\* Keys and values of an object in turn, or the elements of an array.
Children(t, j) ==
    {i \in DOMAIN t : /\ Inside(t, i, j)
                      /\ \A k \in DOMAIN t : ~(Inside(t, i, k) /\ Inside(t, k, j))}

Rank(S, i) == Cardinality({k \in S : k < i})
Nth(S, n)  == CHOOSE i \in S : Rank(S, i) = n
Keys(S)    == {i \in S : Rank(S, i) % 2 = 0}

\* Where a step leads from a token: to the value of the first such key.
Member(t, j, s) ==
    LET members == Children(t, j)
        hits    == {k \in Keys(members) : t[k].chars = s.chars}
    IN  IF j = 0 \/ t[j].type # s.into THEN 0
        ELSE IF s.into = "ARRAY"
             THEN IF s.index < Cardinality(members) THEN Nth(members, s.index) ELSE 0
             ELSE IF hits = {} THEN 0 ELSE Nth(members, Rank(members, Min(hits)) + 1)

\* The token a path leads to, 0 if there is none.
Meant(t, steps) ==
    LET to[n \in 0..Len(steps)] == IF n = 0 THEN 1 ELSE Member(t, to[n - 1], steps[n])
    IN  to[Len(steps)]

---------------------------------------------------------------------------
\* What a JSON text is, of its tokens, and a step of the grammar.

\* Places nest: two tokens are apart, or the later one is inside the other.
Nested(t) ==
    /\ \A i \in DOMAIN t :
           t[i].start \in Nat /\ t[i].end \in Nat /\ t[i].start <= t[i].end
    /\ \A i, k \in DOMAIN t :
           i < k => /\ t[i].start < t[k].start
                    /\ t[k].end < t[i].end \/ t[i].end < t[k].start
    /\ \A i \in DOMAIN t : i # 1 => Inside(t, i, 1)

Objects(t) == {j \in DOMAIN t : t[j].type = "OBJECT"}
Arrays(t)  == {j \in DOMAIN t : t[j].type = "ARRAY"}
AllKeys(t) == UNION {Keys(Children(t, j)) : j \in Objects(t)}

IsText(chars) == chars \in Seq(Range(chars))

\* No special character has a backslash before it already.
Legible(chars) ==
    /\ IsText(chars)
    /\ \A i \in 1..(Len(chars) - 1) : chars[i] = "\\" => chars[i + 1] \notin Special

\* Keys are legible strings; sizes are numbers of members, a key has its value.
Counted(t) ==
    LET keys == AllKeys(t)
    IN  /\ \A k \in keys : t[k].type = "STRING" /\ Legible(t[k].chars)
        /\ \A j \in DOMAIN t : t[j].size \in Nat
        /\ \A j \in Objects(t) : Cardinality(Children(t, j)) = 2 * t[j].size
        /\ \A j \in Arrays(t) : Cardinality(Children(t, j)) = t[j].size
        /\ \A j \in DOMAIN t \ (Objects(t) \union Arrays(t)) :
               /\ Children(t, j) = {}
               /\ t[j].size = IF j \in keys THEN 1 ELSE 0

\* Numbers without and with a fraction, numbers that no double holds, and what
\* is no JSON but is taken for a number: a minus alone, what strtod does not
\* read to its end (0e).
Prims == {"null", "true", "false", "number", "frac", "huge", "tiny",
          "minus", "unread", "junk"}

Scalar(k) ==
    /\ k.type \in {"OBJECT", "ARRAY", "STRING", "PRIMITIVE"}
    /\ IF k.type = "PRIMITIVE" THEN k.prim \in Prims ELSE k.prim = "none"
    /\ k.prim = "number" =>
           /\ k.n \in Int
           /\ k.end - k.start = Width(k.n) \/ (k.n = 0 /\ k.end - k.start = 2)  \* -0
    /\ k.prim = "minus" => k.end - k.start = 1

IsJson(t) ==
    /\ t \in Seq(Range(t)) /\ Len(t) > 0
    /\ Nested(t) /\ Counted(t)
    /\ \A i \in DOMAIN t : Scalar(t[i])

IsStep(s) ==
    \/ s.into = "ARRAY" /\ s.index \in Nat
    \/ s.into = "OBJECT" /\ IsText(s.chars) /\ Len(s.chars) > 0

\* No key but the last one ends in a backslash, which would quote the slash.
IsPath(steps) ==
    /\ steps \in Seq(Range(steps)) /\ Len(steps) > 0
    /\ \A s \in Range(steps) : IsStep(s)
    /\ \A i \in 1..(Len(steps) - 1) :
           steps[i].into = "OBJECT" => steps[i].chars[Len(steps[i].chars)] # "\\"
===========================================================================
