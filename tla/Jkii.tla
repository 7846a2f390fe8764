------------------------------- MODULE Jkii -------------------------------
(***************************************************************************)
(* _jkii_read_object: jkii looks up the fields a function of the SDK asks  *)
(* for in a JSON text, with the token array of the kii_t or with one it    *)
(* allocates.  A step is one call to jsmn, to the allocator, or one field. *)
(* Texts are JSON (JsonText) or are refused by jsmn; a field is            *)
(*   [by, steps, type, room]                                               *)
(* with room the size of the buffer for a string, 0 without a buffer.      *)
(***************************************************************************)
EXTENDS JsonText

CONSTANTS
    Calls,      \* [text, lex, fields, long]: the tokens of a text, what jsmn
                \* says of it ("ok", "wrong", or "unmatched" brackets), the
                \* fields, and LONG_MAX of the platform the call is made on
    TokensNum,  \* tokens in the array of the kii_t
    IntMax,
    DblMax      \* the largest double

\* An array of two elements or more that begins with a string is looked up as
\* if its elements were keys and values, and past its end.
TakenForObject(t) == t[1].type # "OBJECT" /\ t[1].size >= 2 /\ t[2].type = "STRING"

ASSUME JkiiAssumption ==
    /\ TokensNum \in Nat /\ IntMax \in Nat /\ DblMax \in Nat
    /\ \A c \in Calls :
           /\ c.long \in Nat /\ IntMax <= c.long /\ c.long <= DblMax
           /\ c.fields \in Seq(Range(c.fields))
           /\ \A f \in Range(c.fields) :
                  f.by = "name" => ~TakenForObject(c.text) /\ Len(f.steps) = 1

Types == {"ANY", "INTEGER", "LONG", "DOUBLE", "BOOLEAN", "NULL", "STRING", "OBJECT", "ARRAY"}

IsField(f) ==
    /\ f.by \in {"name", "path"}
    /\ IsPath(f.steps)
    /\ f.by = "name" => f.steps[1].into = "OBJECT"
    /\ f.type \in Types /\ f.room \in Nat

\* What jsmn makes tokens of is JSON; an index is a long.
ASSUME TextsAssumption ==
    /\ \A t \in {c.text : c \in {d \in Calls : d.lex = "ok"}} : IsJson(t)
    /\ \A f \in UNION {Range(c.fields) : c \in Calls} : IsField(f)
    /\ \A c \in Calls : \A f \in Range(c.fields) : \A s \in Range(f.steps) :
           s.into = "ARRAY" => s.index <= c.long

VARIABLES
    pc,        \* where the call is
    call,      \* the text, the fields and the platform
    static,    \* is there a _json_resource?
    at,        \* the field that is looked up
    answers,   \* what the call made of each field
    verdict,   \* ret of _jkii_parse_fields
    taken,     \* resources allocated, and freed, by this call
    freed,
    ret        \* what the call returned

vars == <<pc, call, static, at, answers, verdict, taken, freed, ret>>

---------------------------------------------------------------------------
\* Looking up a value

\* Mutant: the values of the members of a member are not counted.
CountMembers(t, j) == 1 + t[j].size

(* The tokens of a value: those until as many have come as were announced. *)
ContainedTokens(t, j) ==
    LET left[n \in 0..(Len(t) - j + 1)] ==
            IF n = 0 THEN 1 ELSE left[n - 1] + t[j + n - 1].size - 1
    IN  Min({n \in 1..(Len(t) - j + 1) : left[n] <= 0})

KeyAt(t, j, i) ==
    LET place[m \in 0..i] == IF m = 0 THEN j + 1
                           ELSE place[m - 1] + ContainedTokens(t, place[m - 1] + 1) + 1
    IN  place[i]

ElementAt(t, j, i) ==
    LET before[m \in 0..i] == IF m = 0 THEN j
                              ELSE before[m - 1] + ContainedTokens(t, before[m - 1] + 1)
    IN  before[i] + 1

KeyOf(t, j, i) == t[KeyAt(t, j, i)].chars

\* The value of the first of the members there are.
FirstMember(t, j, hits) == IF hits = {} THEN 0 ELSE KeyAt(t, j, Min(hits)) + 1

(* Members are passed as long as their keys are strings.                   *)
NamedValue(t, name) ==
    IF t[1].type # "OBJECT" /\ t[1].size < 2 THEN 0
    ELSE FirstMember(t, 1, {i \in 0..(t[1].size - 1) :
                              /\ \A l \in 0..i : t[KeyAt(t, 1, l)].type = "STRING"
                              /\ KeyOf(t, 1, i) = name})

Digit(c) == CHOOSE d \in 0..9 : Digits[d + 1] = c

NumberIn(digits) ==
    LET value[i \in 0..Len(digits)] == IF i = 0 THEN 0 ELSE 10 * value[i - 1] + Digit(digits[i])
    IN  value[Len(digits)]

\* Between brackets is an index.
Target(s) == IF s[1] = "[" THEN Index(NumberIn(SubSeq(s, 2, Len(s) - 1))) ELSE Key(s)

(* The target as far as the key is matched, 0 when they differ.  A special *)
(* character may have a backslash before it in the target.                 *)
IsSameKey(target, key) ==
    LET to[i \in 0..Len(key)] ==
            LET p == to[i - 1]
            IN  IF i = 0 THEN 1
                ELSE IF p = 0 \/ p > Len(target) THEN 0
                ELSE IF key[i] = target[p] THEN p + 1
                ELSE IF /\ key[i] \in Special \union {"\\"}
                        /\ target[p] = "\\" /\ p < Len(target)
                        /\ target[p + 1] = key[i]
                     THEN p + 2
                     ELSE 0
    IN  to[Len(key)] = Len(target) + 1

Descend(t, j, target) ==
    IF j = 0 \/ t[j].type # target.into THEN 0
    ELSE IF target.into = "OBJECT"
         THEN FirstMember(t, j, {i \in 0..(t[j].size - 1) :
                                   IsSameKey(target.chars, KeyOf(t, j, i))})
         ELSE IF target.index >= t[j].size THEN 0 ELSE ElementAt(t, j, target.index)

\* A step begins at a slash that has no backslash before it.
Cuts(path) == {i \in DOMAIN path : path[i] = "/" /\ (i = 1 \/ path[i - 1] # "\\")}

(* The steps of a path up to a place in it, to the end of the last one.    *)
ValueByPath(t, path) ==
    LET Start(q) == Max({i \in Cuts(path) : i <= q})
        to[q \in 0..Len(path)] ==
            IF q = 0 THEN 1
            ELSE Descend(t, to[Start(q) - 1], Target(SubSeq(path, Start(q) + 1, q)))
    IN  to[Len(path)]

ValueOf(t, f) ==
    IF f.by = "path" THEN ValueByPath(t, Written(f.steps))
    ELSE NamedValue(t, f.steps[1].chars)

---------------------------------------------------------------------------
\* Converting it

Size(k) == k.end - k.start

(* sizeof of the text of INT_MAX, and of LONG_MAX with its suffix L, + 1;  *)
(* DBL_MAX_10_EXP + 3, where DBL_MAX_10_EXP is a digit less than DBL_MAX   *)
(* has.                                                                    *)
IntBufSize        == Width(IntMax) + 2
LongBufSize(long) == Width(long) + 3
DoubleBufSize     == Width(DblMax) + 2

(* A number is taken for what its length allows.                           *)
IsInt(k) == k.prim \in {"number", "minus"} /\ Size(k) <= IntBufSize

IsLong(k, long) == k.prim \in {"number", "minus"} /\ Size(k) <= LongBufSize(long)

IsDouble(k) == /\ k.prim \in {"number", "minus", "frac", "huge", "tiny", "unread"}
               /\ Size(k) <= DoubleBufSize

ActualType(k, long) ==
    CASE k.type # "PRIMITIVE"            -> k.type
      [] k.prim = "null"                 -> "NULL"
      [] k.prim \in {"true", "false"}    -> "BOOLEAN"
      [] IsInt(k)                        -> "INTEGER"
      [] IsLong(k, long) /\ ~IsInt(k)    -> "LONG"
      [] IsDouble(k) /\ ~IsLong(k, long) -> "DOUBLE"
      [] OTHER                           -> "ANY"

Limited(n, least, most) ==
    IF n > most THEN [err |-> "OVERFLOW", n |-> most]
    ELSE IF n < least THEN [err |-> "UNDERFLOW", n |-> least]
    ELSE [err |-> "OK", n |-> n]

\* A number longer than the buffer is out of range, too.
ToLong(k, long) ==
    IF k.prim = "minus" THEN [err |-> "INVALID", n |-> 0]
    ELSE Limited(k.n, -long - 1, long)

(* What _jkii_to_long says of an overflow is not looked at, only the value *)
(* it leaves.                                                              *)
ToInt(k, long) ==
    IF ToLong(k, long).err = "INVALID" THEN ToLong(k, long)
    ELSE Limited(ToLong(k, long).n, -IntMax - 1, IntMax)

DoubleErr(k) ==
    CASE k.prim = "unread" -> "INVALID"
      [] k.prim = "huge"   -> "OVERFLOW"
      [] k.prim = "tiny"   -> "UNDERFLOW"
      [] k.prim = "number" /\ k.n \notin -DblMax..DblMax -> "OVERFLOW"
      [] OTHER             -> "OK"

\* Mutant: what fills the buffer is read from it.
ToDoubleUnchecked(k) == [err |-> DoubleErr(k), n |-> k.n]

(* A number of which the buffer does not hold the NUL is refused.          *)
ToDouble(k) == [err |-> IF Size(k) >= DoubleBufSize THEN "INVALID" ELSE DoubleErr(k),
                n |-> k.n]

Unanswered(f) == [result |-> "none", type |-> f.type, value |-> 0, n |-> 0]

Answer(err, result, type, n) == [err |-> err, result |-> result, type |-> type, n |-> n]

NumberAnswer(number, type) ==
    CASE number.err = "OK"        -> Answer("OK", "OK", type, number.n)
      [] number.err = "OVERFLOW"  -> Answer("PARTIAL", "NUM_OVERFLOW", type, number.n)
      [] number.err = "UNDERFLOW" -> Answer("PARTIAL", "NUM_UNDERFLOW", type, number.n)
      [] OTHER -> Answer("INVALID_INPUT", "NUM_UNDERFLOW", type, number.n)

(* A string is copied with a NUL; without a buffer it is only looked for.  *)
StringAnswer(f, k, type) ==
    IF f.room = 0 \/ f.room > Size(k) THEN Answer("OK", "OK", type, 0)
    ELSE Answer("PARTIAL", "COPY", type, 0)

Accepts(type, actual) == type = actual \/ (type = "LONG" /\ actual = "INTEGER")

Converted(f, k, long) ==
    LET actual == ActualType(k, long)
        type   == IF f.type = "ANY" THEN actual ELSE f.type
    IN  IF actual = "ANY" THEN Answer("INVALID_INPUT", "none", f.type, 0)
        ELSE IF ~Accepts(type, actual) THEN Answer("PARTIAL", "TYPE_MISMATCH", actual, 0)
        ELSE CASE type \in {"STRING", "OBJECT", "ARRAY"} -> StringAnswer(f, k, type)
               [] type = "INTEGER" -> NumberAnswer(ToInt(k, long), type)
               [] type = "LONG"    -> NumberAnswer(ToLong(k, long), type)
               [] type = "DOUBLE"  -> NumberAnswer(ToDouble(k), type)
               [] OTHER            -> Answer("OK", "OK", type, 0)

NotFound(f) == Answer("PARTIAL", "NOT_FOUND", f.type, 0)

AnswerTo(t, f, long) ==
    LET j == ValueOf(t, f)
        a == IF j = 0 THEN NotFound(f) ELSE Converted(f, t[j], long)
    IN  [err   |-> a.err,
         field |-> [result |-> a.result, type |-> a.type, n |-> a.n,
                    value |-> IF a.result = "none" THEN 0 ELSE j]]

---------------------------------------------------------------------------
\* The call

Init ==
    /\ pc = "idle" /\ ret = "none"
    /\ call = [text |-> <<>>, lex |-> "ok", fields |-> <<>>, long |-> IntMax]
    /\ static = FALSE
    /\ at = 1 /\ answers = <<>> /\ verdict = "OK"
    /\ taken = 0 /\ freed = 0

Call ==
    /\ pc = "idle"
    /\ call' \in Calls /\ static' \in BOOLEAN
    /\ pc' = IF static' THEN "tokens" ELSE "count"
    /\ answers' = [i \in DOMAIN call'.fields |-> Unanswered(call'.fields[i])]
    /\ UNCHANGED <<at, verdict, taken, freed, ret>>

\* Without an array jsmn does not see that brackets do not match.
Count ==
    /\ pc = "count" /\ call.lex # "wrong"
    /\ pc' = "alloc"
    /\ UNCHANGED <<call, static, at, answers, verdict, taken, freed, ret>>

CountFails ==
    /\ pc = "count" /\ call.lex = "wrong"
    /\ pc' = "returned" /\ ret' = "INVALID_INPUT"
    /\ UNCHANGED <<call, static, at, answers, verdict, taken, freed>>

Alloc ==
    /\ pc = "alloc"
    /\ pc' = "tokens" /\ taken' = taken + 1
    /\ UNCHANGED <<call, static, at, answers, verdict, freed, ret>>

AllocFails ==
    /\ pc = "alloc"
    /\ pc' = "returned" /\ ret' = "ALLOCATION"
    /\ UNCHANGED <<call, static, at, answers, verdict, taken, freed>>

\* Mutant: what jsmn refuses stays allocated.
ReturnKeeping(code) ==
    /\ pc' = "returned" /\ ret' = code
    /\ freed' = IF static \/ code = "INVALID_INPUT" THEN freed ELSE freed + 1

\* The array of the kii_t stays.
Return(code) ==
    /\ pc' = "returned" /\ ret' = code
    /\ freed' = IF static THEN freed ELSE freed + 1

Shortage == static /\ Len(call.text) > TokensNum

Tokenize ==
    /\ pc = "tokens"
    /\ call.lex = "ok" /\ ~Shortage
    /\ call.text[1].type \in {"OBJECT", "ARRAY"}
    /\ pc' = "fields"
    /\ UNCHANGED <<call, static, at, answers, verdict, taken, freed, ret>>

(* jsmn stops where the tokens run out or at the first mistake.            *)
TokenizeFails ==
    /\ pc = "tokens"
    /\ \/ Shortage /\ Return("TOKENS_SHORTAGE")
       \/ call.lex # "ok" /\ Return("INVALID_INPUT")
       \/ ~Shortage /\ call.text[1].type \notin {"OBJECT", "ARRAY"} /\ Return("INVALID_INPUT")
    /\ UNCHANGED <<call, static, at, answers, verdict, taken>>

\* Mutant: an earlier field that failed is forgotten.
VerdictOfLast(old, err) == err

VerdictWith(old, err) == IF err = "PARTIAL" THEN "PARTIAL" ELSE old

(* A value that cannot be converted at all ends the call: the fields after *)
(* it keep what the application left in them.                              *)
Field ==
    /\ pc = "fields" /\ at <= Len(call.fields)
    /\ LET a == AnswerTo(call.text, call.fields[at], call.long)
       IN  /\ answers' = [answers EXCEPT ![at] = a.field]
           /\ at' = at + 1
           /\ IF a.err = "INVALID_INPUT"
              THEN Return("INVALID_INPUT") /\ UNCHANGED verdict
              ELSE verdict' = VerdictWith(verdict, a.err) /\ UNCHANGED <<pc, ret, freed>>
    /\ UNCHANGED <<call, static, taken>>

Finish ==
    /\ pc = "fields" /\ at > Len(call.fields)
    /\ Return(verdict)
    /\ UNCHANGED <<call, static, at, answers, verdict, taken>>

Next ==
    \/ Call \/ Count \/ CountFails \/ Alloc \/ AllocFails
    \/ Tokenize \/ TokenizeFails \/ Field \/ Finish

Spec == Init /\ [][Next]_vars
---------------------------------------------------------------------------
Codes == {"OK", "PARTIAL", "TOKENS_SHORTAGE", "INVALID_INPUT", "ALLOCATION"}
Results == {"OK", "TYPE_MISMATCH", "NOT_FOUND", "COPY", "NUM_OVERFLOW", "NUM_UNDERFLOW"}

\* Types: every field has its own answer, and the loop ends after the last.
JkiiTypeOK ==
    /\ pc \in {"idle", "count", "alloc", "tokens", "fields", "returned"}
    /\ at \in 1..(Len(call.fields) + 1)
    /\ DOMAIN answers = DOMAIN call.fields
    /\ \A i \in DOMAIN answers : answers[i].result \in Results \union {"none"}
    /\ verdict \in {"OK", "PARTIAL"} /\ ret \in Codes \union {"none"}
    /\ taken \in {0, 1} /\ freed \in {0, 1}

(* What a field is answered with is the value its name or path means: the  *)
(* walk over the numbers of members (_jkii_count_contained_token) arrives  *)
(* where the places of the values in the text say, whatever is nested in   *)
(* the members it passes and whatever keys need a backslash.               *)
FieldsFound ==
    \A i \in DOMAIN answers :
        answers[i].result # "none" =>
            answers[i].value = Meant(call.text, call.fields[i].steps)

Ints == (-IntMax - 1)..IntMax

Longs(long) == (-long - 1)..long

\* A value is of a type and there is room for it.
Fits(type, room, k, long) ==
    CASE type = "INTEGER" -> k.prim = "number" /\ k.n \in Ints
      [] type = "LONG"    -> k.prim = "number" /\ k.n \in Longs(long)
      [] type = "DOUBLE"  ->
             /\ Size(k) < DoubleBufSize
             /\ \/ k.prim = "frac"
                \/ k.prim = "number" /\ Size(k) > LongBufSize(long) /\ k.n \in -DblMax..DblMax
      [] type = "BOOLEAN" -> k.prim \in {"true", "false"}
      [] type = "NULL"    -> k.prim = "null"
      [] type \in {"STRING", "OBJECT", "ARRAY"} ->
             k.type = type /\ (room = 0 \/ Size(k) + 1 <= room)
      [] OTHER -> FALSE

\* Taken for an int by its length, and clipped to a long that is no wider.
Clipped(type, k, long) ==
    IntMax = long /\ type = "INTEGER" /\ k.prim = "number" /\ k.n \notin Ints

\* The int or long next to a number.
Nearest(type, n, long) ==
    LET most == IF type = "INTEGER" THEN IntMax ELSE long
    IN  IF n > most THEN most ELSE IF n < -most - 1 THEN -most - 1 ELSE n

\* Where the value of an int or a long was stored.
Numeric(a, type, k) ==
    /\ type \in {"INTEGER", "LONG"} /\ k.prim = "number"
    /\ a.result \in {"OK", "NUM_OVERFLOW", "NUM_UNDERFLOW"}

\* What the answer a to the field f says of the value at m.
Truthful(f, a, t, m, long) ==
    LET type == IF f.type = "ANY" THEN a.type ELSE f.type
    IN  /\ a.result = "NOT_FOUND" <=> m = 0
        /\ f.type = "ANY" => a.result # "TYPE_MISMATCH"
        /\ m = 0 => a.result # "OK"
        /\ m # 0 /\ ~Clipped(type, t[m], long) =>
               (a.result = "OK" <=> Fits(type, f.room, t[m], long))
        /\ m # 0 /\ Numeric(a, type, t[m]) => a.n = Nearest(type, t[m].n, long)

(* A field is NOT_FOUND if and only if there is no such value, and OK if   *)
(* and only if there is one, it is of the type that was asked for, or else *)
(* of the type the field is given, and it fits.  An int or a long is the   *)
(* number of the text, or the bound that this exceeds (jkii.h:284, 291),   *)
(* on either platform.  This goes for a field that ends the call as well.  *)
FieldsTold ==
    \A i \in DOMAIN answers :
        i < at => Truthful(call.fields[i], answers[i], call.text,
                           Meant(call.text, call.fields[i].steps), call.long)

(* jkii.h:51, 57: OK says that every field is OK, PARTIAL that one is not; *)
(* either says that every field was answered, by this call.                *)
VerdictTold ==
    ret \in {"OK", "PARTIAL"} =>
        /\ \A i \in DOMAIN answers : answers[i].result # "none"
        /\ ret = "OK" <=> \A i \in DOMAIN answers : answers[i].result = "OK"

(* The resource the SDK allocates for a call is there while fields are     *)
(* looked up and freed exactly once when the call returns, whatever it     *)
(* returns; the array of the kii_t is never freed.                         *)
ResourceFreed ==
    /\ freed <= taken
    /\ pc = "fields" /\ ~static => taken = 1 /\ freed = 0
    /\ pc = "returned" => freed = taken
    /\ static => taken = 0
===========================================================================
