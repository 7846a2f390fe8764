---------------------------- MODULE JkiiProofs ----------------------------
(***************************************************************************)
(* Proofs about Jkii, for every text and every list of fields: what a call *)
(* takes it frees, its verdict is that of its fields, and what a field is  *)
(* told is the value its path means.  The last takes most of the module:   *)
(* the members of a value by rank, its places, the sizes jsmn gives its    *)
(* tokens, the walk over them, keys with backslashes, indices, paths.      *)
(***************************************************************************)
EXTENDS Jkii, FlattenTheorems, FiniteSetTheorems, TLAPS

(* A resource of the allocator is held from Alloc to Return only.          *)
Held == pc \in {"tokens", "fields"} /\ ~static

ResourceInv ==
    /\ static \in BOOLEAN
    /\ pc \in {"count", "alloc"} => ~static
    /\ pc \in {"idle", "count", "alloc"} => taken = 0 /\ freed = 0
    /\ Held => taken = 1 /\ freed = 0
    /\ static => taken = 0 /\ freed = 0
    /\ pc = "returned" => freed = taken
    /\ taken \in {0, 1} /\ freed \in {0, 1}
    /\ taken = 0 => freed = 0

(* The invariant of the resource is inductive: the branches of             *)
(* jkii_parse_with_allocator free what they took.                          *)
THEOREM ResourceInductive == Spec => []ResourceInv
<1>1. Init => ResourceInv
  BY DEF Init, ResourceInv, Held
<1>2. ResourceInv /\ [Next]_vars => ResourceInv'
  <2> SUFFICES ASSUME ResourceInv, [Next]_vars PROVE ResourceInv'
    OBVIOUS
  <2>1. CASE Call
    BY <2>1 DEF Call, ResourceInv, Held
  <2>2. CASE Count
    BY <2>2 DEF Count, ResourceInv, Held
  <2>3. CASE CountFails
    BY <2>3 DEF CountFails, ResourceInv, Held
  <2>4. CASE Alloc
    BY <2>4 DEF Alloc, ResourceInv, Held
  <2>5. CASE AllocFails
    BY <2>5 DEF AllocFails, ResourceInv, Held
  <2>6. CASE Tokenize
    BY <2>6 DEF Tokenize, ResourceInv, Held
  <2>7. CASE TokenizeFails
    <3>1. PICK code : Return(code)
      BY <2>7 DEF TokenizeFails
    <3>2. pc = "tokens" /\ UNCHANGED <<static, taken>>
      BY <2>7 DEF TokenizeFails
    <3> QED
      BY <3>1, <3>2 DEF Return, ResourceInv, Held
  <2>8. CASE Field
    <3>1. pc = "fields" /\ UNCHANGED <<static, taken>>
      BY <2>8 DEF Field
    <3>2. Return("INVALID_INPUT") \/ UNCHANGED <<pc, freed>>
      BY <2>8 DEF Field
    <3> QED
      BY <3>1, <3>2 DEF Return, ResourceInv, Held
  <2>9. CASE Finish
    <3>1. pc = "fields" /\ UNCHANGED <<static, taken>> /\ Return(verdict)
      BY <2>9 DEF Finish
    <3> QED
      BY <3>1 DEF Return, ResourceInv, Held
  <2>10. CASE UNCHANGED vars
    BY <2>10 DEF vars, ResourceInv, Held
  <2> QED
    BY <2>1, <2>2, <2>3, <2>4, <2>5, <2>6, <2>7, <2>8, <2>9, <2>10 DEF Next
<1> QED
  BY <1>1, <1>2, PTL DEF Spec

(* The resource a call allocates is there while fields are looked up and   *)
(* freed exactly once, for every text, every field and every failure.      *)
THEOREM ResourceAlwaysFreed == Spec => []ResourceFreed
<1>1. ResourceInv => ResourceFreed
  BY DEF ResourceInv, ResourceFreed, Held
<1> QED
  BY <1>1, ResourceInductive, PTL

---------------------------------------------------------------------------
(* The code for the call and the result of the field agree.                *)
Agrees(a) ==
    /\ a.err \in {"OK", "PARTIAL", "INVALID_INPUT"}
    /\ a.err = "OK" <=> a.result = "OK"
    /\ a.err # "INVALID_INPUT" => a.result # "none"
    /\ a.result \in Results \union {"none"}

(* What _jkii_convert_jsmntok_to_field returns agrees with the result it   *)
(* stores, for every type and every value.                                 *)
LEMMA ConvertedAgrees ==
  ASSUME NEW f, NEW k, NEW long
  PROVE  Agrees(Converted(f, k, long))
<1> DEFINE actual == ActualType(k, long)
           type   == IF f.type = "ANY" THEN actual ELSE f.type
<1>1. \A number, w : Agrees(NumberAnswer(number, w))
  BY DEF Agrees, NumberAnswer, Answer, Results
<1>2. Agrees(StringAnswer(f, k, type))
  BY DEF Agrees, StringAnswer, Answer, Results
<1>3. Agrees(Answer("PARTIAL", "TYPE_MISMATCH", actual, 0)) /\ Agrees(Answer("OK", "OK", type, 0))
  BY DEF Agrees, Answer, Results
<1>4. Agrees(Answer("INVALID_INPUT", "none", f.type, 0))
  BY DEF Agrees, Answer, Results
<1>5. CASE actual = "ANY"
  BY <1>4, <1>5 DEF Converted
<1>6. CASE actual # "ANY" /\ ~Accepts(type, actual)
  BY <1>3, <1>6 DEF Converted
<1>7. CASE actual # "ANY" /\ Accepts(type, actual)
  <2>1. CASE type \in {"STRING", "OBJECT", "ARRAY"}
    BY <1>2, <1>7, <2>1 DEF Converted
  <2>2. CASE type = "INTEGER"
    BY <1>1, <1>7, <2>2 DEF Converted
  <2>3. CASE type = "LONG"
    BY <1>1, <1>7, <2>3 DEF Converted
  <2>4. CASE type = "DOUBLE"
    BY <1>1, <1>7, <2>4 DEF Converted
  <2>5. CASE type \notin {"STRING", "OBJECT", "ARRAY", "INTEGER", "LONG", "DOUBLE"}
    BY <1>3, <1>7, <2>5 DEF Converted
  <2> QED
    BY <2>1, <2>2, <2>3, <2>4, <2>5
<1> QED
  BY <1>5, <1>6, <1>7

LEMMA AnswerAgrees ==
  ASSUME NEW t, NEW f, NEW long
  PROVE  /\ AnswerTo(t, f, long).err \in {"OK", "PARTIAL", "INVALID_INPUT"}
         /\ AnswerTo(t, f, long).err = "OK" <=> AnswerTo(t, f, long).field.result = "OK"
         /\ AnswerTo(t, f, long).err # "INVALID_INPUT" => AnswerTo(t, f, long).field.result # "none"
         /\ AnswerTo(t, f, long).field.result \in Results \union {"none"}
<1> DEFINE j == ValueOf(t, f)
           a == IF j = 0 THEN NotFound(f) ELSE Converted(f, t[j], long)
<1>1. Agrees(NotFound(f))
  BY DEF Agrees, NotFound, Answer, Results
<1>2. Agrees(Converted(f, t[j], long))
  BY ConvertedAgrees
<1>3. Agrees(a)
  BY <1>1, <1>2
<1>4. AnswerTo(t, f, long).err = a.err /\ AnswerTo(t, f, long).field.result = a.result
  BY DEF AnswerTo
<1> HIDE DEF a
<1> QED
  BY <1>3, <1>4 DEF Agrees

---------------------------------------------------------------------------
(* Before the fields nothing is answered; between two fields the verdict   *)
(* is that of the fields so far.                                           *)
Answered(i) == answers[i].result # "none"

Before == {"idle", "count", "alloc", "tokens"}

VerdictInv ==
    /\ pc \in Before \union {"fields", "returned"}
    /\ call.fields \in Seq(Range(call.fields))
    /\ DOMAIN answers = DOMAIN call.fields
    /\ at \in 1..(Len(call.fields) + 1)
    /\ verdict \in {"OK", "PARTIAL"}
    /\ ret \in Codes \union {"none"}
    /\ \A i \in DOMAIN answers : answers[i].result \in Results \union {"none"}
    /\ pc \in Before => at = 1 /\ verdict = "OK"
    /\ pc \in Before \union {"fields"} => ret = "none"
    /\ pc = "fields" =>
           /\ \A i \in 1..(at - 1) : Answered(i)
           /\ verdict = "OK" <=> \A i \in 1..(at - 1) : answers[i].result = "OK"
    /\ VerdictTold

LEMMA FieldsAreSequences ==
  ASSUME NEW c \in Calls
  PROVE  c.fields \in Seq(Range(c.fields))
BY JkiiAssumption DEF JkiiAssumption

LEMMA FieldKeepsVerdict ==
  ASSUME VerdictInv, Field
  PROVE  VerdictInv'
<1> DEFINE f == call.fields[at]
           a == AnswerTo(call.text, f, call.long)
<1>1. /\ pc = "fields" /\ at <= Len(call.fields)
      /\ answers' = [answers EXCEPT ![at] = a.field]
      /\ at' = at + 1
      /\ UNCHANGED <<call, static, taken>>
  BY DEF Field
<1>2. \/ a.err = "INVALID_INPUT" /\ Return("INVALID_INPUT") /\ UNCHANGED verdict
      \/ /\ a.err # "INVALID_INPUT"
         /\ verdict' = VerdictWith(verdict, a.err) /\ UNCHANGED <<pc, ret, freed>>
  BY DEF Field
<1>3. /\ a.err \in {"OK", "PARTIAL", "INVALID_INPUT"}
      /\ a.err = "OK" <=> a.field.result = "OK"
      /\ a.err # "INVALID_INPUT" => a.field.result # "none"
      /\ a.field.result \in Results \union {"none"}
  BY AnswerAgrees
<1> HIDE DEF a
<1>4. /\ Len(call.fields) \in Nat /\ DOMAIN answers = 1..Len(call.fields)
      /\ at \in 1..Len(call.fields)
  BY <1>1 DEF VerdictInv
<1>5. /\ DOMAIN answers' = DOMAIN answers
      /\ answers'[at] = a.field
      /\ \A i \in DOMAIN answers : i # at => answers'[i] = answers[i]
  BY <1>1, <1>4
<1>6. \A i \in DOMAIN answers' : answers'[i].result \in Results \union {"none"}
  BY <1>3, <1>5 DEF VerdictInv
<1>7. /\ call'.fields \in Seq(Range(call'.fields))
      /\ DOMAIN answers' = DOMAIN call'.fields
      /\ at' \in 1..(Len(call'.fields) + 1)
  BY <1>1, <1>4, <1>5 DEF VerdictInv
<1>8. CASE a.err = "INVALID_INPUT"
  <2>1. pc' = "returned" /\ ret' = "INVALID_INPUT" /\ verdict' = verdict
    BY <1>2, <1>8 DEF Return
  <2>2. VerdictTold'
    BY <2>1 DEF VerdictTold
  <2> QED
    BY <1>6, <1>7, <2>1, <2>2 DEF VerdictInv, Before, Codes
<1>9. CASE a.err # "INVALID_INPUT"
  <2>1. pc' = "fields" /\ ret' = "none" /\ verdict' = VerdictWith(verdict, a.err)
    BY <1>1, <1>2, <1>9 DEF VerdictInv, Before
  <2>2. \A i \in 1..at : i = at \/ i \in 1..(at - 1)
    BY <1>4
  <2>3. \A i \in 1..at : Answered(i)'
    BY <1>1, <1>3, <1>4, <1>5, <1>9, <2>2 DEF VerdictInv, Answered
  <2>4. verdict' = "OK" <=> \A i \in 1..at : answers'[i].result = "OK"
    <3>1. verdict' = "OK" <=> verdict = "OK" /\ a.err = "OK"
      BY <1>3, <1>9, <2>1 DEF VerdictWith, VerdictInv
    <3>2. verdict = "OK" <=> \A i \in 1..(at - 1) : answers'[i].result = "OK"
      BY <1>1, <1>4, <1>5 DEF VerdictInv
    <3>3. a.err = "OK" <=> answers'[at].result = "OK"
      BY <1>3, <1>5
    <3>4. at \in 1..at /\ \A i \in 1..(at - 1) : i \in 1..at
      BY <1>4
    <3> QED
      BY <2>2, <3>1, <3>2, <3>3, <3>4
  <2>5. at' - 1 = at
    BY <1>1, <1>4
  <2>6. VerdictTold'
    BY <2>1 DEF VerdictTold
  <2>7. verdict' \in {"OK", "PARTIAL"}
    BY <2>1 DEF VerdictWith, VerdictInv
  <2> QED
    BY <1>6, <1>7, <2>1, <2>3, <2>4, <2>5, <2>6, <2>7 DEF VerdictInv, Before, Codes
<1> QED
  BY <1>8, <1>9

(* The verdict of a call is that of its fields.                            *)
THEOREM VerdictInductive == Spec => []VerdictInv
<1>1. Init => VerdictInv
  <2> SUFFICES ASSUME Init PROVE VerdictInv
    OBVIOUS
  <2>1. call.fields = <<>> /\ answers = <<>>
    BY DEF Init
  <2>2. call.fields \in Seq(Range(call.fields)) /\ Len(call.fields) = 0
    BY <2>1
  <2>3. DOMAIN answers = {}
    BY <2>1
  <2> QED
    BY <2>1, <2>2, <2>3 DEF Init, VerdictInv, VerdictTold, Before
<1>2. VerdictInv /\ [Next]_vars => VerdictInv'
  <2> SUFFICES ASSUME VerdictInv, [Next]_vars PROVE VerdictInv'
    OBVIOUS
  <2>1. CASE Call
    <3>1. call'.fields \in Seq(Range(call'.fields)) /\ call' \in Calls
      BY <2>1, FieldsAreSequences DEF Call
    <3>2. /\ DOMAIN answers' = DOMAIN call'.fields
          /\ \A i \in DOMAIN answers' : answers'[i].result = "none"
      BY <2>1 DEF Call, Unanswered
    <3>3. at = 1 /\ at' = 1 /\ verdict = "OK" /\ verdict' = "OK" /\ ret = "none" /\ ret' = "none"
          /\ pc' \in {"tokens", "count"}
      BY <2>1 DEF Call, VerdictInv, Before
    <3>4. Len(call'.fields) \in Nat
      BY <3>1
    <3>5. at' \in 1..(Len(call'.fields) + 1)
      BY <3>3, <3>4
    <3> QED
      BY <3>1, <3>2, <3>3, <3>5 DEF VerdictInv, VerdictTold, Before
  <2>2. CASE Count \/ Alloc
    BY <2>2 DEF Count, Alloc, VerdictInv, VerdictTold, Before
  <2>3. CASE CountFails \/ AllocFails
    BY <2>3 DEF CountFails, AllocFails, VerdictInv, VerdictTold, Before, Codes
  <2>4. CASE Tokenize
    BY <2>4 DEF Tokenize, VerdictInv, VerdictTold, Before
  <2>5. CASE TokenizeFails
    <3>1. PICK code \in {"TOKENS_SHORTAGE", "INVALID_INPUT"} : Return(code)
      BY <2>5 DEF TokenizeFails
    <3>2. pc = "tokens" /\ UNCHANGED <<call, at, answers, verdict>>
      BY <2>5 DEF TokenizeFails
    <3> QED
      BY <3>1, <3>2 DEF Return, VerdictInv, VerdictTold, Before, Codes
  <2>6. CASE Field
    BY <2>6, FieldKeepsVerdict
  <2>7. CASE Finish
    <3>1. /\ pc = "fields" /\ at > Len(call.fields) /\ UNCHANGED <<call, at, answers, verdict>>
          /\ pc' = "returned" /\ ret' = verdict
      BY <2>7 DEF Finish, Return
    <3>2. Len(call.fields) \in Nat /\ DOMAIN answers = 1..Len(call.fields)
      BY DEF VerdictInv
    <3>3. at - 1 = Len(call.fields)
      BY <3>1, <3>2 DEF VerdictInv
    <3>4. VerdictTold'
      BY <3>1, <3>2, <3>3 DEF VerdictTold, VerdictInv, Answered
    <3> QED
      BY <3>1, <3>4 DEF VerdictInv, Before, Codes
  <2>8. CASE UNCHANGED vars
    BY <2>8 DEF vars, VerdictInv, VerdictTold, Answered
  <2> QED
    BY <2>1, <2>2, <2>3, <2>4, <2>5, <2>6, <2>7, <2>8 DEF Next
<1> QED
  BY <1>1, <1>2, PTL DEF Spec

(* jkii.h:51, 57: a call that returns OK has every field OK, one that      *)
(* returns PARTIAL has not, and either has answered every field.           *)
THEOREM VerdictAlwaysTold == Spec => []VerdictTold
<1>1. VerdictInv => VerdictTold
  BY DEF VerdictInv
<1> QED
  BY <1>1, VerdictInductive, PTL

(* Types, for every text and every list of fields.                         *)
THEOREM JkiiTypeCorrect == Spec => []JkiiTypeOK
<1>1. VerdictInv /\ ResourceInv => JkiiTypeOK
  BY DEF VerdictInv, ResourceInv, JkiiTypeOK, Before
<1> QED
  BY <1>1, VerdictInductive, ResourceInductive, PTL

---------------------------------------------------------------------------
(* The members of a finite set of places, counted from the left.           *)

\* The rank of a place is the number of places before it.
LEMMA RankType ==
  ASSUME NEW S, IsFiniteSet(S), NEW i
  PROVE  IsFiniteSet({k \in S : k < i}) /\ Rank(S, i) \in Nat
<1>1. {k \in S : k < i} \in SUBSET S
  OBVIOUS
<1>2. IsFiniteSet({k \in S : k < i})
  BY <1>1, FS_Subset
<1> QED
  BY <1>2, FS_CardinalityType DEF Rank

\* The leftmost place has rank 0.
LEMMA RankFirst ==
  ASSUME NEW S, S \subseteq Nat, NEW x \in S, \A k \in S : x <= k
  PROVE  Rank(S, x) = 0
<1>1. \A k \in S : ~(k < x)
  OBVIOUS
<1>2. {k \in S : k < x} = {}
  BY <1>1
<1> QED
  BY <1>2, FS_EmptySet DEF Rank

\* The place next to another has the next rank.
LEMMA RankNext ==
  ASSUME NEW S, IsFiniteSet(S), S \subseteq Nat, NEW x \in S, NEW y \in S,
         x < y, \A k \in S : ~(x < k /\ k < y)
  PROVE  Rank(S, y) = Rank(S, x) + 1
<1>0. \A k \in S : k < y <=> k < x \/ k = x
  OBVIOUS
<1>1. {k \in S : k < y} = {k \in S : k < x} \cup {x}
  BY <1>0
<1>2. x \notin {k \in S : k < x}
  OBVIOUS
<1>3. IsFiniteSet({k \in S : k < x})
  BY RankType
<1>4. Cardinality({k \in S : k < x} \cup {x}) = Cardinality({k \in S : k < x}) + 1
  BY <1>2, <1>3, FS_AddElement
<1> QED
  BY <1>1, <1>4 DEF Rank

\* Ranks grow with the places.
LEMMA RankGrows ==
  ASSUME NEW S, IsFiniteSet(S), S \subseteq Nat, NEW x \in S, NEW y \in S, x < y
  PROVE  Rank(S, x) < Rank(S, y)
<1> DEFINE A == {k \in S : k < x}
           B == {k \in S : k < y}
<1>0. \A k \in S : k < x => k < y
  OBVIOUS
<1>a. \A k \in A \cup {x} : k \in S /\ k < y
  BY <1>0
<1>b. ~(x < x)
  OBVIOUS
<1>1. A \cup {x} \in SUBSET B /\ x \notin A
  BY <1>a, <1>b
<1>2. IsFiniteSet(A) /\ IsFiniteSet(B)
  BY RankType
<1>3. Cardinality(A \cup {x}) = Cardinality(A) + 1
  BY <1>1, <1>2, FS_AddElement
<1>4. Cardinality(A \cup {x}) <= Cardinality(B)
  BY <1>1, <1>2, FS_Subset
<1>5. Cardinality(A) \in Nat /\ Cardinality(B) \in Nat
  BY <1>2, FS_CardinalityType
<1>6. Rank(S, x) = Cardinality(A) /\ Rank(S, y) = Cardinality(B)
  BY DEF Rank
<1> HIDE DEF A, B
<1> QED
  BY <1>3, <1>4, <1>5, <1>6

\* So there is one place of a rank.
LEMMA NthOfRank ==
  ASSUME NEW S, IsFiniteSet(S), S \subseteq Nat, NEW x \in S
  PROVE  Nth(S, Rank(S, x)) = x
<1>1. \A y \in S : Rank(S, y) = Rank(S, x) => y = x
  <2> TAKE y \in S
  <2>1. Rank(S, x) \in Nat /\ Rank(S, y) \in Nat
    BY RankType
  <2>2. x < y => Rank(S, x) < Rank(S, y)
    BY RankGrows
  <2>3. y < x => Rank(S, y) < Rank(S, x)
    BY RankGrows
  <2> QED
    BY <2>1, <2>2, <2>3
<1> QED
  BY <1>1 DEF Nth

\* Every rank is less than the number of places.
LEMMA RankBound ==
  ASSUME NEW S, IsFiniteSet(S), S \subseteq Nat, NEW x \in S
  PROVE  Rank(S, x) < Cardinality(S)
<1> DEFINE A == {k \in S : k < x}
<1>1. A \cup {x} \in SUBSET S /\ x \notin A
  OBVIOUS
<1>2. IsFiniteSet(A)
  BY RankType
<1>3. Cardinality(A \cup {x}) = Cardinality(A) + 1
  BY <1>1, <1>2, FS_AddElement
<1>4. Cardinality(A \cup {x}) <= Cardinality(S)
  BY <1>1, FS_Subset
<1>5. Cardinality(A) \in Nat /\ Cardinality(S) \in Nat
  BY <1>2, FS_CardinalityType
<1>6. Rank(S, x) = Cardinality(A)
  BY DEF Rank
<1> HIDE DEF A
<1> QED
  BY <1>3, <1>4, <1>5, <1>6

\* As long as there are more, there is a next place.
LEMMA NextPlace ==
  ASSUME NEW S, IsFiniteSet(S), S \subseteq Nat, NEW x \in S, Rank(S, x) + 1 < Cardinality(S)
  PROVE  \E y \in S : x < y /\ (\A k \in S : ~(x < k /\ k < y)) /\ Rank(S, y) = Rank(S, x) + 1
<1> DEFINE A == {k \in S : k < x}
           B == {k \in S : x < k}
<1>1. B # {}
  <2> SUFFICES ASSUME B = {} PROVE FALSE
    OBVIOUS
  <2>0. \A k \in S : k < x \/ k = x
    <3>1. \A k \in S : k < x \/ k = x \/ x < k
      OBVIOUS
    <3> QED
      BY <3>1
  <2>1. S = A \cup {x} /\ x \notin A
    BY <2>0
  <2>2. IsFiniteSet(A)
    BY RankType
  <2>3. Cardinality(A \cup {x}) = Cardinality(A) + 1
    BY <2>1, <2>2, FS_AddElement
  <2>4. Cardinality(A) \in Nat /\ Rank(S, x) = Cardinality(A)
    BY <2>2, FS_CardinalityType DEF Rank
  <2> HIDE DEF A, B
  <2> QED
    BY <2>1, <2>3, <2>4
<1>2. B \subseteq Nat
  OBVIOUS
<1>3. PICK y \in B : \A k \in B : y <= k
  BY <1>1, <1>2, LeastNumber
<1>4. y \in S /\ x < y /\ \A k \in S : ~(x < k /\ k < y)
  BY <1>3
<1> QED
  BY <1>4, RankNext

\* There is a place of every rank below the number of places.
LEMMA RankExists ==
  ASSUME NEW S, IsFiniteSet(S), S \subseteq Nat
  PROVE  \A n \in Nat : n < Cardinality(S) => \E x \in S : Rank(S, x) = n
<1> DEFINE N == {n \in Nat : n < Cardinality(S) => \E x \in S : Rank(S, x) = n}
<1>0. Cardinality(S) \in Nat
  BY FS_CardinalityType
<1>1. 0 \in N
  <2> SUFFICES ASSUME 0 < Cardinality(S) PROVE \E x \in S : Rank(S, x) = 0
    OBVIOUS
  <2>1. S # {}
    BY <1>0, FS_EmptySet
  <2>2. PICK x \in S : \A k \in S : x <= k
    BY <2>1, LeastNumber
  <2> QED
    BY <2>2, RankFirst
<1>2. ASSUME NEW n \in Nat, n \in N PROVE n + 1 \in N
  <2> SUFFICES ASSUME n + 1 < Cardinality(S) PROVE \E x \in S : Rank(S, x) = n + 1
    OBVIOUS
  <2>1. PICK x \in S : Rank(S, x) = n
    BY <1>0, <1>2
  <2> QED
    BY <2>1, NextPlace
<1> HIDE DEF N
<1>3. Nat \subseteq N
  BY <1>1, <1>2, SetInduction
<1> QED
  BY <1>3 DEF N

\* Half of the places have an even rank.
LEMMA EvenRanks ==
  ASSUME NEW S, IsFiniteSet(S), S \subseteq Nat, NEW m \in Nat, Cardinality(S) = 2 * m
  PROVE  IsFiniteSet(Keys(S)) /\ Cardinality(Keys(S)) = m
<1> DEFINE K(n) == {i \in Keys(S) : Rank(S, i) < 2 * n}
           N == {n \in Nat : n <= m => IsFiniteSet(K(n)) /\ Cardinality(K(n)) = n}
<1>0. \A i \in S : Rank(S, i) \in Nat
  BY RankType
<1>1. 0 \in N
  <2>1. \A i \in Keys(S) : ~(Rank(S, i) < 2 * 0)
    BY <1>0 DEF Keys
  <2>2. K(0) = {}
    BY <2>1
  <2> QED
    BY <2>2, FS_EmptySet
<1>2. ASSUME NEW n \in Nat, n \in N PROVE n + 1 \in N
  <2> SUFFICES ASSUME n + 1 <= m
               PROVE  IsFiniteSet(K(n + 1)) /\ Cardinality(K(n + 1)) = n + 1
    OBVIOUS
  <2>1. 2 * n \in Nat /\ 2 * n < Cardinality(S)
    OBVIOUS
  <2>2. PICK x \in S : Rank(S, x) = 2 * n
    BY <2>1, RankExists
  <2>3. x \in Keys(S)
    BY <2>2 DEF Keys
  <2>4. \A i \in Keys(S) : Rank(S, i) < 2 * (n + 1) <=> Rank(S, i) < 2 * n \/ Rank(S, i) = 2 * n
    BY <1>0 DEF Keys
  <2>5. \A i \in S : Rank(S, i) = 2 * n => i = x
    BY <2>2, NthOfRank
  <2>6. Keys(S) \subseteq S
    BY DEF Keys
  <2>a. \A i \in Keys(S) : Rank(S, i) = 2 * n <=> i = x
    BY <2>2, <2>5, <2>6
  <2>b. \A i \in Keys(S) : Rank(S, i) < 2 * (n + 1) <=> Rank(S, i) < 2 * n \/ i = x
    BY <2>4, <2>a
  <2>c. ~(Rank(S, x) < 2 * n)
    BY <2>1, <2>2
  <2>7. K(n + 1) = K(n) \cup {x} /\ x \notin K(n)
    BY <2>3, <2>b, <2>c
  <2>8. IsFiniteSet(K(n)) /\ Cardinality(K(n)) = n
    BY <1>2
  <2> HIDE DEF K
  <2>9. IsFiniteSet(K(n) \cup {x}) /\ Cardinality(K(n) \cup {x}) = Cardinality(K(n)) + 1
    BY <2>7, <2>8, FS_AddElement
  <2> QED
    BY <2>7, <2>8, <2>9
<1>3. K(m) = Keys(S)
  <2>1. \A i \in Keys(S) : i \in S /\ Rank(S, i) < 2 * m
    BY RankBound DEF Keys
  <2> QED
    BY <2>1
<1> HIDE DEF N, K
<1>4. Nat \subseteq N
  BY <1>1, <1>2, SetInduction
<1>5. IsFiniteSet(K(m)) /\ Cardinality(K(m)) = m
  BY <1>4 DEF N
<1> QED
  BY <1>3, <1>5

---------------------------------------------------------------------------
(* The places of a text.                                                   *)

\* What nested places are, without the places.
Nests(t) ==
    \A i, j, k \in DOMAIN t :
        /\ Inside(t, i, j) => j < i
        /\ Inside(t, i, j) /\ Inside(t, j, k) => Inside(t, i, k)
        /\ Inside(t, i, j) /\ j < k /\ k < i => Inside(t, k, j)
        /\ Inside(t, i, j) /\ Inside(t, i, k) /\ j < k => Inside(t, k, j)

\* The tokens of a value come one after the other.
LEMMA PlacesNest ==
  ASSUME NEW t, t \in Seq(Range(t)), Nested(t)
  PROVE  Nests(t)
<1>0. DOMAIN t = 1..Len(t) /\ Len(t) \in Nat
  OBVIOUS
<1> SUFFICES ASSUME NEW i \in DOMAIN t, NEW j \in DOMAIN t, NEW k \in DOMAIN t
             PROVE  /\ Inside(t, i, j) => j < i
                    /\ Inside(t, i, j) /\ Inside(t, j, k) => Inside(t, i, k)
                    /\ Inside(t, i, j) /\ j < k /\ k < i => Inside(t, k, j)
                    /\ Inside(t, i, j) /\ Inside(t, i, k) /\ j < k => Inside(t, k, j)
  BY DEF Nests
<1>1. /\ i \in Nat /\ j \in Nat /\ k \in Nat
      /\ t[i].start \in Nat /\ t[i].end \in Nat /\ t[i].start <= t[i].end
      /\ t[j].start \in Nat /\ t[j].end \in Nat /\ t[j].start <= t[j].end
      /\ t[k].start \in Nat /\ t[k].end \in Nat /\ t[k].start <= t[k].end
  BY <1>0 DEF Nested
<1>2. \A x, y \in DOMAIN t :
        x < y => /\ t[x].start < t[y].start
                 /\ t[y].end < t[x].end \/ t[x].end < t[y].start
  BY DEF Nested
<1>3. Inside(t, i, j) => j < i
  <2>1. i < j => t[i].start < t[j].start
    BY <1>2
  <2> QED
    BY <1>1, <2>1 DEF Inside
<1>4. Inside(t, i, j) /\ Inside(t, j, k) => Inside(t, i, k)
  BY <1>1 DEF Inside
<1>5. Inside(t, i, j) /\ j < k /\ k < i => Inside(t, k, j)
  <2>1. k < i => t[k].start < t[i].start
    BY <1>2
  <2>2. j < k => t[j].start < t[k].start /\ (t[k].end < t[j].end \/ t[j].end < t[k].start)
    BY <1>2
  <2> QED
    BY <1>1, <2>1, <2>2 DEF Inside
<1>6. Inside(t, i, j) /\ Inside(t, i, k) /\ j < k => Inside(t, k, j)
  <2>2. j < k => t[j].start < t[k].start /\ (t[k].end < t[j].end \/ t[j].end < t[k].start)
    BY <1>2
  <2> QED
    BY <1>1, <2>2 DEF Inside
<1> QED
  BY <1>3, <1>4, <1>5, <1>6

\* The members of a value are places of the text.
LEMMA ChildrenType ==
  ASSUME NEW t, t \in Seq(Range(t)), NEW j
  PROVE  Children(t, j) \subseteq DOMAIN t /\ Children(t, j) \subseteq Nat /\ IsFiniteSet(Children(t, j))
<1>1. DOMAIN t = 1..Len(t) /\ Len(t) \in Nat
  OBVIOUS
<1>2. Children(t, j) \subseteq 1..Len(t)
  BY <1>1 DEF Children
<1>3. IsFiniteSet(1..Len(t))
  BY <1>1, FS_Interval
<1>4. IsFiniteSet(Children(t, j))
  BY <1>2, <1>3, FS_Subset
<1> QED
  BY <1>1, <1>2, <1>4

\* The first token that is not part of a value.
After(t, j) == CHOOSE e \in j + 1..Len(t) + 1 :
                   \A i \in DOMAIN t : Inside(t, i, j) <=> j < i /\ i < e

\* A value ends where the tokens inside it do.
LEMMA AfterValue ==
  ASSUME NEW t, t \in Seq(Range(t)), Nests(t), NEW j \in DOMAIN t
  PROVE  /\ After(t, j) \in j + 1..Len(t) + 1
         /\ \A i \in DOMAIN t : Inside(t, i, j) <=> j < i /\ i < After(t, j)
<1>0. DOMAIN t = 1..Len(t) /\ Len(t) \in Nat /\ j \in 1..Len(t)
  OBVIOUS
<1> DEFINE X == {e \in j + 1..Len(t) + 1 : e = Len(t) + 1 \/ ~Inside(t, e, j)}
<1>1. X \subseteq Nat /\ Len(t) + 1 \in X
  BY <1>0
<1>2. PICK e \in X : \A x \in X : e <= x
  BY <1>1, LeastNumber
<1>3. e \in j + 1..Len(t) + 1
  OBVIOUS
<1>4. ASSUME NEW i \in DOMAIN t, j < i, i < e PROVE Inside(t, i, j)
  <2>1. i \in j + 1..Len(t) + 1 /\ ~(e <= i)
    BY <1>0, <1>3, <1>4
  <2>2. i \notin X
    BY <1>2, <2>1
  <2> QED
    BY <2>1, <2>2
<1>5. ASSUME NEW i \in DOMAIN t, Inside(t, i, j) PROVE j < i /\ i < e
  <2>1. j < i
    BY <1>5 DEF Nests
  <2>2. CASE e = Len(t) + 1
    BY <1>0, <2>1, <2>2
  <2>3. CASE e # Len(t) + 1
    <3>1. e \in DOMAIN t /\ ~Inside(t, e, j) /\ j < e
      BY <1>0, <1>3, <2>3
    <3>2. ~(e < i) /\ e # i
      BY <1>5, <3>1 DEF Nests
    <3> QED
      BY <1>0, <2>1, <3>1, <3>2
  <2> QED
    BY <2>2, <2>3
<1>6. \A i \in DOMAIN t : Inside(t, i, j) <=> j < i /\ i < e
  BY <1>4, <1>5
<1> HIDE DEF X
<1> QED
  BY <1>3, <1>6 DEF After

\* A token is a member of one value at most,
LEMMA OneParent ==
  ASSUME NEW t, t \in Seq(Range(t)), Nests(t), NEW j \in DOMAIN t, NEW k \in DOMAIN t,
         NEW i \in Children(t, j), i \in Children(t, k)
  PROVE  j = k
<1>1. \A a, b \in DOMAIN t : i \in Children(t, a) /\ i \in Children(t, b) => ~(a < b)
  <2> SUFFICES ASSUME NEW a \in DOMAIN t, NEW b \in DOMAIN t,
                      i \in Children(t, a), i \in Children(t, b), a < b
               PROVE  FALSE
    OBVIOUS
  <2>1. i \in DOMAIN t /\ Inside(t, i, a) /\ Inside(t, i, b)
    BY DEF Children
  <2>2. Inside(t, b, a)
    BY <2>1 DEF Nests
  <2> QED
    BY <2>1, <2>2 DEF Children
<1>2. j \in Nat /\ k \in Nat
  OBVIOUS
<1> QED
  BY <1>1, <1>2

\* and of one if it is inside any.
LEMMA HasParent ==
  ASSUME NEW t, t \in Seq(Range(t)), Nests(t), NEW i \in DOMAIN t, NEW j \in DOMAIN t, Inside(t, i, j)
  PROVE  \E p \in DOMAIN t : i \in Children(t, p)
<1>0. DOMAIN t = 1..Len(t) /\ Len(t) \in Nat /\ i \in Nat /\ j \in Nat
  OBVIOUS
<1> DEFINE X == {d \in Nat : \E k \in DOMAIN t : Inside(t, i, k) /\ k + d = i}
<1>1. X \subseteq Nat /\ i - j \in X
  <2>1. j < i
    BY DEF Nests
  <2>2. i - j \in Nat /\ j + (i - j) = i
    BY <1>0, <2>1
  <2> QED
    BY <2>2
<1>2. PICK d \in X : \A x \in X : d <= x
  BY <1>1, LeastNumber
<1>3. PICK p \in DOMAIN t : Inside(t, i, p) /\ p + d = i
  OBVIOUS
<1>4. ASSUME NEW k \in DOMAIN t, Inside(t, i, k), Inside(t, k, p) PROVE FALSE
  <2>1. p < k /\ k < i
    BY <1>4 DEF Nests
  <2>2. p \in Nat /\ k \in Nat /\ d \in Nat
    BY <1>0
  <2>3. i - k \in Nat /\ k + (i - k) = i /\ ~(d <= i - k)
    BY <1>0, <1>3, <2>1, <2>2
  <2>4. i - k \in X
    BY <1>4, <2>3
  <2> HIDE DEF X
  <2> QED
    BY <1>2, <2>3, <2>4
<1> QED
  BY <1>3, <1>4 DEF Children

\* The first member comes next to the token of the value.
LEMMA FirstChild ==
  ASSUME NEW t, t \in Seq(Range(t)), Nests(t), NEW p \in DOMAIN t, NEW x \in DOMAIN t, Inside(t, x, p)
  PROVE  p + 1 \in Children(t, p)
<1>0. DOMAIN t = 1..Len(t) /\ Len(t) \in Nat /\ p \in Nat
  OBVIOUS
<1>1. x \in DOMAIN t /\ Inside(t, x, p)
  OBVIOUS
<1>2. p < x
  BY <1>1 DEF Nests
<1>3. p + 1 \in DOMAIN t /\ p < p + 1 /\ (p + 1 = x \/ p + 1 < x)
  BY <1>0, <1>1, <1>2
<1>4. Inside(t, p + 1, p)
  BY <1>1, <1>3 DEF Nests
<1>5. ASSUME NEW k \in DOMAIN t, Inside(t, p + 1, k), Inside(t, k, p) PROVE FALSE
  <2>1. k < p + 1 /\ p < k
    BY <1>3, <1>5 DEF Nests
  <2> QED
    BY <1>0, <2>1
<1> QED
  BY <1>3, <1>4, <1>5 DEF Children

\* The next member comes after the tokens of a member.
LEMMA NextChild ==
  ASSUME NEW t, t \in Seq(Range(t)), Nests(t), NEW p \in DOMAIN t,
         NEW x \in Children(t, p), NEW y \in Children(t, p), x < y,
         \A k \in Children(t, p) : ~(x < k /\ k < y)
  PROVE  y = After(t, x)
<1> DEFINE z == After(t, x)
<1>0. DOMAIN t = 1..Len(t) /\ Len(t) \in Nat /\ p \in Nat
  OBVIOUS
<1>1. x \in DOMAIN t /\ Inside(t, x, p) /\ \A k \in DOMAIN t : ~(Inside(t, x, k) /\ Inside(t, k, p))
  BY DEF Children
<1>2. y \in DOMAIN t /\ Inside(t, y, p) /\ \A k \in DOMAIN t : ~(Inside(t, y, k) /\ Inside(t, k, p))
  BY DEF Children
<1>3. z \in x + 1..Len(t) + 1 /\ \A i \in DOMAIN t : Inside(t, i, x) <=> x < i /\ i < z
  BY <1>1, AfterValue
<1>4. ~Inside(t, y, x)
  BY <1>1, <1>2
<1> HIDE DEF z
<1>5. z <= y
  BY <1>0, <1>1, <1>2, <1>3, <1>4
<1>6. ASSUME z < y PROVE FALSE
  <2>1. z \in DOMAIN t /\ x < z /\ p < x
    BY <1>0, <1>1, <1>2, <1>3, <1>6 DEF Nests
  <2>2. p < z
    BY <1>0, <1>1, <2>1
  <2>3. Inside(t, z, p)
    BY <1>2, <1>6, <2>1, <2>2 DEF Nests
  <2>4. PICK w \in DOMAIN t : Inside(t, z, w) /\ Inside(t, w, p)
    BY <1>6, <2>1, <2>3 DEF Children
  <2>5. w < z /\ p < w
    BY <2>1, <2>4 DEF Nests
  <2>6. ~(w < x)
    <3> SUFFICES ASSUME w < x PROVE FALSE
      OBVIOUS
    <3>1. Inside(t, x, w)
      BY <1>1, <2>1, <2>4 DEF Nests
    <3> QED
      BY <1>1, <2>4, <3>1
  <2>7. ~Inside(t, z, x)
    BY <1>0, <1>3, <2>1
  <2>8. x < w
    BY <1>0, <1>1, <2>4, <2>6, <2>7
  <2>9. Inside(t, w, x)
    BY <1>3, <2>4, <2>5, <2>8
  <2> QED
    BY <1>1, <2>1, <2>4, <2>7, <2>9 DEF Nests
<1> QED
  BY <1>0, <1>2, <1>3, <1>5, <1>6 DEF z

\* What the ranks say of the places: the member of rank 0, and the next one.
LEMMA ChildOfRankZero ==
  ASSUME NEW t, t \in Seq(Range(t)), Nests(t), NEW p \in DOMAIN t, 0 < Cardinality(Children(t, p))
  PROVE  p + 1 \in Children(t, p) /\ Rank(Children(t, p), p + 1) = 0
<1> DEFINE S == Children(t, p)
<1>1. IsFiniteSet(S) /\ S \subseteq Nat /\ S \subseteq DOMAIN t
  BY ChildrenType
<1>2. PICK x \in S : Rank(S, x) = 0
  BY <1>1, RankExists
<1>3. p + 1 \in S
  <2>1. x \in DOMAIN t /\ Inside(t, x, p)
    BY DEF Children
  <2> QED
    BY <2>1, FirstChild
<1>4. \A k \in S : p + 1 <= k
  <2> TAKE k \in S
  <2>1. p < k /\ k \in Nat /\ p \in Nat
    BY <1>1 DEF Nests, Children
  <2> QED
    BY <2>1
<1> HIDE DEF S
<1>5. Rank(S, p + 1) = 0
  BY <1>1, <1>3, <1>4, RankFirst
<1> QED
  BY <1>3, <1>5 DEF S

\* The member after another one begins where that one ends.
LEMMA ChildOfNextRank ==
  ASSUME NEW t, t \in Seq(Range(t)), Nests(t), NEW p \in DOMAIN t, NEW x \in Children(t, p),
         Rank(Children(t, p), x) + 1 < Cardinality(Children(t, p))
  PROVE  /\ After(t, x) \in Children(t, p)
         /\ Rank(Children(t, p), After(t, x)) = Rank(Children(t, p), x) + 1
<1>1. IsFiniteSet(Children(t, p)) /\ Children(t, p) \subseteq Nat
  BY ChildrenType
<1>2. PICK y \in Children(t, p) : /\ x < y /\ (\A k \in Children(t, p) : ~(x < k /\ k < y))
                                  /\ Rank(Children(t, p), y) = Rank(Children(t, p), x) + 1
  BY <1>1, NextPlace
<1>3. y = After(t, x)
  BY <1>2, NextChild
<1> QED
  BY <1>2, <1>3

---------------------------------------------------------------------------
(* The sizes of the tokens.                                                *)

\* The tokens a token announces with its size.
CountedBy(t, k) ==
    IF k \in Objects(t) THEN Keys(Children(t, k))
    ELSE IF k \in Arrays(t) THEN Children(t, k)
    ELSE IF k \in AllKeys(t) THEN {k + 1}
    ELSE {}

\* The places of a JSON text nest.
LEMMA JsonNests ==
  ASSUME NEW t, IsJson(t)
  PROVE  /\ t \in Seq(Range(t)) /\ Nests(t)
         /\ DOMAIN t = 1..Len(t) /\ Len(t) \in Nat
BY PlacesNest DEF IsJson

\* A string or a number is one token.
LEMMA AfterLeaf ==
  ASSUME NEW t, IsJson(t), NEW k \in DOMAIN t, k \notin Objects(t), k \notin Arrays(t)
  PROVE  After(t, k) = k + 1
<1>1. t \in Seq(Range(t)) /\ Nests(t) /\ DOMAIN t = 1..Len(t) /\ Len(t) \in Nat
  BY JsonNests
<1>2. Children(t, k) = {}
  BY DEF IsJson, Counted
<1>3. \A x \in DOMAIN t : ~Inside(t, x, k)
  BY <1>1, <1>2, FirstChild
<1>4. /\ After(t, k) \in k + 1..Len(t) + 1
      /\ \A i \in DOMAIN t : Inside(t, i, k) <=> k < i /\ i < After(t, k)
  BY <1>1, AfterValue
<1>5. ASSUME k + 1 < After(t, k) PROVE FALSE
  <2>1. k + 1 \in DOMAIN t /\ k < k + 1
    BY <1>1, <1>4, <1>5
  <2> QED
    BY <1>3, <1>4, <1>5, <2>1
<1> QED
  BY <1>1, <1>4, <1>5

\* A key is one token, and its value comes next to it.
LEMMA ValueOfKey ==
  ASSUME NEW t, IsJson(t), NEW p \in Objects(t), NEW k \in Keys(Children(t, p))
  PROVE  /\ k \in DOMAIN t /\ k \in AllKeys(t) /\ k \notin Objects(t) /\ k \notin Arrays(t)
         /\ k + 1 \in Children(t, p)
         /\ Rank(Children(t, p), k + 1) = Rank(Children(t, p), k) + 1
         /\ k + 1 \notin Keys(Children(t, p))
<1>1. t \in Seq(Range(t)) /\ Nests(t) /\ p \in DOMAIN t
  BY JsonNests DEF Objects
<1>2. IsFiniteSet(Children(t, p)) /\ Children(t, p) \subseteq Nat /\ Children(t, p) \subseteq DOMAIN t
  BY <1>1, ChildrenType
<1>3. k \in Children(t, p) /\ Rank(Children(t, p), k) % 2 = 0
  BY DEF Keys
<1>4. k \in AllKeys(t)
  BY DEF AllKeys
<1>5. t[k].type = "STRING"
  BY <1>4 DEF IsJson, Counted
<1>6. k \in DOMAIN t /\ k \notin Objects(t) /\ k \notin Arrays(t)
  BY <1>2, <1>3, <1>5 DEF Objects, Arrays
<1>7. After(t, k) = k + 1
  BY <1>6, AfterLeaf
<1>8. Cardinality(Children(t, p)) = 2 * t[p].size /\ t[p].size \in Nat
  BY <1>1 DEF IsJson, Counted
<1>9. Rank(Children(t, p), k) \in Nat /\ Rank(Children(t, p), k) < Cardinality(Children(t, p))
  BY <1>2, <1>3, RankType, RankBound
<1>10. Rank(Children(t, p), k) + 1 < Cardinality(Children(t, p))
  BY <1>3, <1>8, <1>9
<1>11. /\ k + 1 \in Children(t, p)
       /\ Rank(Children(t, p), k + 1) = Rank(Children(t, p), k) + 1
  BY <1>1, <1>3, <1>7, <1>10, ChildOfNextRank
<1>12. k + 1 \notin Keys(Children(t, p))
  BY <1>3, <1>9, <1>11 DEF Keys
<1> QED
  BY <1>4, <1>6, <1>11, <1>12

\* A token announces as many as its size says.
LEMMA CountedBySize ==
  ASSUME NEW t, IsJson(t), NEW k \in DOMAIN t
  PROVE  /\ IsFiniteSet(CountedBy(t, k)) /\ Cardinality(CountedBy(t, k)) = t[k].size
         /\ t[k].size \in Nat
<1>1. t \in Seq(Range(t)) /\ t[k].size \in Nat
  BY DEF IsJson, Counted
<1>2. IsFiniteSet(Children(t, k)) /\ Children(t, k) \subseteq Nat
  BY <1>1, ChildrenType
<1>3. CASE k \in Objects(t)
  <2>1. Cardinality(Children(t, k)) = 2 * t[k].size
    BY <1>3 DEF IsJson, Counted
  <2> QED
    BY <1>1, <1>2, <1>3, <2>1, EvenRanks DEF CountedBy
<1>4. CASE k \notin Objects(t) /\ k \in Arrays(t)
  BY <1>1, <1>2, <1>4 DEF IsJson, Counted, CountedBy
<1>5. CASE k \notin Objects(t) /\ k \notin Arrays(t)
  <2>1. t[k].size = IF k \in AllKeys(t) THEN 1 ELSE 0
    BY <1>5 DEF IsJson, Counted
  <2> QED
    BY <1>1, <1>5, <2>1, FS_Singleton, FS_EmptySet DEF CountedBy
<1> QED
  BY <1>3, <1>4, <1>5

\* Which are later tokens; those of a value are parts of it.
LEMMA CountedByInside ==
  ASSUME NEW t, IsJson(t), NEW k \in DOMAIN t, NEW i \in CountedBy(t, k)
  PROVE  /\ i \in DOMAIN t /\ k < i
         /\ \A j \in DOMAIN t : j \notin AllKeys(t) /\ (k = j \/ Inside(t, k, j)) => Inside(t, i, j)
<1>1. t \in Seq(Range(t)) /\ Nests(t) /\ DOMAIN t = 1..Len(t) /\ Len(t) \in Nat
  BY JsonNests
<1>2. CASE i \in Children(t, k)
  <2>1. i \in DOMAIN t /\ Inside(t, i, k)
    BY <1>2 DEF Children
  <2> QED
    BY <1>1, <2>1 DEF Nests
<1>3. CASE i \notin Children(t, k)
  <2>1. k \notin Objects(t) /\ k \in AllKeys(t) /\ i = k + 1
    BY <1>3 DEF CountedBy, Keys
  <2>2. PICK q \in Objects(t) : k \in Keys(Children(t, q))
    BY <2>1 DEF AllKeys
  <2>3. i \in Children(t, q)
    BY <2>1, <2>2, ValueOfKey
  <2>4. k \in Children(t, q) /\ q \in DOMAIN t
    BY <2>2 DEF Keys, Objects
  <2>5. i \in DOMAIN t /\ Inside(t, i, q) /\ Inside(t, k, q)
    BY <2>3, <2>4 DEF Children
  <2>6. ASSUME NEW j \in DOMAIN t, j \notin AllKeys(t), k = j \/ Inside(t, k, j)
        PROVE  Inside(t, i, j)
    <3>1. Inside(t, k, j)
      BY <2>1, <2>6
    <3>2. CASE q = j
      BY <2>5, <3>2
    <3>3. CASE q < j
      <4>1. Inside(t, j, q)
        BY <1>1, <2>4, <2>5, <3>1, <3>3 DEF Nests
      <4> QED
        BY <2>4, <3>1, <4>1 DEF Children
    <3>4. CASE j < q
      <4>1. Inside(t, q, j)
        BY <1>1, <2>4, <2>5, <3>1, <3>4 DEF Nests
      <4> QED
        BY <1>1, <2>4, <2>5, <4>1 DEF Nests
    <3>5. q \in Nat /\ j \in Nat
      BY <1>1, <2>4
    <3> QED
      BY <3>2, <3>3, <3>4, <3>5
  <2>7. k < i
    BY <1>1, <2>1
  <2> QED
    BY <2>5, <2>6, <2>7
<1> QED
  BY <1>2, <1>3

\* Every token but the first is announced by an earlier one,
LEMMA CountedBySome ==
  ASSUME NEW t, IsJson(t), NEW i \in DOMAIN t, i # 1
  PROVE  \E k \in DOMAIN t : i \in CountedBy(t, k)
<1>1. t \in Seq(Range(t)) /\ Nests(t) /\ DOMAIN t = 1..Len(t) /\ Len(t) \in Nat
  BY JsonNests
<1>2. 1 \in DOMAIN t /\ Inside(t, i, 1)
  BY <1>1 DEF IsJson, Nested
<1>3. PICK p \in DOMAIN t : i \in Children(t, p)
  BY <1>1, <1>2, HasParent
<1> DEFINE S == Children(t, p)
<1>4. IsFiniteSet(S) /\ S \subseteq Nat
  BY <1>1, ChildrenType
<1>5. p \in Objects(t) \/ p \in Arrays(t)
  BY <1>3 DEF IsJson, Counted
<1>6. CASE p \notin Objects(t)
  BY <1>3, <1>5, <1>6 DEF CountedBy
<1>7. CASE p \in Objects(t) /\ i \in Keys(S)
  BY <1>3, <1>7 DEF CountedBy
<1>8. CASE p \in Objects(t) /\ i \notin Keys(S)
  <2>1. Rank(S, i) \in Nat /\ Rank(S, i) < Cardinality(S) /\ Cardinality(S) \in Nat
    BY <1>3, <1>4, RankType, RankBound, FS_CardinalityType
  <2>2. Rank(S, i) % 2 # 0
    BY <1>3, <1>8 DEF Keys
  <2> DEFINE r == Rank(S, i) - 1
  <2>3. r \in Nat /\ r < Cardinality(S) /\ r % 2 = 0 /\ r + 1 = Rank(S, i)
    BY <2>1, <2>2
  <2> HIDE DEF r
  <2>4. PICK x \in S : Rank(S, x) = r
    BY <1>4, <2>3, RankExists
  <2>5. x \in Keys(S)
    BY <2>3, <2>4 DEF Keys
  <2>6. /\ x \in DOMAIN t /\ x \in AllKeys(t) /\ x \notin Objects(t) /\ x \notin Arrays(t)
        /\ x + 1 \in S /\ Rank(S, x + 1) = Rank(S, x) + 1
    BY <1>8, <2>5, ValueOfKey
  <2>7. Rank(S, x + 1) = Rank(S, i)
    BY <2>3, <2>4, <2>6
  <2>8. x + 1 = i
    <3>1. Nth(S, Rank(S, x + 1)) = x + 1 /\ Nth(S, Rank(S, i)) = i
      BY <1>3, <1>4, <2>6, NthOfRank
    <3> QED
      BY <2>7, <3>1
  <2> QED
    BY <2>6, <2>8 DEF CountedBy
<1> QED
  BY <1>6, <1>7, <1>8

\* and by no other.
LEMMA CountedByOne ==
  ASSUME NEW t, IsJson(t), NEW k \in DOMAIN t, NEW l \in DOMAIN t,
         NEW i \in CountedBy(t, k), i \in CountedBy(t, l)
  PROVE  k = l
<1>1. t \in Seq(Range(t)) /\ Nests(t) /\ DOMAIN t = 1..Len(t) /\ Len(t) \in Nat
  BY JsonNests
<1>2. \A m \in DOMAIN t : i \in CountedBy(t, m) =>
         \/ i \in Children(t, m) /\ (m \in Objects(t) => i \in Keys(Children(t, m)))
         \/ /\ i = m + 1
            /\ \E q \in Objects(t) : i \in Children(t, q) /\ i \notin Keys(Children(t, q))
  <2> SUFFICES ASSUME NEW m \in DOMAIN t, i \in CountedBy(t, m), i \notin Children(t, m)
               PROVE  /\ i = m + 1
                      /\ \E q \in Objects(t) : i \in Children(t, q) /\ i \notin Keys(Children(t, q))
    BY DEF CountedBy, Keys
  <2>1. m \notin Objects(t) /\ m \in AllKeys(t) /\ i = m + 1
    BY DEF CountedBy, Keys
  <2>2. PICK q \in Objects(t) : m \in Keys(Children(t, q))
    BY <2>1 DEF AllKeys
  <2> QED
    BY <2>1, <2>2, ValueOfKey
<1>3. \A a, b \in DOMAIN t : i \in Children(t, a) /\ i \in Children(t, b) => a = b
  BY <1>1, OneParent
<1>4. \A q \in Objects(t) : q \in DOMAIN t
  BY DEF Objects
<1> QED
  BY <1>1, <1>2, <1>3, <1>4

---------------------------------------------------------------------------
(* Counting the tokens of a value.                                         *)

\* What the n tokens from j announce.
CountedFrom(t, j, n) == {i \in DOMAIN t : \E k \in j..(j + n - 1) : i \in CountedBy(t, k)}

\* No tokens announce none.
LEMMA CountedFromNone ==
  ASSUME NEW t, NEW j \in Nat
  PROVE  IsFiniteSet(CountedFrom(t, j, 0)) /\ Cardinality(CountedFrom(t, j, 0)) = 0
<1>1. CountedFrom(t, j, 0) = {}
  BY DEF CountedFrom
<1> QED
  BY <1>1, FS_EmptySet

\* One token more announces as many more as its size says.
LEMMA CountedFromNext ==
  ASSUME NEW t, IsJson(t), NEW j \in DOMAIN t, NEW n \in Nat, j + n \in DOMAIN t,
         IsFiniteSet(CountedFrom(t, j, n))
  PROVE  /\ IsFiniteSet(CountedFrom(t, j, n + 1))
         /\ Cardinality(CountedFrom(t, j, n + 1)) =
                Cardinality(CountedFrom(t, j, n)) + t[j + n].size
<1> DEFINE A == CountedFrom(t, j, n)
           B == CountedBy(t, j + n)
<1>0. DOMAIN t = 1..Len(t) /\ Len(t) \in Nat
  BY JsonNests
<1>1. B \subseteq DOMAIN t
  BY CountedByInside
<1>2. \A k \in Int : k \in j..(j + (n + 1) - 1) <=> k \in j..(j + n - 1) \/ k = j + n
  BY <1>0
<1>3. CountedFrom(t, j, n + 1) = A \cup B
  BY <1>0, <1>1, <1>2 DEF CountedFrom
<1>4. \A k \in j..(j + n - 1) : k \in DOMAIN t /\ k # j + n
  BY <1>0
<1>5. A \cap B = {}
  <2> SUFFICES ASSUME NEW i \in A, i \in B PROVE FALSE
    OBVIOUS
  <2>1. PICK k \in j..(j + n - 1) : i \in CountedBy(t, k)
    BY DEF CountedFrom
  <2>2. k \in DOMAIN t /\ k # j + n
    BY <1>4
  <2> QED
    BY <2>1, <2>2, CountedByOne
<1>6. IsFiniteSet(B) /\ Cardinality(B) = t[j + n].size /\ t[j + n].size \in Nat
  BY CountedBySize
<1>7. IsFiniteSet(A) /\ Cardinality(A) \in Nat
  BY FS_CardinalityType
<1> HIDE DEF A, B
<1>8. IsFiniteSet(A \cup B) /\ Cardinality(A \cup B) = Cardinality(A) + Cardinality(B) - Cardinality(A \cap B)
  BY <1>6, <1>7, FS_Union
<1>9. Cardinality(A \cap B) = 0
  BY <1>5, FS_EmptySet
<1>10. Cardinality(A \cup B) = Cardinality(A) + t[j + n].size
  BY <1>6, <1>7, <1>8, <1>9
<1> QED
  BY <1>3, <1>8, <1>10 DEF A

\* What some tokens announce can be counted.
LEMMA CountedFromFinite ==
  ASSUME NEW t, IsJson(t), NEW j \in DOMAIN t
  PROVE  \A n \in 0..(Len(t) - j + 1) : /\ IsFiniteSet(CountedFrom(t, j, n))
                                        /\ Cardinality(CountedFrom(t, j, n)) \in Nat
<1>1. \A n \in Nat : CountedFrom(t, j, n) \in SUBSET (1..Len(t))
  BY JsonNests DEF CountedFrom
<1>a. 1 \in Int /\ Len(t) \in Int
  BY JsonNests
<1>b. IsFiniteSet(1..Len(t))
  BY <1>a, FS_Interval
<1>2. \A n \in Nat : IsFiniteSet(CountedFrom(t, j, n))
  BY <1>1, <1>b, FS_Subset
<1> QED
  BY <1>2, FS_CardinalityType

\* What is in a value is not announced before it.
LEMMA CountedByLater ==
  ASSUME NEW t, IsJson(t), NEW j \in DOMAIN t, NEW k \in DOMAIN t,
         NEW i \in CountedBy(t, k), Inside(t, i, j)
  PROVE  j <= k
<1>1. t \in Seq(Range(t)) /\ Nests(t) /\ DOMAIN t = 1..Len(t) /\ Len(t) \in Nat
  BY JsonNests
<1> SUFFICES ASSUME k < j PROVE FALSE
  BY <1>1
<1>2. i \in DOMAIN t /\ j < i
  BY <1>1, CountedByInside DEF Nests
<1>3. CASE i \in Children(t, k)
  <2>1. Inside(t, i, k)
    BY <1>3 DEF Children
  <2>2. Inside(t, j, k)
    BY <1>1, <1>2, <2>1 DEF Nests
  <2> QED
    BY <1>3, <2>2 DEF Children
<1>4. CASE i \notin Children(t, k)
  <2>1. i = k + 1
    BY <1>4 DEF CountedBy, Keys
  <2> QED
    BY <1>1, <1>2, <2>1
<1> QED
  BY <1>3, <1>4

(* token_num of _jkii_count_contained_token: what is announced and has not *)
(* come yet.                                                               *)
LeftOf(t, j) ==
    CHOOSE left : left = [n \in 0..(Len(t) - j + 1) |->
                            IF n = 0 THEN 1 ELSE left[n - 1] + t[j + n - 1].size - 1]

\* The count of _jkii_count_contained_token is defined.
LEMMA LeftDefined ==
  ASSUME NEW t, IsJson(t), NEW j \in DOMAIN t
  PROVE  LeftOf(t, j) = [n \in 0..(Len(t) - j + 1) |->
                            IF n = 0 THEN 1 ELSE LeftOf(t, j)[n - 1] + t[j + n - 1].size - 1]
<1> DEFINE N == Len(t) - j + 1
           C(n) == Cardinality(CountedFrom(t, j, n))
           g == [n \in 0..N |-> 1 + C(n) - n]
<1>0. DOMAIN t = 1..Len(t) /\ Len(t) \in Nat /\ j \in 1..Len(t) /\ N \in Nat
  BY JsonNests
<1>1. \A n \in 0..N : IsFiniteSet(CountedFrom(t, j, n)) /\ C(n) \in Nat
  BY CountedFromFinite
<1>2. C(0) = 0
  BY <1>0, CountedFromNone
<1>3. \A n \in 0..N : n # 0 => g[n] = g[n - 1] + t[j + n - 1].size - 1
  <2> TAKE n \in 0..N
  <2> HAVE n # 0
  <2>1. n - 1 \in Nat /\ n - 1 \in 0..N /\ j + (n - 1) \in DOMAIN t /\ (n - 1) + 1 = n /\ j + n - 1 = j + (n - 1)
    BY <1>0
  <2>2. C((n - 1) + 1) = C(n - 1) + t[j + (n - 1)].size
    BY <1>1, <2>1, CountedFromNext
  <2>3. t[j + (n - 1)].size \in Nat
    BY <2>1, CountedBySize
  <2>4. g[n] = 1 + C(n) - n /\ g[n - 1] = 1 + C(n - 1) - (n - 1)
    BY <2>1
  <2>5. C(n) \in Nat /\ C(n - 1) \in Nat
    BY <1>1, <2>1
  <2> HIDE DEF C, g
  <2>6. C(n) = C(n - 1) + t[j + n - 1].size
    BY <2>1, <2>2
  <2>7. \A x, y, z, i \in Int : x = y + z => 1 + x - i = (1 + y - (i - 1)) + z - 1
    OBVIOUS
  <2>8. n \in Int /\ C(n) \in Int /\ C(n - 1) \in Int /\ t[j + n - 1].size \in Int
    BY <1>0, <2>1, <2>3, <2>5
  <2>9. 1 + C(n) - n = (1 + C(n - 1) - (n - 1)) + t[j + n - 1].size - 1
    BY <2>6, <2>7, <2>8
  <2> QED
    BY <2>4, <2>9
<1>4. g[0] = 1
  BY <1>0, <1>2
<1>5. g = [n \in 0..N |-> g[n]]
  OBVIOUS
<1> HIDE DEF g, C
<1>6. g = [n \in 0..N |-> IF n = 0 THEN 1 ELSE g[n - 1] + t[j + n - 1].size - 1]
  BY <1>3, <1>4, <1>5
<1> QED
  BY <1>6 DEF LeftOf

\* It is the number of tokens announced that have not come.
LEMMA LeftCounted ==
  ASSUME NEW t, IsJson(t), NEW j \in DOMAIN t
  PROVE  \A n \in 0..(Len(t) - j + 1) :
             LeftOf(t, j)[n] = 1 + Cardinality(CountedFrom(t, j, n)) - n
<1> DEFINE N == Len(t) - j + 1
           C(n) == Cardinality(CountedFrom(t, j, n))
           X == {n \in Nat : n <= N => LeftOf(t, j)[n] = 1 + C(n) - n}
<1>0. DOMAIN t = 1..Len(t) /\ Len(t) \in Nat /\ j \in 1..Len(t) /\ N \in Nat
  BY JsonNests
<1>1. \A n \in 0..N : IsFiniteSet(CountedFrom(t, j, n)) /\ C(n) \in Nat
  BY CountedFromFinite
<1>2. \A n \in 0..N : LeftOf(t, j)[n] = IF n = 0 THEN 1 ELSE LeftOf(t, j)[n - 1] + t[j + n - 1].size - 1
  BY LeftDefined
<1>3. 0 \in X
  <2>1. C(0) = 0
    BY <1>0, CountedFromNone
  <2> QED
    BY <1>0, <1>2, <2>1
<1>4. ASSUME NEW n \in Nat, n \in X PROVE n + 1 \in X
  <2> SUFFICES ASSUME n + 1 <= N PROVE LeftOf(t, j)[n + 1] = 1 + C(n + 1) - (n + 1)
    OBVIOUS
  <2>1. n \in 0..N /\ n + 1 \in 0..N /\ n + 1 # 0 /\ (n + 1) - 1 = n /\ j + n \in DOMAIN t /\ j + (n + 1) - 1 = j + n
    BY <1>0
  <2>2. LeftOf(t, j)[n + 1] = LeftOf(t, j)[n] + t[j + n].size - 1
    BY <1>2, <2>1
  <2>3. LeftOf(t, j)[n] = 1 + C(n) - n
    BY <1>4, <2>1
  <2>4. C(n + 1) = C(n) + t[j + n].size
    BY <1>1, <2>1, CountedFromNext
  <2>5. t[j + n].size \in Nat /\ C(n) \in Nat
    BY <1>1, <2>1, CountedBySize
  <2> HIDE DEF C, X
  <2>6. LeftOf(t, j)[n + 1] = (1 + C(n) - n) + t[j + n].size - 1
    BY <2>2, <2>3
  <2>7. C(n + 1) - (n + 1) = (C(n) + t[j + n].size) - (n + 1)
    BY <2>4
  <2>8. \A a, b \in Nat : (1 + a - n) + b - 1 = 1 + ((a + b) - (n + 1))
    OBVIOUS
  <2>9. C(n + 1) \in Nat
    BY <2>4, <2>5
  <2>10. 1 + (C(n + 1) - (n + 1)) = 1 + C(n + 1) - (n + 1)
    BY <2>9
  <2> QED
    BY <2>5, <2>6, <2>7, <2>8, <2>10
<1> HIDE DEF X
<1>5. Nat \subseteq X
  BY <1>3, <1>4, SetInduction
<1> QED
  BY <1>0, <1>5 DEF X

(* The tokens counted for a value are those of the value: before its last  *)
(* token more are announced than have come.                                *)
THEOREM TokensCounted ==
  ASSUME NEW t, IsJson(t), NEW j \in DOMAIN t, j \notin AllKeys(t)
  PROVE  ContainedTokens(t, j) = After(t, j) - j
<1> DEFINE N == Len(t) - j + 1
           c == After(t, j) - j
           C(n) == Cardinality(CountedFrom(t, j, n))
           M == {n \in 1..N : LeftOf(t, j)[n] <= 0}
<1>0. DOMAIN t = 1..Len(t) /\ Len(t) \in Nat /\ j \in 1..Len(t) /\ N \in Nat
  BY JsonNests
<1>1. /\ After(t, j) \in j + 1..Len(t) + 1
      /\ \A i \in DOMAIN t : Inside(t, i, j) <=> j < i /\ i < After(t, j)
  BY JsonNests, AfterValue
<1>2. c \in 1..N /\ j + c = After(t, j)
  BY <1>0, <1>1
<1>3. \A n \in 0..N : IsFiniteSet(CountedFrom(t, j, n)) /\ C(n) \in Nat
  BY CountedFromFinite
<1>4. \A n \in 0..N : LeftOf(t, j)[n] = 1 + C(n) - n
  BY LeftCounted
<1> HIDE DEF c
<1>5. \A k \in j..(j + c - 1) : k \in DOMAIN t /\ (k = j \/ Inside(t, k, j))
  BY <1>0, <1>1, <1>2
<1>6. ASSUME NEW n \in 1..c PROVE CountedFrom(t, j, n) \subseteq j + 1..(j + c - 1)
  <2> SUFFICES ASSUME NEW i \in CountedFrom(t, j, n) PROVE i \in j + 1..(j + c - 1)
    OBVIOUS
  <2>1. PICK k \in j..(j + n - 1) : i \in CountedBy(t, k)
    BY DEF CountedFrom
  <2>2. k \in j..(j + c - 1)
    BY <1>0, <1>2
  <2>3. i \in DOMAIN t /\ Inside(t, i, j)
    BY <1>5, <2>1, <2>2, CountedByInside
  <2> QED
    BY <1>0, <1>1, <1>2, <2>3
<1>7. ASSUME NEW n \in 1..N, n < c PROVE LeftOf(t, j)[n] > 0
  <2>1. j + 1..j + n \subseteq CountedFrom(t, j, n)
    <3> SUFFICES ASSUME NEW i \in j + 1..j + n PROVE i \in CountedFrom(t, j, n)
      OBVIOUS
    <3>1. i \in j..(j + c - 1) /\ i # j /\ i # 1
      BY <1>0, <1>2, <1>7
    <3>2. i \in DOMAIN t /\ Inside(t, i, j)
      BY <1>5, <3>1
    <3>3. PICK k \in DOMAIN t : i \in CountedBy(t, k)
      BY <3>1, <3>2, CountedBySome
    <3>4. k < i
      BY <3>3, CountedByInside
    <3>5. j <= k
      BY <3>2, <3>3, CountedByLater
    <3> QED
      BY <1>0, <3>2, <3>3, <3>4, <3>5 DEF CountedFrom
  <2>2. IsFiniteSet(j + 1..j + n) /\ Cardinality(j + 1..j + n) = n
    <3>1. j + 1 \in Int /\ j + n \in Int /\ ~(j + 1 > j + n) /\ (j + n) - (j + 1) + 1 = n
      BY <1>0
    <3> QED
      BY <3>1, FS_Interval
  <2>3. n \in 0..N
    OBVIOUS
  <2>4. n <= C(n)
    BY <1>3, <2>1, <2>2, <2>3, FS_Subset
  <2> HIDE DEF C
  <2> QED
    BY <1>3, <1>4, <2>3, <2>4
<1>8. LeftOf(t, j)[c] <= 0
  <2>1. IsFiniteSet(j + 1..(j + c - 1)) /\ Cardinality(j + 1..(j + c - 1)) = c - 1
    <3>1. /\ j + 1 \in Int /\ j + c - 1 \in Int
          /\ IF j + 1 > j + c - 1 THEN c - 1 = 0 ELSE (j + c - 1) - (j + 1) + 1 = c - 1
      BY <1>0, <1>2
    <3> QED
      BY <3>1, FS_Interval
  <2>2. c \in 1..c /\ c \in 0..N
    BY <1>2
  <2>3. C(c) <= c - 1
    BY <1>6, <2>1, <2>2, FS_Subset
  <2> HIDE DEF C
  <2> QED
    BY <1>2, <1>3, <1>4, <2>2, <2>3
<1>9. c \in M /\ \A n \in M : c <= n
  <2>1. c \in M
    BY <1>2, <1>8
  <2>2. \A n \in 1..N : n < c => ~(LeftOf(t, j)[n] <= 0)
    <3> TAKE n \in 1..N
    <3> HAVE n < c
    <3>1. LeftOf(t, j)[n] = 1 + C(n) - n /\ C(n) \in Nat /\ n \in Nat
      BY <1>3, <1>4
    <3> HIDE DEF C
    <3> QED
      BY <1>7, <3>1
  <2> QED
    BY <1>0, <1>2, <2>1, <2>2
<1>10. Min(M) = c
  <2>1. \A m \in M : (\A n \in M : m <= n) => m = c
    BY <1>0, <1>2, <1>9
  <2> QED
    BY <1>9, <2>1 DEF Min
<1>11. ContainedTokens(t, j) = Min(M)
  BY DEF ContainedTokens, LeftOf
<1> QED
  BY <1>10, <1>11 DEF c

---------------------------------------------------------------------------
(* Walking over the members of a value.                                    *)

\* The nth member, the first one, and the one after it.
LEMMA NthMember ==
  ASSUME NEW t, IsJson(t), NEW p \in DOMAIN t, NEW n \in Nat, n < Cardinality(Children(t, p))
  PROVE  /\ Nth(Children(t, p), n) \in Children(t, p)
         /\ Rank(Children(t, p), Nth(Children(t, p), n)) = n
<1>1. IsFiniteSet(Children(t, p)) /\ Children(t, p) \subseteq Nat
  BY JsonNests, ChildrenType
<1>2. PICK x \in Children(t, p) : Rank(Children(t, p), x) = n
  BY <1>1, RankExists
<1>3. Nth(Children(t, p), Rank(Children(t, p), x)) = x
  BY <1>1, NthOfRank
<1> QED
  BY <1>2, <1>3

\* The first member comes next to its object or array.
LEMMA NthFirst ==
  ASSUME NEW t, IsJson(t), NEW p \in DOMAIN t, 0 < Cardinality(Children(t, p))
  PROVE  Nth(Children(t, p), 0) = p + 1
<1>1. IsFiniteSet(Children(t, p)) /\ Children(t, p) \subseteq Nat
  BY JsonNests, ChildrenType
<1>2. p + 1 \in Children(t, p) /\ Rank(Children(t, p), p + 1) = 0
  BY JsonNests, ChildOfRankZero
<1> QED
  BY <1>1, <1>2, NthOfRank

\* The member after the nth begins where the nth ends.
LEMMA NthNext ==
  ASSUME NEW t, IsJson(t), NEW p \in DOMAIN t, NEW n \in Nat, n + 1 < Cardinality(Children(t, p))
  PROVE  Nth(Children(t, p), n + 1) = After(t, Nth(Children(t, p), n))
<1> DEFINE S == Children(t, p)
           x == Nth(S, n)
<1>1. IsFiniteSet(S) /\ S \subseteq Nat /\ Cardinality(S) \in Nat
  BY JsonNests, ChildrenType, FS_CardinalityType
<1>2. x \in S /\ Rank(S, x) = n
  BY <1>1, NthMember
<1>3. After(t, x) \in S /\ Rank(S, After(t, x)) = n + 1
  BY <1>2, JsonNests, ChildOfNextRank
<1> HIDE DEF S, x
<1>4. Nth(S, Rank(S, After(t, x))) = After(t, x)
  BY <1>1, <1>3, NthOfRank
<1> QED
  BY <1>3, <1>4 DEF S, x

\* Only keys of an object are keys.
LEMMA MemberNoKey ==
  ASSUME NEW t, IsJson(t), NEW p \in DOMAIN t, NEW x \in Children(t, p),
         p \notin Objects(t) \/ x \notin Keys(Children(t, p))
  PROVE  x \in DOMAIN t /\ x \notin AllKeys(t) /\ After(t, x) = x + ContainedTokens(t, x)
<1>1. x \in DOMAIN t
  BY DEF Children
<1>2. ASSUME x \in AllKeys(t) PROVE FALSE
  <2>1. PICK q \in Objects(t) : x \in Keys(Children(t, q))
    BY <1>2 DEF AllKeys
  <2>2. q \in DOMAIN t /\ x \in Children(t, q)
    BY <2>1 DEF Objects, Keys
  <2>3. p = q
    BY <2>2, JsonNests, OneParent
  <2> QED
    BY <2>1, <2>3
<1>3. ContainedTokens(t, x) = After(t, x) - x
  BY <1>1, <1>2, TokensCounted
<1>4. After(t, x) \in x + 1..Len(t) + 1 /\ Len(t) \in Nat /\ x \in Nat
  BY <1>1, JsonNests, AfterValue
<1>5. After(t, x) = x + (After(t, x) - x)
  BY <1>4
<1> QED
  BY <1>1, <1>2, <1>3, <1>5

\* root_token before it steps to the element.
BeforeOf(t, j, i) ==
    CHOOSE before : before = [m \in 0..i |->
        IF m = 0 THEN j ELSE before[m - 1] + ContainedTokens(t, before[m - 1] + 1)]

\* The walk over the elements of an array is defined.
LEMMA BeforeDefined ==
  ASSUME NEW t, IsJson(t), NEW j \in Arrays(t), NEW i \in Nat, i < Cardinality(Children(t, j))
  PROVE  BeforeOf(t, j, i) = [m \in 0..i |->
             IF m = 0 THEN j
             ELSE BeforeOf(t, j, i)[m - 1] + ContainedTokens(t, BeforeOf(t, j, i)[m - 1] + 1)]
<1> DEFINE S == Children(t, j)
           g == [m \in 0..i |-> Nth(S, m) - 1]
<1>0. j \in DOMAIN t /\ j \in Nat /\ Cardinality(S) \in Nat
  BY JsonNests, ChildrenType, FS_CardinalityType DEF Arrays
<1>1. g[0] = j
  BY <1>0, NthFirst
<1>2. \A m \in 0..i : m # 0 => g[m] = g[m - 1] + ContainedTokens(t, g[m - 1] + 1)
  <2> TAKE m \in 0..i
  <2> HAVE m # 0
  <2> DEFINE x == Nth(S, m - 1)
  <2>1. m - 1 \in Nat /\ m - 1 < Cardinality(S) /\ (m - 1) + 1 < Cardinality(S) /\ (m - 1) + 1 = m /\ m - 1 \in 0..i
    BY <1>0
  <2>2. x \in S
    BY <1>0, <2>1, NthMember
  <2>3. Nth(S, m) = After(t, x)
    <3>1. Nth(S, (m - 1) + 1) = After(t, x)
      BY <1>0, <2>1, NthNext
    <3> QED
      BY <2>1, <3>1
  <2>4. j \notin Objects(t)
    BY DEF Arrays, Objects
  <2>5. x \in DOMAIN t /\ After(t, x) = x + ContainedTokens(t, x)
    BY <1>0, <2>2, <2>4, MemberNoKey
  <2>6. x \in Nat /\ After(t, x) \in Nat
    BY <2>5, JsonNests, AfterValue
  <2>7. g[m] = After(t, x) - 1 /\ g[m - 1] = x - 1
    BY <2>1, <2>3
  <2>8. g[m - 1] + 1 = x
    BY <2>6, <2>7
  <2>9. ContainedTokens(t, x) = After(t, x) - x
    BY <1>0, <2>2, <2>4, MemberNoKey, TokensCounted
  <2> HIDE DEF g, x
  <2> QED
    BY <2>6, <2>7, <2>8, <2>9
<1>3. g = [m \in 0..i |-> g[m]]
  OBVIOUS
<1> HIDE DEF g
<1>4. g = [m \in 0..i |-> IF m = 0 THEN j ELSE g[m - 1] + ContainedTokens(t, g[m - 1] + 1)]
  BY <1>1, <1>2, <1>3
<1> QED
  BY <1>4 DEF BeforeOf

(* The element at an index, found by the sizes of those before it.         *)
LEMMA ElementFound ==
  ASSUME NEW t, IsJson(t), NEW j \in Arrays(t), NEW i \in Nat, i < Cardinality(Children(t, j))
  PROVE  ElementAt(t, j, i) = Nth(Children(t, j), i)
<1> DEFINE S == Children(t, j)
           f == BeforeOf(t, j, i)
           X == {m \in Nat : m <= i => f[m] + 1 = Nth(S, m) /\ f[m] \in Nat}
<1>0. j \in DOMAIN t /\ j \in Nat /\ Cardinality(S) \in Nat /\ j \notin Objects(t)
  BY JsonNests, ChildrenType, FS_CardinalityType DEF Arrays, Objects
<1>1. \A m \in 0..i : f[m] = IF m = 0 THEN j ELSE f[m - 1] + ContainedTokens(t, f[m - 1] + 1)
  BY BeforeDefined
<1> HIDE DEF f
<1>2. 0 \in X
  <2>1. f[0] = j
    BY <1>1
  <2> QED
    BY <1>0, <2>1, NthFirst
<1>3. ASSUME NEW m \in Nat, m \in X PROVE m + 1 \in X
  <2> SUFFICES ASSUME m + 1 <= i PROVE f[m + 1] + 1 = Nth(S, m + 1) /\ f[m + 1] \in Nat
    OBVIOUS
  <2>1. m + 1 \in 0..i /\ m + 1 # 0 /\ (m + 1) - 1 = m /\ m <= i /\ m < Cardinality(S) /\ m + 1 < Cardinality(S)
    BY <1>0
  <2> DEFINE x == Nth(S, m)
  <2>2. f[m] + 1 = x /\ f[m] \in Nat
    BY <1>3, <2>1
  <2>3. f[m + 1] = f[m] + ContainedTokens(t, x)
    BY <1>1, <2>1, <2>2
  <2>4. x \in S
    BY <1>0, <2>1, NthMember
  <2>5. x \in DOMAIN t /\ x \notin AllKeys(t)
    BY <1>0, <2>4, MemberNoKey
  <2>6. ContainedTokens(t, x) = After(t, x) - x
    BY <2>5, TokensCounted
  <2>7. x \in Nat /\ After(t, x) \in Nat /\ After(t, x) > x
    BY <2>5, JsonNests, AfterValue
  <2>8. Nth(S, m + 1) = After(t, x)
    BY <1>0, <2>1, NthNext
  <2> HIDE DEF x
  <2> QED
    BY <2>2, <2>3, <2>6, <2>7, <2>8
<1> HIDE DEF X
<1>4. Nat \subseteq X
  BY <1>2, <1>3, SetInduction
<1>5. f[i] + 1 = Nth(S, i)
  BY <1>4 DEF X
<1>6. ElementAt(t, j, i) = f[i] + 1
  BY DEF ElementAt, f, BeforeOf
<1> QED
  BY <1>5, <1>6

\* index of a key, from its object.
PlaceOf(t, j, i) ==
    CHOOSE place : place = [m \in 0..i |->
        IF m = 0 THEN j + 1 ELSE place[m - 1] + ContainedTokens(t, place[m - 1] + 1) + 1]

\* From one key to the next.
LEMMA KeyNext ==
  ASSUME NEW t, IsJson(t), NEW j \in Objects(t), NEW m \in Nat, m + 1 < t[j].size
  PROVE  /\ Nth(Children(t, j), 2 * m) \in Nat
         /\ Nth(Children(t, j), 2 * (m + 1)) =
                Nth(Children(t, j), 2 * m) + ContainedTokens(t, Nth(Children(t, j), 2 * m) + 1) + 1
         /\ ContainedTokens(t, Nth(Children(t, j), 2 * m) + 1) \in Nat
<1> DEFINE S == Children(t, j)
           k == Nth(S, 2 * m)
<1>0. j \in DOMAIN t /\ j \in Nat /\ t[j].size \in Nat /\ Cardinality(S) = 2 * t[j].size
  BY JsonNests DEF Objects, IsJson, Counted
<1>1. 2 * m \in Nat /\ 2 * m < Cardinality(S)
  BY <1>0
<1>2. k \in S /\ Rank(S, k) = 2 * m
  BY <1>0, <1>1, NthMember
<1>3. k \in Keys(S)
  BY <1>2 DEF Keys
<1>4. k + 1 \in S /\ Rank(S, k + 1) = Rank(S, k) + 1 /\ k + 1 \notin Keys(S)
  BY <1>3, ValueOfKey
<1>5. IsFiniteSet(S) /\ S \subseteq Nat
  BY JsonNests, ChildrenType
<1>6. Nth(S, 2 * m + 1) = k + 1
  BY <1>2, <1>4, <1>5, NthOfRank
<1>7. Nth(S, (2 * m + 1) + 1) = After(t, k + 1)
  BY <1>0, <1>6, NthNext
<1>8. k + 1 \in DOMAIN t /\ k + 1 \notin AllKeys(t)
  BY <1>0, <1>4, MemberNoKey
<1>9. ContainedTokens(t, k + 1) = After(t, k + 1) - (k + 1)
  BY <1>8, TokensCounted
<1>10. k \in Nat /\ After(t, k + 1) \in Nat /\ After(t, k + 1) > k + 1
  <2>1. k \in Nat
    BY <1>2, <1>5
  <2> QED
    BY <1>8, <2>1, JsonNests, AfterValue
<1>11. (2 * m + 1) + 1 = 2 * (m + 1)
  OBVIOUS
<1>12. Nth(S, 2 * (m + 1)) = After(t, k + 1)
  BY <1>7, <1>11
<1> HIDE DEF S, k
<1>13. /\ After(t, k + 1) = k + ContainedTokens(t, k + 1) + 1
       /\ ContainedTokens(t, k + 1) \in Nat
  BY <1>9, <1>10
<1> QED
  BY <1>10, <1>12, <1>13 DEF S, k

\* The walk over the members of an object is defined.
LEMMA PlaceDefined ==
  ASSUME NEW t, IsJson(t), NEW j \in Objects(t), NEW i \in Nat, i < t[j].size
  PROVE  PlaceOf(t, j, i) = [m \in 0..i |->
             IF m = 0 THEN j + 1
             ELSE PlaceOf(t, j, i)[m - 1] + ContainedTokens(t, PlaceOf(t, j, i)[m - 1] + 1) + 1]
<1> DEFINE S == Children(t, j)
           g == [m \in 0..i |-> Nth(S, 2 * m)]
<1>0. j \in DOMAIN t /\ j \in Nat /\ t[j].size \in Nat /\ Cardinality(S) = 2 * t[j].size
  BY JsonNests DEF Objects, IsJson, Counted
<1>1. g[0] = j + 1
  <2>1. 0 < Cardinality(S)
    BY <1>0
  <2>2. Nth(S, 0) = j + 1
    BY <1>0, <2>1, NthFirst
  <2>3. 2 * 0 = 0 /\ 0 \in 0..i
    OBVIOUS
  <2>4. g[0] = Nth(S, 2 * 0)
    BY <2>3
  <2> QED
    BY <2>2, <2>3, <2>4
<1>2. \A m \in 0..i : m # 0 => g[m] = g[m - 1] + ContainedTokens(t, g[m - 1] + 1) + 1
  <2> TAKE m \in 0..i
  <2> HAVE m # 0
  <2>1. m - 1 \in Nat /\ (m - 1) + 1 < t[j].size /\ (m - 1) + 1 = m /\ m - 1 \in 0..i
    BY <1>0
  <2>2. g[m] = Nth(S, 2 * m) /\ g[m - 1] = Nth(S, 2 * (m - 1))
    BY <2>1
  <2>3. Nth(S, 2 * ((m - 1) + 1)) = Nth(S, 2 * (m - 1)) + ContainedTokens(t, Nth(S, 2 * (m - 1)) + 1) + 1
    BY <2>1, KeyNext
  <2> HIDE DEF g
  <2> QED
    BY <2>1, <2>2, <2>3
<1>3. g = [m \in 0..i |-> g[m]]
  OBVIOUS
<1> HIDE DEF g
<1>4. g = [m \in 0..i |-> IF m = 0 THEN j + 1 ELSE g[m - 1] + ContainedTokens(t, g[m - 1] + 1) + 1]
  BY <1>1, <1>2, <1>3
<1> QED
  BY <1>4 DEF PlaceOf

(* The key of a member, found by the sizes of those before it.             *)
LEMMA KeyFound ==
  ASSUME NEW t, IsJson(t), NEW j \in Objects(t), NEW i \in Nat, i < t[j].size
  PROVE  KeyAt(t, j, i) = Nth(Children(t, j), 2 * i)
<1> DEFINE S == Children(t, j)
           f == PlaceOf(t, j, i)
           X == {m \in Nat : m <= i => f[m] = Nth(S, 2 * m)}
<1>0. j \in DOMAIN t /\ j \in Nat /\ t[j].size \in Nat /\ Cardinality(S) = 2 * t[j].size
  BY JsonNests DEF Objects, IsJson, Counted
<1>1. \A m \in 0..i : f[m] = IF m = 0 THEN j + 1 ELSE f[m - 1] + ContainedTokens(t, f[m - 1] + 1) + 1
  BY PlaceDefined
<1> HIDE DEF f
<1>2. 0 \in X
  <2>1. f[0] = j + 1
    BY <1>1
  <2>2. 0 < Cardinality(S)
    BY <1>0
  <2>3. Nth(S, 0) = j + 1
    BY <1>0, <2>2, NthFirst
  <2>4. 2 * 0 = 0
    OBVIOUS
  <2> QED
    BY <2>1, <2>3, <2>4
<1>3. ASSUME NEW m \in Nat, m \in X PROVE m + 1 \in X
  <2> SUFFICES ASSUME m + 1 <= i PROVE f[m + 1] = Nth(S, 2 * (m + 1))
    OBVIOUS
  <2>1. m + 1 \in 0..i /\ m + 1 # 0 /\ (m + 1) - 1 = m /\ m <= i /\ m + 1 < t[j].size
    BY <1>0
  <2>2. f[m] = Nth(S, 2 * m)
    BY <1>3, <2>1
  <2>3. f[m + 1] = f[m] + ContainedTokens(t, f[m] + 1) + 1
    BY <1>1, <2>1
  <2> QED
    BY <2>1, <2>2, <2>3, KeyNext
<1> HIDE DEF X
<1>4. Nat \subseteq X
  BY <1>2, <1>3, SetInduction
<1>5. f[i] = Nth(S, 2 * i)
  BY <1>4 DEF X
<1>6. KeyAt(t, j, i) = f[i]
  BY DEF KeyAt, f, PlaceOf
<1> QED
  BY <1>5, <1>6

---------------------------------------------------------------------------
(* The first member with a key.                                            *)

\* The least of some numbers is what Min says.
LEMMA MinIs ==
  ASSUME NEW S, S \subseteq Nat, NEW x \in S, \A y \in S : x <= y
  PROVE  Min(S) = x
<1>1. \A m \in S : (\A n \in S : m <= n) => m = x
  <2> TAKE m \in S
  <2> HAVE \A n \in S : m <= n
  <2>1. m <= x /\ x <= m /\ m \in Nat /\ x \in Nat
    OBVIOUS
  <2> QED
    BY <2>1
<1> QED
  BY <1>1 DEF Min

\* The keys of an object are its members of even rank.
LEMMA KeyOfIndex ==
  ASSUME NEW t, IsJson(t), NEW j \in Objects(t)
  PROVE  /\ \A i \in 0..(t[j].size - 1) :
                /\ Nth(Children(t, j), 2 * i) \in Keys(Children(t, j))
                /\ Rank(Children(t, j), Nth(Children(t, j), 2 * i)) = 2 * i
         /\ \A k \in Keys(Children(t, j)) : \E i \in 0..(t[j].size - 1) : k = Nth(Children(t, j), 2 * i)
<1> DEFINE S == Children(t, j)
<1>0. j \in DOMAIN t /\ t[j].size \in Nat /\ Cardinality(S) = 2 * t[j].size
  BY JsonNests DEF Objects, IsJson, Counted
<1>1. IsFiniteSet(S) /\ S \subseteq Nat
  BY JsonNests, ChildrenType
<1>2. ASSUME NEW i \in 0..(t[j].size - 1)
      PROVE  Nth(S, 2 * i) \in Keys(S) /\ Rank(S, Nth(S, 2 * i)) = 2 * i
  <2>1. 2 * i \in Nat /\ 2 * i < Cardinality(S)
    BY <1>0
  <2>2. Nth(S, 2 * i) \in S /\ Rank(S, Nth(S, 2 * i)) = 2 * i
    BY <1>0, <2>1, NthMember
  <2> QED
    BY <2>2 DEF Keys
<1>3. ASSUME NEW k \in Keys(S) PROVE \E i \in 0..(t[j].size - 1) : k = Nth(S, 2 * i)
  <2>1. k \in S /\ Rank(S, k) % 2 = 0
    BY DEF Keys
  <2>2. Rank(S, k) \in Nat /\ Rank(S, k) < Cardinality(S)
    BY <1>1, <2>1, RankType, RankBound
  <2>3. PICK i \in 0..(t[j].size - 1) : Rank(S, k) = 2 * i
    <3>1. Rank(S, k) \div 2 \in 0..(t[j].size - 1) /\ Rank(S, k) = 2 * (Rank(S, k) \div 2)
      BY <1>0, <2>1, <2>2
    <3> QED
      BY <3>1
  <2>4. Nth(S, Rank(S, k)) = k
    BY <1>1, <2>1, NthOfRank
  <2> QED
    BY <2>3, <2>4
<1> QED
  BY <1>2, <1>3

(* The value next to the first of some keys, found by index or by place.   *)
LEMMA FirstFound ==
  ASSUME NEW t, IsJson(t), NEW j \in Objects(t),
         NEW I, I \subseteq 0..(t[j].size - 1),
         NEW K, K \subseteq Keys(Children(t, j)),
         \A i \in 0..(t[j].size - 1) : i \in I <=> Nth(Children(t, j), 2 * i) \in K
  PROVE  FirstMember(t, j, I) =
             IF K = {} THEN 0
             ELSE Nth(Children(t, j), Rank(Children(t, j), Min(K)) + 1)
<1> DEFINE S == Children(t, j)
<1>0. j \in DOMAIN t /\ t[j].size \in Nat
  BY JsonNests DEF Objects, IsJson, Counted
<1>1. IsFiniteSet(S) /\ S \subseteq Nat /\ Keys(S) \subseteq S
  BY JsonNests, ChildrenType DEF Keys
<1>2. /\ \A i \in 0..(t[j].size - 1) : Nth(S, 2 * i) \in Keys(S) /\ Rank(S, Nth(S, 2 * i)) = 2 * i
      /\ \A k \in Keys(S) : \E i \in 0..(t[j].size - 1) : k = Nth(S, 2 * i)
  BY KeyOfIndex
<1> HIDE DEF S
<1>a. \A i \in 0..(t[j].size - 1) : i \in I <=> Nth(S, 2 * i) \in K
  BY DEF S
<1>b. K \subseteq Keys(S)
  BY DEF S
<1>3. CASE I = {}
  <2>1. K = {}
    BY <1>2, <1>3, <1>a, <1>b
  <2> QED
    BY <1>3, <2>1 DEF FirstMember
<1>4. CASE I # {}
  <2>1. I \subseteq Nat
    BY <1>0
  <2>2. PICK i \in I : \A n \in I : i <= n
    BY <1>4, <2>1, LeastNumber
  <2>3. Min(I) = i /\ i \in 0..(t[j].size - 1) /\ i \in Nat /\ i < t[j].size
    <3>1. Min(I) = i
      BY <2>1, <2>2, MinIs
    <3>2. i \in 0..(t[j].size - 1)
      OBVIOUS
    <3> QED
      BY <1>0, <3>1, <3>2
  <2> DEFINE k == Nth(S, 2 * i)
  <2>4. k \in K /\ k \in Keys(S) /\ Rank(S, k) = 2 * i
    BY <1>2, <1>a, <2>3
  <2>a. k \in Nat /\ \A l \in K : l \in Nat
    BY <1>1, <1>b, <2>4
  <2>5. \A l \in K : k <= l
    <3> SUFFICES ASSUME NEW l \in K, l < k PROVE FALSE
      <4> HIDE DEF k
      <4> QED
        BY <2>a
    <3>1. PICK n \in 0..(t[j].size - 1) : l = Nth(S, 2 * n)
      BY <1>2, <1>b
    <3>2. n \in I /\ i <= n /\ Rank(S, l) = 2 * n
      BY <1>2, <1>a, <2>2, <3>1
    <3>3. l \in S /\ k \in S
      BY <1>1, <1>b, <2>4
    <3>4. Rank(S, l) < Rank(S, k)
      BY <1>1, <3>3, RankGrows
    <3>5. i \in Nat /\ n \in Nat
      BY <1>0, <2>3
    <3> QED
      BY <2>4, <3>2, <3>4, <3>5
  <2>6. Min(K) = k
    <3>1. K \subseteq Nat
      BY <1>1, <1>b
    <3> QED
      BY <2>4, <2>5, <3>1, MinIs
  <2>7. k + 1 \in S /\ Rank(S, k + 1) = Rank(S, k) + 1
    BY <2>4, ValueOfKey DEF S
  <2>8. Nth(S, Rank(S, k) + 1) = k + 1
    BY <1>1, <2>7, NthOfRank
  <2>9. KeyAt(t, j, i) = k
    BY <2>3, KeyFound DEF S
  <2>10. FirstMember(t, j, I) = k + 1
    BY <1>4, <2>3, <2>9 DEF FirstMember
  <2>11. K # {}
    BY <2>4
  <2> HIDE DEF k
  <2> QED
    BY <2>6, <2>8, <2>10, <2>11 DEF S
<1> QED
  BY <1>3, <1>4

\* A member is a token of the text.
LEMMA MemberType ==
  ASSUME NEW t, IsJson(t), NEW j \in 0..Len(t), NEW s, IsStep(s)
  PROVE  Member(t, j, s) \in 0..Len(t)
<1> DEFINE S == Children(t, j)
           K == {k \in Keys(S) : t[k].chars = s.chars}
<1>0. DOMAIN t = 1..Len(t) /\ Len(t) \in Nat
  BY JsonNests
<1>1. CASE j = 0 \/ t[j].type # s.into
  BY <1>0, <1>1 DEF Member
<1>2. CASE j # 0 /\ t[j].type = s.into /\ s.into = "ARRAY"
  <2>1. j \in DOMAIN t /\ s.index \in Nat
    BY <1>0, <1>2 DEF IsStep
  <2>2. s.index < Cardinality(S) => Nth(S, s.index) \in S
    BY <2>1, NthMember
  <2>3. S \subseteq DOMAIN t
    BY JsonNests, ChildrenType
  <2>4. Member(t, j, s) = IF s.index < Cardinality(S) THEN Nth(S, s.index) ELSE 0
    BY <1>2 DEF Member
  <2> HIDE DEF S
  <2> QED
    BY <1>0, <2>2, <2>3, <2>4
<1>3. CASE j # 0 /\ t[j].type = s.into /\ s.into # "ARRAY"
  <2>1. j \in Objects(t)
    BY <1>0, <1>3 DEF IsStep, Objects
  <2>2. Member(t, j, s) = IF K = {} THEN 0 ELSE Nth(S, Rank(S, Min(K)) + 1)
    BY <1>3 DEF Member
  <2>3. IsFiniteSet(S) /\ S \subseteq Nat /\ S \subseteq DOMAIN t
    BY JsonNests, ChildrenType
  <2>4. CASE K # {}
    <3>1. K \subseteq Nat /\ K \subseteq Keys(S)
      BY <2>3 DEF Keys
    <3>2. PICK k \in K : \A l \in K : k <= l
      BY <2>4, <3>1, LeastNumber
    <3>3. Min(K) = k /\ k \in Keys(S)
      BY <3>1, <3>2, MinIs
    <3>4. k + 1 \in S /\ Rank(S, k + 1) = Rank(S, k) + 1
      BY <2>1, <3>3, ValueOfKey
    <3>5. Nth(S, Rank(S, k + 1)) = k + 1
      BY <2>3, <3>4, NthOfRank
    <3> HIDE DEF S, K
    <3>6. Member(t, j, s) = k + 1
      BY <2>2, <2>4, <3>3, <3>4, <3>5
    <3>7. k + 1 \in 1..Len(t)
      BY <1>0, <2>3, <3>4
    <3>8. \A x \in 1..Len(t) : x \in 0..Len(t)
      BY <1>0
    <3> QED
      BY <3>6, <3>7, <3>8
  <2> QED
    BY <1>0, <2>2, <2>4
<1> QED
  BY <1>1, <1>2, <1>3

---------------------------------------------------------------------------
(* Texts put together of parts.                                            *)

\* The length of the first i parts.
Upto(ss, i) == Len(FlattenSeq(SubSeq(ss, 1, i)))

\* One part more makes a text longer by the length of the part.
LEMMA UptoNext ==
  ASSUME NEW S, NEW ss \in Seq(Seq(S)), NEW i \in 0..Len(ss) - 1
  PROVE  /\ Upto(ss, i) \in Nat
         /\ Upto(ss, i + 1) = Upto(ss, i) + Len(ss[i + 1])
         /\ Len(ss[i + 1]) \in Nat
<1>1. SubSeq(ss, 1, i) \in Seq(Seq(S)) /\ ss[i + 1] \in Seq(S)
  OBVIOUS
<1>2. FlattenSeq(SubSeq(ss, 1, i)) \in Seq(S)
  BY <1>1, FlattenType
<1>3. FlattenSeq(SubSeq(ss, 1, i + 1)) = FlattenSeq(SubSeq(ss, 1, i)) \o ss[i + 1]
  BY FlattenUpto
<1> DEFINE a == FlattenSeq(SubSeq(ss, 1, i))
<1>4. Len(a \o ss[i + 1]) = Len(a) + Len(ss[i + 1]) /\ Len(a) \in Nat /\ Len(ss[i + 1]) \in Nat
  <2> HIDE DEF a
  <2>1. a \in Seq(S)
    BY <1>2 DEF a
  <2> QED
    BY <1>1, <2>1
<1>5. Upto(ss, i) = Len(a) /\ Upto(ss, i + 1) = Len(a \o ss[i + 1])
  BY <1>3 DEF Upto
<1> HIDE DEF a
<1> QED
  BY <1>4, <1>5

\* No parts are the empty text, and all of them the whole text.
LEMMA UptoEnds ==
  ASSUME NEW S, NEW ss \in Seq(Seq(S))
  PROVE  /\ Upto(ss, 0) = 0 /\ Upto(ss, Len(ss)) = Len(FlattenSeq(ss))
         /\ \A i \in 0..Len(ss) : Upto(ss, i) \in Nat
<1>1. SubSeq(ss, 1, 0) = <<>>
  OBVIOUS
<1>2. SubSeq(ss, 1, Len(ss)) = ss
  OBVIOUS
<1>3. ASSUME NEW i \in 0..Len(ss) PROVE Upto(ss, i) \in Nat
  <2>1. SubSeq(ss, 1, i) \in Seq(Seq(S))
    OBVIOUS
  <2>2. FlattenSeq(SubSeq(ss, 1, i)) \in Seq(S)
    BY <2>1, FlattenType
  <2> QED
    BY <2>2 DEF Upto
<1>4. Upto(ss, 0) = 0
  <2>1. Len(<<>>) = 0
    OBVIOUS
  <2> QED
    BY <1>1, <2>1, FlattenEmpty DEF Upto
<1>5. Upto(ss, Len(ss)) = Len(FlattenSeq(ss))
  BY <1>2 DEF Upto
<1> QED
  BY <1>3, <1>4, <1>5

\* Where the elements of a part are.
LEMMA ElementOfPart ==
  ASSUME NEW S, NEW ss \in Seq(Seq(S)), NEW i \in 0..Len(ss) - 1, NEW r \in 1..Len(ss[i + 1])
  PROVE  /\ FlattenSeq(ss)[Upto(ss, i) + r] = ss[i + 1][r]
         /\ Upto(ss, i) + r \in 1..Len(FlattenSeq(ss))
<1> DEFINE a == FlattenSeq(SubSeq(ss, 1, i))
           b == FlattenSeq(SubSeq(ss, 1, i + 1))
           w == FlattenSeq(ss)
<1>1. SubSeq(ss, 1, i) \in Seq(Seq(S)) /\ SubSeq(ss, 1, i + 1) \in Seq(Seq(S)) /\ ss[i + 1] \in Seq(S)
  OBVIOUS
<1>2. a \in Seq(S) /\ b \in Seq(S) /\ w \in Seq(S)
  BY <1>1, FlattenType
<1>3. b = a \o ss[i + 1]
  BY FlattenUpto
<1>4. i + 1 \in 0..Len(ss)
  OBVIOUS
<1>5. IsPrefix(b, w)
  BY <1>4, FlattenPrefix
<1>6. Upto(ss, i) = Len(a)
  BY DEF Upto
<1> HIDE DEF a, b, w
<1>7. Len(b) <= Len(w) /\ \A p \in 1..Len(b) : b[p] = w[p]
  BY <1>2, <1>5, PrefixByElement
<1>8. Len(a) + r \in 1..Len(b) /\ b[Len(a) + r] = ss[i + 1][r]
  <2>1. \A x, y \in Seq(S) : Len(x \o y) = Len(x) + Len(y) /\ Len(x) \in Nat /\ Len(y) \in Nat
    OBVIOUS
  <2>2. \A x, y \in Seq(S) : \A l \in 1..Len(y) : (x \o y)[Len(x) + l] = y[l]
    OBVIOUS
  <2>3. Len(b) = Len(a) + Len(ss[i + 1]) /\ Len(a) \in Nat /\ Len(ss[i + 1]) \in Nat
    BY <1>1, <1>2, <1>3, <2>1
  <2>4. b[Len(a) + r] = ss[i + 1][r]
    BY <1>1, <1>2, <1>3, <2>2
  <2> QED
    BY <2>3, <2>4
<1>9. w[Len(a) + r] = ss[i + 1][r] /\ Len(a) + r \in 1..Len(w)
  BY <1>2, <1>7, <1>8
<1> QED
  BY <1>6, <1>9 DEF w

\* Every place is in a part.
LEMMA PartOfPlace ==
  ASSUME NEW S, NEW ss \in Seq(Seq(S)), NEW p \in 1..Len(FlattenSeq(ss))
  PROVE  \E i \in 0..Len(ss) - 1 : \E r \in 1..Len(ss[i + 1]) : p = Upto(ss, i) + r
<1>0. Len(ss) \in Nat /\ Len(FlattenSeq(ss)) \in Nat
  <2>1. FlattenSeq(ss) \in Seq(S)
    BY FlattenType
  <2> QED
    BY <2>1
<1>1. /\ Upto(ss, 0) = 0 /\ Upto(ss, Len(ss)) = Len(FlattenSeq(ss))
      /\ \A i \in 0..Len(ss) : Upto(ss, i) \in Nat
  BY UptoEnds
<1> DEFINE X == {i \in 0..Len(ss) : p <= Upto(ss, i)}
<1>2. Len(ss) \in X /\ X \subseteq Nat
  BY <1>0, <1>1
<1>3. PICK j \in X : \A x \in X : j <= x
  BY <1>2, LeastNumber
<1>4. j \in 0..Len(ss) /\ p <= Upto(ss, j)
  BY <1>3
<1>5. j # 0
  BY <1>0, <1>1, <1>4
<1> DEFINE i == j - 1
<1>6. i \in 0..Len(ss) - 1 /\ i + 1 = j /\ i \in 0..Len(ss) /\ ~(j <= i)
  BY <1>0, <1>4, <1>5
<1>7. i \notin X
  BY <1>3, <1>6
<1>8. ~(p <= Upto(ss, i))
  BY <1>6, <1>7
<1> HIDE DEF i, X
<1>9. Upto(ss, i) \in Nat /\ Upto(ss, i + 1) = Upto(ss, i) + Len(ss[i + 1]) /\ Len(ss[i + 1]) \in Nat
  BY <1>6, UptoNext
<1>10. p - Upto(ss, i) \in 1..Len(ss[i + 1]) /\ p = Upto(ss, i) + (p - Upto(ss, i))
  BY <1>0, <1>4, <1>6, <1>8, <1>9
<1> QED
  BY <1>6, <1>10

---------------------------------------------------------------------------
(* Keys, with backslashes and without.                                     *)

Quoted(c) == IF c \in Special THEN <<"\\", c>> ELSE <<c>>

Letters(chars) == [i \in DOMAIN chars |-> Quoted(chars[i])]

\* A key as text is made of its characters, quoted.
LEMMA LettersType ==
  ASSUME NEW chars, IsText(chars), NEW S, "\\" \in S, Range(chars) \subseteq S
  PROVE  /\ chars \in Seq(S) /\ Len(chars) \in Nat
         /\ Letters(chars) \in Seq(Seq(S)) /\ Len(Letters(chars)) = Len(chars)
         /\ \A i \in 1..Len(chars) : Letters(chars)[i] = Quoted(chars[i]) /\ chars[i] \in S
         /\ Escaped(chars) = FlattenSeq(Letters(chars))
         /\ Escaped(chars) \in Seq(S)
<1>1. chars \in Seq(Range(chars)) /\ Len(chars) \in Nat /\ DOMAIN chars = 1..Len(chars)
  BY DEF IsText
<1>2. \A i \in 1..Len(chars) : chars[i] \in S
  <2>1. \A i \in DOMAIN chars : chars[i] \in Range(chars)
    BY DEF Range
  <2> QED
    BY <1>1, <2>1
<1>3. \A c \in S : Quoted(c) \in Seq(S)
  BY DEF Quoted
<1>4. Letters(chars) \in [1..Len(chars) -> Seq(S)]
  BY <1>1, <1>2, <1>3 DEF Letters
<1>5. Letters(chars) \in Seq(Seq(S)) /\ Len(Letters(chars)) = Len(chars)
  BY <1>1, <1>4, FunctionSeq
<1>6. \A i \in 1..Len(chars) : Letters(chars)[i] = Quoted(chars[i])
  BY <1>1 DEF Letters
<1>7. Escaped(chars) = FlattenSeq(Letters(chars))
  BY DEF Escaped, Letters, Quoted
<1>8. Escaped(chars) \in Seq(S)
  BY <1>5, <1>7, FlattenType
<1>9. chars \in Seq(S)
  BY <1>1, <1>2
<1> QED
  BY <1>1, <1>2, <1>5, <1>6, <1>7, <1>8, <1>9

\* What an escaped key looks like at one of its characters.
LEMMA EscapedAt ==
  ASSUME NEW chars, IsText(chars), NEW i \in 1..Len(chars)
  PROVE  LET E == Escaped(chars)
             p == Upto(Letters(chars), i - 1) + 1
         IN  /\ p \in 1..Len(E)
             /\ chars[i] \notin Special => E[p] = chars[i] /\ Upto(Letters(chars), i) = p
             /\ chars[i] \in Special => /\ E[p] = "\\" /\ p + 1 \in 1..Len(E) /\ E[p + 1] = chars[i]
                                        /\ Upto(Letters(chars), i) = p + 1
<1> DEFINE E == Escaped(chars)
           L == Letters(chars)
           p == Upto(L, i - 1) + 1
<1> DEFINE S == Range(chars) \cup {"\\"}
<1>0. "\\" \in S /\ Range(chars) \subseteq S
  OBVIOUS
<1> HIDE DEF S
<1>1. /\ L \in Seq(Seq(S)) /\ Len(L) = Len(chars) /\ Len(chars) \in Nat
      /\ L[i] = Quoted(chars[i]) /\ E = FlattenSeq(L)
  BY <1>0, LettersType
<1>2. i - 1 \in 0..Len(L) - 1 /\ (i - 1) + 1 = i
  BY <1>1
<1> HIDE DEF L, E
<1>3. Upto(L, i - 1) \in Nat /\ Upto(L, i) = Upto(L, i - 1) + Len(L[i])
  <2>1. Upto(L, i - 1) \in Nat /\ Upto(L, (i - 1) + 1) = Upto(L, i - 1) + Len(L[(i - 1) + 1])
    BY <1>1, <1>2, UptoNext
  <2> QED
    BY <1>2, <2>1
<1>4. \A r \in 1..Len(L[i]) : E[Upto(L, i - 1) + r] = L[i][r] /\ Upto(L, i - 1) + r \in 1..Len(E)
  <2>1. \A r \in 1..Len(L[(i - 1) + 1]) : /\ FlattenSeq(L)[Upto(L, i - 1) + r] = L[(i - 1) + 1][r]
                                          /\ Upto(L, i - 1) + r \in 1..Len(FlattenSeq(L))
    BY <1>1, <1>2, ElementOfPart
  <2> QED
    BY <1>1, <1>2, <2>1
<1>5. CASE chars[i] \notin Special
  <2>1. L[i] = <<chars[i]>>
    BY <1>1, <1>5 DEF Quoted
  <2>2. Len(L[i]) = 1 /\ L[i][1] = chars[i]
    BY <2>1
  <2> HIDE DEF p
  <2>3. E[p] = chars[i] /\ p \in 1..Len(E) /\ Upto(L, i) = p
    BY <1>3, <1>4, <2>2 DEF p
  <2> QED
    BY <1>5, <2>3 DEF p, E, L
<1>6. CASE chars[i] \in Special
  <2>1. L[i] = <<"\\", chars[i]>>
    BY <1>1, <1>6 DEF Quoted
  <2>2. Len(L[i]) = 2 /\ L[i][1] = "\\" /\ L[i][2] = chars[i]
    BY <2>1
  <2>3. 1 \in 1..Len(L[i]) /\ 2 \in 1..Len(L[i])
    BY <2>2
  <2>4. Upto(L, i - 1) + 2 = p + 1
    BY <1>3
  <2>5. E[p] = "\\" /\ p \in 1..Len(E)
    BY <1>4, <2>2, <2>3
  <2>6. E[p + 1] = chars[i] /\ p + 1 \in 1..Len(E)
    BY <1>4, <2>2, <2>3, <2>4
  <2>7. Upto(L, i) = p + 1
    BY <1>3, <2>2
  <2> QED
    BY <1>6, <2>5, <2>6, <2>7 DEF E, L
<1> QED
  BY <1>5, <1>6 DEF L, E

---------------------------------------------------------------------------
(* Comparing a key with a target.                                          *)

\* How far the target is matched after one more character of the key.
MatchStep(target, key, i, p) ==
    IF p = 0 \/ p > Len(target) THEN 0
    ELSE IF key[i] = target[p] THEN p + 1
    ELSE IF /\ key[i] \in Special \union {"\\"}
            /\ target[p] = "\\" /\ p < Len(target)
            /\ target[p + 1] = key[i]
         THEN p + 2
         ELSE 0

MatchOf(target, key) ==
    CHOOSE to : to = [i \in 0..Len(key) |-> IF i = 0 THEN 1 ELSE MatchStep(target, key, i, to[i - 1])]

\* Where it is for the first i characters of keys, without the walk.
SameUpto(a, b, i) == i <= Len(a) /\ \A l \in 1..i : b[l] = a[l]

\* A backslash of the key is taken for the one that quotes a character.
HalfQuoted(a, b, i) ==
    /\ i >= 1 /\ SameUpto(a, b, i - 1)
    /\ i <= Len(a) /\ a[i] \in Special /\ b[i] = "\\"

MatchAt(a, b, i) ==
    IF SameUpto(a, b, i) THEN Upto(Letters(a), i) + 1
    ELSE IF HalfQuoted(a, b, i) THEN Upto(Letters(a), i - 1) + 2
    ELSE 0

\* Every character of a key makes its text longer.
LEMMA UptoLetters ==
  ASSUME NEW a, IsText(a)
  PROVE  /\ Len(a) \in Nat
         /\ \A i \in 0..Len(a) : Upto(Letters(a), i) \in Nat
         /\ \A i \in 0..Len(a) - 1 : Upto(Letters(a), i) < Upto(Letters(a), i + 1)
         /\ Upto(Letters(a), 0) = 0
         /\ Upto(Letters(a), Len(a)) = Len(Escaped(a))
<1> DEFINE S == Range(a) \cup {"\\"}
<1>0. "\\" \in S /\ Range(a) \subseteq S
  OBVIOUS
<1> HIDE DEF S
<1>1. /\ Letters(a) \in Seq(Seq(S)) /\ Len(Letters(a)) = Len(a) /\ Len(a) \in Nat
      /\ Escaped(a) = FlattenSeq(Letters(a))
      /\ \A i \in 1..Len(a) : Letters(a)[i] = Quoted(a[i])
  BY <1>0, LettersType
<1>2. /\ Upto(Letters(a), 0) = 0 /\ Upto(Letters(a), Len(a)) = Len(Escaped(a))
      /\ \A i \in 0..Len(a) : Upto(Letters(a), i) \in Nat
  BY <1>1, UptoEnds
<1>3. \A c : Len(Quoted(c)) \in {1, 2}
  BY DEF Quoted
<1>4. ASSUME NEW i \in 0..Len(a) - 1 PROVE Upto(Letters(a), i) < Upto(Letters(a), i + 1)
  <2>1. i \in 0..Len(Letters(a)) - 1 /\ i + 1 \in 1..Len(a)
    BY <1>1
  <2>2. Upto(Letters(a), i) \in Nat /\ Upto(Letters(a), i + 1) = Upto(Letters(a), i) + Len(Letters(a)[i + 1])
    BY <1>1, <2>1, UptoNext
  <2>3. Len(Letters(a)[i + 1]) \in {1, 2}
    BY <1>1, <1>3, <2>1
  <2>4. \A x \in Nat : \A k \in {1, 2} : x < x + k
    OBVIOUS
  <2> QED
    BY <2>2, <2>3, <2>4
<1> QED
  BY <1>1, <1>2, <1>4

\* In a key as text nothing special stands where a character begins.
LEMMA BeginsPlain ==
  ASSUME NEW a, IsText(a), NEW i \in 0..Len(a) - 1
  PROVE  Escaped(a)[Upto(Letters(a), i) + 1] \notin Special
<1>1. Len(a) \in Nat
  BY UptoLetters
<1>2. i + 1 \in 1..Len(a) /\ (i + 1) - 1 = i
  BY <1>1
<1>3. /\ a[i + 1] \notin Special => Escaped(a)[Upto(Letters(a), i) + 1] = a[i + 1]
      /\ a[i + 1] \in Special => Escaped(a)[Upto(Letters(a), i) + 1] = "\\"
  BY <1>2, EscapedAt
<1>4. "\\" \notin Special
  BY DEF Special
<1> QED
  BY <1>3, <1>4

\* One character more of a key is compared as MatchAt says.
LEMMA MatchStepAt ==
  ASSUME NEW a, IsText(a), NEW b, Legible(b), NEW i \in 1..Len(b)
  PROVE  MatchStep(Escaped(a), b, i, MatchAt(a, b, i - 1)) = MatchAt(a, b, i)
<1> DEFINE E == Escaped(a)
           u == Upto(Letters(a), i - 1)
<1>0. /\ IsText(b) /\ Len(a) \in Nat /\ Len(b) \in Nat /\ i \in Nat /\ i - 1 \in Nat
      /\ Len(E) \in Nat /\ Upto(Letters(a), Len(a)) = Len(E)
      /\ "\\" \notin Special
  <2>1. IsText(b) /\ "\\" \notin Special
    BY DEF Legible, Special
  <2>2. Len(a) \in Nat /\ Len(b) \in Nat /\ Upto(Letters(a), Len(a)) = Len(E)
    BY <2>1, UptoLetters
  <2>3. Len(a) \in 0..Len(a)
    BY <2>2
  <2>4. Upto(Letters(a), Len(a)) \in Nat
    BY <2>3, UptoLetters
  <2> HIDE DEF E
  <2> QED
    BY <2>1, <2>2, <2>4
<1>1. SameUpto(a, b, i) <=> SameUpto(a, b, i - 1) /\ i <= Len(a) /\ b[i] = a[i]
  <2>1. \A l \in Int : l \in 1..i <=> l \in 1..(i - 1) \/ l = i
    BY <1>0
  <2> QED
    BY <1>0, <2>1 DEF SameUpto
<1>2. CASE ~SameUpto(a, b, i - 1)
  <2>1. MatchAt(a, b, i) = 0
    BY <1>1, <1>2 DEF MatchAt, HalfQuoted
  <2>2. CASE ~HalfQuoted(a, b, i - 1)
    BY <1>2, <2>1, <2>2 DEF MatchAt, MatchStep
  <2>3. CASE HalfQuoted(a, b, i - 1)
    <3> DEFINE p == Upto(Letters(a), (i - 1) - 1) + 2
    <3>1. i - 1 \in 1..Len(a) /\ a[i - 1] \in Special /\ b[i - 1] = "\\" /\ (i - 1) - 1 \in 0..Len(a)
      BY <1>0, <2>3 DEF HalfQuoted
    <3>2. Upto(Letters(a), (i - 1) - 1) \in Nat
      BY <3>1, UptoLetters
    <3>3. p \in 1..Len(E) /\ E[p] = a[i - 1]
      <4>1. LET q == Upto(Letters(a), (i - 1) - 1) + 1
            IN  q + 1 \in 1..Len(E) /\ E[q + 1] = a[i - 1]
        BY <3>1, EscapedAt
      <4>2. Upto(Letters(a), (i - 1) - 1) + 1 + 1 = p
        BY <3>2
      <4> QED
        BY <4>1, <4>2
    <3>4. MatchAt(a, b, i - 1) = p
      BY <1>2, <2>3 DEF MatchAt
    <3>5. b[i] \notin Special
      <4>1. i - 1 \in 1..(Len(b) - 1) /\ (i - 1) + 1 = i
        BY <1>0, <3>1
      <4> QED
        BY <3>1, <4>1 DEF Legible
    <3>6. ~(p = 0) /\ ~(p > Len(E)) /\ b[i] # E[p] /\ E[p] # "\\"
      <4>1. E[p] \in Special
        BY <3>1, <3>3
      <4> HIDE DEF p, E
      <4> QED
        BY <1>0, <3>3, <3>5, <4>1
    <3> HIDE DEF p, E
    <3>7. MatchStep(E, b, i, p) = 0
      BY <3>6 DEF MatchStep
    <3> QED
      BY <2>1, <3>4, <3>7 DEF E
  <2> QED
    BY <2>2, <2>3
<1>3. CASE SameUpto(a, b, i - 1) /\ ~(i <= Len(a))
  <2>1. i - 1 = Len(a)
    BY <1>0, <1>3 DEF SameUpto
  <2>2. MatchAt(a, b, i - 1) = Len(E) + 1
    BY <1>0, <1>3, <2>1 DEF MatchAt
  <2>3. MatchAt(a, b, i) = 0
    BY <1>1, <1>3 DEF MatchAt, HalfQuoted
  <2> HIDE DEF E
  <2> QED
    BY <1>0, <2>2, <2>3 DEF MatchStep, E
<1>4. CASE SameUpto(a, b, i - 1) /\ i <= Len(a)
  <2>1. i \in 1..Len(a) /\ i - 1 \in 0..Len(a) /\ i >= 1
    BY <1>0, <1>4
  <2>2. u \in Nat /\ MatchAt(a, b, i - 1) = u + 1
    BY <1>4, <2>1, UptoLetters DEF MatchAt
  <2>3. /\ u + 1 \in 1..Len(E)
        /\ a[i] \notin Special => E[u + 1] = a[i] /\ Upto(Letters(a), i) = u + 1
        /\ a[i] \in Special => /\ E[u + 1] = "\\" /\ u + 2 \in 1..Len(E) /\ E[u + 2] = a[i]
                               /\ Upto(Letters(a), i) = u + 2
    <3>1. u + 1 + 1 = u + 2
      BY <2>2
    <3> QED
      BY <2>1, <3>1, EscapedAt
  <2>5. MatchAt(a, b, i) = IF b[i] = a[i] THEN Upto(Letters(a), i) + 1
                           ELSE IF a[i] \in Special /\ b[i] = "\\" THEN u + 2
                           ELSE 0
    BY <1>1, <1>4, <2>1 DEF MatchAt, HalfQuoted
  <2>6. ~(u + 1 = 0) /\ ~(u + 1 > Len(E))
    <3> HIDE DEF E, u
    <3> QED
      BY <1>0, <2>2, <2>3
  <2>7. CASE a[i] \notin Special
    <3>1. E[u + 1] = a[i] /\ Upto(Letters(a), i) = u + 1
      BY <2>3, <2>7
    <3>2. u + 1 < Len(E) => E[u + 1 + 1] \notin Special
      <4> SUFFICES ASSUME u + 1 < Len(E) PROVE E[u + 1 + 1] \notin Special
        OBVIOUS
      <4>1. i # Len(a)
        <5> HIDE DEF E, u
        <5> QED
          BY <1>0, <2>2, <3>1
      <4>2. i \in 0..Len(a) - 1
        BY <1>0, <2>1, <4>1
      <4>3. E[Upto(Letters(a), i) + 1] \notin Special
        BY <4>2, BeginsPlain
      <4> QED
        BY <3>1, <4>3
    <3> HIDE DEF E, u
    <3>3. MatchStep(E, b, i, u + 1) = IF b[i] = a[i] THEN u + 1 + 1 ELSE 0
      <4>1. CASE b[i] = a[i]
        BY <2>6, <3>1, <4>1 DEF MatchStep
      <4>2. CASE b[i] # a[i]
        <5>1. ~(/\ b[i] \in Special \union {"\\"}
                /\ E[u + 1] = "\\" /\ u + 1 < Len(E)
                /\ E[u + 1 + 1] = b[i])
          BY <3>1, <3>2, <4>2
        <5> QED
          BY <2>6, <3>1, <4>2, <5>1 DEF MatchStep
      <4> QED
        BY <4>1, <4>2
    <3> QED
      BY <2>2, <2>5, <2>7, <3>1, <3>3 DEF E
  <2>8. CASE a[i] \in Special
    <3>1. E[u + 1] = "\\" /\ u + 2 \in 1..Len(E) /\ E[u + 2] = a[i] /\ Upto(Letters(a), i) = u + 2
      BY <2>3, <2>8
    <3> HIDE DEF E, u
    <3>2. u + 1 < Len(E) /\ u + 1 + 1 = u + 2 /\ u + 1 + 2 = u + 2 + 1
      BY <1>0, <2>2, <3>1
    <3>3. MatchStep(E, b, i, u + 1) = IF b[i] = a[i] THEN u + 2 + 1
                                      ELSE IF b[i] = "\\" THEN u + 2 ELSE 0
      <4>1. CASE b[i] = a[i]
        BY <1>0, <2>6, <2>8, <3>1, <3>2, <4>1 DEF MatchStep
      <4>2. CASE b[i] # a[i] /\ b[i] = "\\"
        BY <2>6, <3>1, <3>2, <4>2 DEF MatchStep
      <4>3. CASE b[i] # a[i] /\ b[i] # "\\"
        <5>1. E[u + 1 + 1] # b[i] /\ b[i] # E[u + 1]
          BY <3>1, <3>2, <4>3
        <5> QED
          BY <2>6, <4>3, <5>1 DEF MatchStep
      <4> QED
        BY <4>1, <4>2, <4>3
    <3> QED
      BY <2>2, <2>5, <2>8, <3>1, <3>3 DEF E
  <2> QED
    BY <2>7, <2>8
<1> QED
  BY <1>2, <1>3, <1>4

(* A target made of any key, with backslashes of its own or without, is    *)
(* matched by that key alone among legible keys.                           *)
THEOREM SameKey ==
  ASSUME NEW a, IsText(a), NEW b, Legible(b)
  PROVE  IsSameKey(Escaped(a), b) <=> a = b
<1> DEFINE E == Escaped(a)
           f == MatchOf(E, b)
           g == [i \in 0..Len(b) |-> MatchAt(a, b, i)]
           X == {i \in Nat : i <= Len(b) => f[i] = MatchAt(a, b, i)}
<1>0. IsText(b) /\ Len(a) \in Nat /\ Len(b) \in Nat
  <2>1. IsText(b)
    BY DEF Legible
  <2> QED
    BY <2>1, UptoLetters
<1>1. MatchAt(a, b, 0) = 1
  <2>1. SameUpto(a, b, 0) /\ Upto(Letters(a), 0) = 0
    BY <1>0, UptoLetters DEF SameUpto
  <2> QED
    BY <2>1 DEF MatchAt
<1>2. f = [i \in 0..Len(b) |-> IF i = 0 THEN 1 ELSE MatchStep(E, b, i, f[i - 1])]
  <2>1. \A i \in 0..Len(b) : i # 0 => i \in 1..Len(b) /\ i - 1 \in 0..Len(b)
    BY <1>0
  <2>2. \A i \in 0..Len(b) : g[i] = IF i = 0 THEN 1 ELSE MatchStep(E, b, i, g[i - 1])
    BY <1>1, <2>1, MatchStepAt
  <2>3. g = [i \in 0..Len(b) |-> g[i]]
    OBVIOUS
  <2> HIDE DEF g, E
  <2>4. g = [i \in 0..Len(b) |-> IF i = 0 THEN 1 ELSE MatchStep(E, b, i, g[i - 1])]
    BY <2>2, <2>3
  <2> QED
    BY <2>4 DEF MatchOf
<1>3. IsSameKey(E, b) <=> f[Len(b)] = Len(E) + 1
  BY DEF IsSameKey, MatchOf, MatchStep
<1> HIDE DEF f
<1>4. 0 \in X
  BY <1>0, <1>1, <1>2
<1>5. ASSUME NEW i \in Nat, i \in X PROVE i + 1 \in X
  <2> SUFFICES ASSUME i + 1 <= Len(b) PROVE f[i + 1] = MatchAt(a, b, i + 1)
    OBVIOUS
  <2>1. i + 1 \in 0..Len(b) /\ i + 1 \in 1..Len(b) /\ i + 1 # 0 /\ (i + 1) - 1 = i /\ i <= Len(b)
    BY <1>0
  <2>2. f[i] = MatchAt(a, b, i)
    BY <1>5, <2>1
  <2>3. f[i + 1] = MatchStep(E, b, i + 1, f[i])
    BY <1>2, <2>1
  <2>4. MatchStep(E, b, i + 1, MatchAt(a, b, (i + 1) - 1)) = MatchAt(a, b, i + 1)
    BY <2>1, MatchStepAt
  <2> QED
    BY <2>1, <2>2, <2>3, <2>4
<1> HIDE DEF X
<1>6. Nat \subseteq X
  BY <1>4, <1>5, SetInduction
<1>7. f[Len(b)] = MatchAt(a, b, Len(b))
  BY <1>0, <1>6 DEF X
<1>8. /\ Upto(Letters(a), Len(a)) = Len(E)
      /\ \A i \in 0..Len(a) : Upto(Letters(a), i) \in Nat
      /\ \A i \in 0..Len(a) - 1 : Upto(Letters(a), i) < Upto(Letters(a), i + 1)
  BY UptoLetters
<1> HIDE DEF E
<1>9. ASSUME NEW i \in 0..Len(a), i # Len(a) PROVE Upto(Letters(a), i) < Upto(Letters(a), Len(a))
  <2> DEFINE Y == {d \in Nat : i + d + 1 <= Len(a) => Upto(Letters(a), i) < Upto(Letters(a), i + d + 1)}
  <2>1. 0 \in Y
    BY <1>0, <1>8, <1>9
  <2>2. ASSUME NEW d \in Nat, d \in Y PROVE d + 1 \in Y
    <3> SUFFICES ASSUME i + (d + 1) + 1 <= Len(a)
                 PROVE  Upto(Letters(a), i) < Upto(Letters(a), i + (d + 1) + 1)
      OBVIOUS
    <3>1. /\ i + d + 1 <= Len(a) /\ i + d + 1 \in 0..Len(a) - 1 /\ i + (d + 1) + 1 = (i + d + 1) + 1
          /\ i + d + 1 \in 0..Len(a) /\ (i + d + 1) + 1 \in 0..Len(a) /\ i \in 0..Len(a)
      BY <1>0
    <3>2. /\ Upto(Letters(a), i) < Upto(Letters(a), i + d + 1)
          /\ Upto(Letters(a), i + d + 1) < Upto(Letters(a), (i + d + 1) + 1)
      BY <1>8, <2>2, <3>1
    <3>3. /\ Upto(Letters(a), i) \in Nat /\ Upto(Letters(a), i + d + 1) \in Nat
          /\ Upto(Letters(a), (i + d + 1) + 1) \in Nat
      BY <1>8, <3>1
    <3> HIDE DEF Y
    <3>4. Upto(Letters(a), i) < Upto(Letters(a), (i + d + 1) + 1)
      BY <3>2, <3>3
    <3> QED
      BY <3>1, <3>4
  <2> HIDE DEF Y
  <2>3. Nat \subseteq Y
    BY <2>1, <2>2, SetInduction
  <2>4. Len(a) - i - 1 \in Nat /\ i + (Len(a) - i - 1) + 1 = Len(a)
    BY <1>0, <1>9
  <2>5. Len(a) - i - 1 \in Y
    BY <2>3, <2>4
  <2>6. i + (Len(a) - i - 1) + 1 <= Len(a)
    BY <1>0, <2>4
  <2>7. Upto(Letters(a), i) < Upto(Letters(a), i + (Len(a) - i - 1) + 1)
    BY <2>5, <2>6 DEF Y
  <2> QED
    BY <2>4, <2>7
<1>10. ASSUME a = b PROVE f[Len(b)] = Len(E) + 1
  <2>1. SameUpto(a, b, Len(b)) /\ Len(b) = Len(a)
    BY <1>0, <1>10 DEF SameUpto
  <2> QED
    BY <1>7, <1>8, <2>1 DEF MatchAt
<1>11. ASSUME f[Len(b)] = Len(E) + 1 PROVE a = b
  <2>0. Len(E) \in Nat
    BY <1>0, <1>8
  <2>1. SameUpto(a, b, Len(b)) /\ Upto(Letters(a), Len(b)) + 1 = Len(E) + 1
    <3>1. MatchAt(a, b, Len(b)) = Len(E) + 1 /\ Len(E) + 1 # 0
      BY <1>7, <1>11, <2>0
    <3>2. ASSUME HalfQuoted(a, b, Len(b)) PROVE Upto(Letters(a), Len(b) - 1) + 2 # Len(E) + 1
      <4>1. Len(b) \in 1..Len(a) /\ Len(b) - 1 \in 0..Len(a) /\ a[Len(b)] \in Special
        BY <1>0, <3>2 DEF HalfQuoted
      <4>2. Upto(Letters(a), Len(b) - 1) + 1 + 1 \in 1..Len(E)
        BY <4>1, EscapedAt DEF E
      <4>3. Upto(Letters(a), Len(b) - 1) \in Nat
        BY <1>8, <4>1
      <4> QED
        BY <2>0, <4>2, <4>3
    <3> QED
      BY <3>1, <3>2 DEF MatchAt
  <2>2. Len(b) \in 0..Len(a)
    BY <1>0, <2>1 DEF SameUpto
  <2>3. Upto(Letters(a), Len(b)) = Len(E)
    BY <1>8, <2>0, <2>1, <2>2
  <2>4. Len(b) = Len(a)
    BY <1>8, <1>9, <2>0, <2>2, <2>3
  <2>5. \A l \in 1..Len(b) : b[l] = a[l]
    BY <2>1 DEF SameUpto
  <2>6. a \in Seq(Range(a)) /\ b \in Seq(Range(b))
    BY <1>0 DEF IsText
  <2>7. a = [l \in 1..Len(a) |-> a[l]] /\ b = [l \in 1..Len(b) |-> b[l]]
    BY <2>6
  <2> QED
    BY <2>4, <2>5, <2>7
<1> QED
  BY <1>3, <1>10, <1>11 DEF E

---------------------------------------------------------------------------
(* Numbers as text.                                                        *)

DigitChars == Range(Digits)

\* The text of a number, from the text of its tenth.
Longer(m, d) == IF m < 10 THEN <<Digits[m + 1]>> ELSE Append(d, Digits[(m % 10) + 1])

DecimalUpto(g, n) == \A m \in 0..n : g[m] = Longer(m, g[m \div 10])

\* A number is ten times its tenth and its last digit.
LEMMA Tenth ==
  ASSUME NEW m \in Nat
  PROVE  /\ m \div 10 \in Nat /\ m % 10 \in 0..9
         /\ m = 10 * (m \div 10) + (m % 10)
         /\ m \div 10 <= m
         /\ m >= 10 => m \div 10 < m /\ m \div 10 >= 1
OBVIOUS

\* No digit is special, and no two digits are the same character.
LEMMA DigitsType ==
  /\ \A d \in 0..9 : Digits[d + 1] \in DigitChars /\ Digits[d + 1] \notin Special /\ Digits[d + 1] # "\\"
  /\ \A d, e \in 0..9 : Digits[d + 1] = Digits[e + 1] => d = e
<1>1. DOMAIN Digits = 1..10
  BY DEF Digits
<1>2. \A d \in 0..9 : d + 1 \in 1..10
  OBVIOUS
<1>3. \A d \in 0..9 : Digits[d + 1] \in DigitChars
  BY <1>1, <1>2 DEF DigitChars, Range
<1>4. /\ Digits[1] = "0" /\ Digits[2] = "1" /\ Digits[3] = "2" /\ Digits[4] = "3" /\ Digits[5] = "4"
      /\ Digits[6] = "5" /\ Digits[7] = "6" /\ Digits[8] = "7" /\ Digits[9] = "8" /\ Digits[10] = "9"
  BY DEF Digits
<1>5. \A d \in 0..9 : d \in {0, 1, 2, 3, 4, 5, 6, 7, 8, 9}
  OBVIOUS
<1>6. /\ 0 + 1 = 1 /\ 1 + 1 = 2 /\ 2 + 1 = 3 /\ 3 + 1 = 4 /\ 4 + 1 = 5
      /\ 5 + 1 = 6 /\ 6 + 1 = 7 /\ 7 + 1 = 8 /\ 8 + 1 = 9 /\ 9 + 1 = 10
  OBVIOUS
<1>7. \A d \in 0..9 : Digits[d + 1] \notin Special /\ Digits[d + 1] # "\\"
  BY <1>4, <1>5, <1>6 DEF Special
<1>8. \A d, e \in 0..9 : Digits[d + 1] = Digits[e + 1] => d = e
  BY <1>4, <1>5, <1>6
<1> QED
  BY <1>3, <1>7, <1>8

\* A digit after digits makes digits.
LEMMA LongerType ==
  ASSUME NEW m \in Nat, NEW d, m >= 10 => d \in Seq(DigitChars)
  PROVE  Longer(m, d) \in Seq(DigitChars)
<1>1. CASE m < 10
  <2>1. m \in 0..9
    BY <1>1
  <2> QED
    BY <1>1, <2>1, DigitsType DEF Longer
<1>2. CASE ~(m < 10)
  <2>1. m % 10 \in 0..9 /\ d \in Seq(DigitChars)
    BY <1>2, Tenth
  <2>2. Digits[(m % 10) + 1] \in DigitChars
    BY <2>1, DigitsType
  <2> QED
    BY <1>2, <2>1, <2>2 DEF Longer
<1> QED
  BY <1>1, <1>2

\* The numbers up to any number have texts,
LEMMA DecimalExists ==
  ASSUME NEW n \in Nat
  PROVE  \E g \in [0..n -> Seq(DigitChars)] : DecimalUpto(g, n)
<1> DEFINE K == {k \in Nat : \E g \in [0..k -> Seq(DigitChars)] : DecimalUpto(g, k)}
<1>1. 0 \in K
  <2> DEFINE g == [i \in 0..0 |-> <<Digits[1]>>]
  <2>0. 0 \in 0..9 /\ 0 + 1 = 1
    OBVIOUS
  <2>1. <<Digits[1]>> \in Seq(DigitChars)
    BY <2>0, DigitsType
  <2>2. Longer(0, g[0 \div 10]) = <<Digits[1]>>
    BY DEF Longer
  <2>3. \A m \in 0..0 : m = 0 /\ g[m] = <<Digits[1]>>
    OBVIOUS
  <2>4. g \in [0..0 -> Seq(DigitChars)]
    BY <2>1
  <2> HIDE DEF g
  <2>5. DecimalUpto(g, 0)
    BY <2>2, <2>3 DEF DecimalUpto
  <2> QED
    BY <2>4, <2>5
<1>2. ASSUME NEW k \in Nat, k \in K PROVE k + 1 \in K
  <2>1. PICK h \in [0..k -> Seq(DigitChars)] : DecimalUpto(h, k)
    BY <1>2
  <2> DEFINE e == Longer(k + 1, h[(k + 1) \div 10])
             g == [i \in 0..k + 1 |-> IF i <= k THEN h[i] ELSE e]
  <2>2. k + 1 >= 10 => (k + 1) \div 10 \in 0..k
    BY Tenth
  <2>3. e \in Seq(DigitChars)
    <3>1. k + 1 >= 10 => h[(k + 1) \div 10] \in Seq(DigitChars)
      BY <2>2
    <3> QED
      BY <3>1, LongerType
  <2> HIDE DEF e
  <2>4. g \in [0..k + 1 -> Seq(DigitChars)]
    <3>1. \A i \in 0..k + 1 : i <= k => i \in 0..k
      OBVIOUS
    <3> QED
      BY <2>3, <3>1
  <2>5. (\A i \in 0..k : g[i] = h[i]) /\ g[k + 1] = e
    OBVIOUS
  <2> HIDE DEF g
  <2>6. ASSUME NEW m \in 0..k PROVE g[m] = Longer(m, g[m \div 10])
    <3>1. m \div 10 \in 0..k
      BY Tenth
    <3> QED
      BY <2>1, <2>5, <3>1 DEF DecimalUpto
  <2>7. g[k + 1] = Longer(k + 1, g[(k + 1) \div 10])
    <3>1. CASE k + 1 >= 10
      BY <2>2, <2>5, <3>1 DEF e
    <3>2. CASE ~(k + 1 >= 10)
      BY <2>5, <3>2 DEF e, Longer
    <3> QED
      BY <3>1, <3>2
  <2>8. \A m \in 0..k + 1 : m \in 0..k \/ m = k + 1
    OBVIOUS
  <2>9. DecimalUpto(g, k + 1)
    BY <2>6, <2>7, <2>8 DEF DecimalUpto
  <2> QED
    BY <2>4, <2>9
<1> HIDE DEF K
<1>3. Nat \subseteq K
  BY <1>1, <1>2, SetInduction
<1> QED
  BY <1>3 DEF K

\* and only one each.
LEMMA DecimalUnique ==
  ASSUME NEW n \in Nat, NEW m \in Nat, NEW f, NEW g, DecimalUpto(f, n), DecimalUpto(g, m),
         NEW k \in Nat, k <= n, k <= m
  PROVE  f[k] = g[k]
<1> DEFINE X == {i \in Nat : i <= n /\ i <= m /\ f[i] # g[i]}
<1> SUFFICES ASSUME X # {} PROVE FALSE
  OBVIOUS
<1>1. X \subseteq Nat
  OBVIOUS
<1>2. PICK i \in X : \A j \in X : i <= j
  BY <1>1, LeastNumber
<1>3. i \in Nat /\ i \in 0..n /\ i \in 0..m /\ f[i] # g[i]
  BY <1>2
<1>4. f[i] = Longer(i, f[i \div 10]) /\ g[i] = Longer(i, g[i \div 10])
  BY <1>3 DEF DecimalUpto
<1>5. i >= 10
  BY <1>3, <1>4 DEF Longer
<1>6. i \div 10 \in Nat /\ i \div 10 < i /\ i \div 10 <= n /\ i \div 10 <= m
  BY <1>3, <1>5, Tenth
<1>7. i \div 10 \notin X
  BY <1>2, <1>3, <1>6
<1>8. f[i \div 10] = g[i \div 10]
  BY <1>6, <1>7
<1> QED
  BY <1>3, <1>4, <1>8

(* The text of a number is made of digits, the last one after the text of  *)
(* its tenth.                                                              *)
LEMMA DecimalText ==
  ASSUME NEW m \in Nat
  PROVE  /\ Decimal[m] \in Seq(DigitChars)
         /\ m < 10 => Decimal[m] = <<Digits[m + 1]>>
         /\ m >= 10 => Decimal[m] = Append(Decimal[m \div 10], Digits[(m % 10) + 1])
<1> DEFINE D == CHOOSE D : D = [i \in Nat |-> Longer(i, D[i \div 10])]
           G == [i \in Nat |-> (CHOOSE g \in [0..i -> Seq(DigitChars)] : DecimalUpto(g, i))[i]]
           Of(i) == CHOOSE g \in [0..i -> Seq(DigitChars)] : DecimalUpto(g, i)
<1>1. \A i \in Nat : Of(i) \in [0..i -> Seq(DigitChars)] /\ DecimalUpto(Of(i), i) /\ G[i] = Of(i)[i]
  BY DecimalExists
<1> HIDE DEF G, Of
<1>2. ASSUME NEW i \in Nat PROVE G[i] = Longer(i, G[i \div 10]) /\ G[i] \in Seq(DigitChars)
  <2>1. i \in 0..i /\ i \div 10 \in 0..i /\ i \div 10 \in Nat /\ i \div 10 <= i /\ i \div 10 <= i \div 10
    BY Tenth
  <2>2. DecimalUpto(Of(i), i) /\ DecimalUpto(Of(i \div 10), i \div 10) /\ Of(i) \in [0..i -> Seq(DigitChars)]
    BY <1>1, <2>1
  <2>3. Of(i)[i] = Longer(i, Of(i)[i \div 10])
    BY <2>1, <2>2 DEF DecimalUpto
  <2>4. Of(i)[i \div 10] = Of(i \div 10)[i \div 10]
    BY <2>1, <2>2, DecimalUnique
  <2>5. G[i] = Of(i)[i] /\ G[i \div 10] = Of(i \div 10)[i \div 10]
    BY <1>1, <2>1
  <2>6. Of(i)[i] \in Seq(DigitChars)
    BY <2>1, <2>2
  <2> QED
    BY <2>3, <2>4, <2>5, <2>6
<1>3. G = [i \in Nat |-> Longer(i, G[i \div 10])]
  <2>1. G = [i \in Nat |-> G[i]]
    BY DEF G
  <2> QED
    BY <1>2, <2>1
<1>4. D = [i \in Nat |-> Longer(i, D[i \div 10])]
  BY <1>3
<1>5. Decimal = D
  BY DEF Decimal, Longer
<1> HIDE DEF D
<1>6. \A i \in Nat : D[i] = Longer(i, D[i \div 10])
  BY <1>4
<1>7. \A i \in Nat : DecimalUpto(D, i) /\ DecimalUpto(G, i)
  BY <1>2, <1>6 DEF DecimalUpto
<1>8. D[m] = G[m]
  <2>1. m <= m
    OBVIOUS
  <2> QED
    BY <1>7, <2>1, DecimalUnique
<1>9. D[m] \in Seq(DigitChars)
  BY <1>2, <1>8
<1>10. D[m] = Longer(m, D[m \div 10])
  BY <1>6
<1> QED
  BY <1>5, <1>9, <1>10 DEF Longer

---------------------------------------------------------------------------
\* How long the text of a number is.
LEMMA DecimalLength ==
  ASSUME NEW m \in Nat
  PROVE  /\ Len(Decimal[m]) \in Nat /\ Len(Decimal[m]) >= 1
         /\ m < 10 => Len(Decimal[m]) = 1
         /\ m >= 10 => Len(Decimal[m]) = Len(Decimal[m \div 10]) + 1
<1>1. CASE m < 10
  <2>1. Decimal[m] = <<Digits[m + 1]>>
    BY <1>1, DecimalText
  <2>2. \A d : Len(<<d>>) = 1
    OBVIOUS
  <2>3. Len(Decimal[m]) = 1
    BY <2>1, <2>2
  <2> QED
    BY <1>1, <2>3
<1>2. CASE m >= 10
  <2>1. m \div 10 \in Nat /\ m % 10 \in 0..9
    BY Tenth
  <2>2. Decimal[m \div 10] \in Seq(DigitChars) /\ Decimal[m] = Append(Decimal[m \div 10], Digits[(m % 10) + 1])
    BY <1>2, <2>1, DecimalText
  <2>3. Digits[(m % 10) + 1] \in DigitChars
    BY <2>1, DigitsType
  <2>4. \A s \in Seq(DigitChars) : \A d \in DigitChars : Len(Append(s, d)) = Len(s) + 1 /\ Len(s) \in Nat
    OBVIOUS
  <2>5. Len(Decimal[m]) = Len(Decimal[m \div 10]) + 1 /\ Len(Decimal[m \div 10]) \in Nat
    BY <2>2, <2>3, <2>4
  <2> QED
    BY <1>2, <2>5
<1> QED
  BY <1>1, <1>2

\* The tenth of a larger number is not smaller.
LEMMA TenthGrows ==
  ASSUME NEW m \in Nat, NEW n \in Nat, m <= n
  PROVE  m \div 10 <= n \div 10
OBVIOUS

\* A larger number is not shorter.
LEMMA DecimalGrows ==
  ASSUME NEW m \in Nat, NEW n \in Nat, m <= n
  PROVE  Len(Decimal[m]) <= Len(Decimal[n])
<1> DEFINE X == {j \in Nat : \E i \in Nat : i <= j /\ ~(Len(Decimal[i]) <= Len(Decimal[j]))}
<1> SUFFICES ASSUME X # {} PROVE FALSE
  <2>1. n \notin X
    OBVIOUS
  <2> QED
    BY <2>1
<1>1. X \subseteq Nat
  OBVIOUS
<1>2. PICK j \in X : \A x \in X : j <= x
  BY <1>1, LeastNumber
<1>3. PICK i \in Nat : i <= j /\ ~(Len(Decimal[i]) <= Len(Decimal[j]))
  BY <1>2
<1>4. j \in Nat
  BY <1>2
<1>5. i >= 10 /\ j >= 10
  <2>1. Len(Decimal[i]) \in Nat /\ Len(Decimal[j]) \in Nat /\ Len(Decimal[j]) >= 1
    BY <1>4, DecimalLength
  <2>2. ~(i < 10)
    <3>1. i < 10 => Len(Decimal[i]) = 1
      BY DecimalLength
    <3> QED
      BY <1>3, <2>1, <3>1
  <2> QED
    BY <1>3, <1>4, <2>2
<1>6. /\ i \div 10 \in Nat /\ j \div 10 \in Nat /\ j \div 10 < j /\ ~(j <= j \div 10)
      /\ i \div 10 <= j \div 10
  <2>1. i \div 10 <= j \div 10
    BY <1>3, <1>4, TenthGrows
  <2>2. i \div 10 \in Nat /\ j \div 10 \in Nat /\ j \div 10 < j
    BY <1>4, <1>5, Tenth
  <2> QED
    BY <1>4, <2>1, <2>2
<1>7. j \div 10 \notin X
  BY <1>2, <1>6
<1>8. Len(Decimal[i \div 10]) <= Len(Decimal[j \div 10])
  BY <1>6, <1>7
<1>9. /\ Len(Decimal[i]) = Len(Decimal[i \div 10]) + 1 /\ Len(Decimal[j]) = Len(Decimal[j \div 10]) + 1
      /\ Len(Decimal[i \div 10]) \in Nat /\ Len(Decimal[j \div 10]) \in Nat
  BY <1>4, <1>5, <1>6, DecimalLength
<1> QED
  BY <1>3, <1>8, <1>9

\* The next number is at most one digit longer.
LEMMA DecimalOfNext ==
  ASSUME NEW m \in Nat
  PROVE  Len(Decimal[m + 1]) <= Len(Decimal[m]) + 1
<1> DEFINE X == {j \in Nat : ~(Len(Decimal[j + 1]) <= Len(Decimal[j]) + 1)}
<1> SUFFICES ASSUME X # {} PROVE FALSE
  OBVIOUS
<1>1. X \subseteq Nat
  OBVIOUS
<1>2. PICK j \in X : \A x \in X : j <= x
  BY <1>1, LeastNumber
<1>3. j \in Nat /\ j + 1 \in Nat /\ ~(Len(Decimal[j + 1]) <= Len(Decimal[j]) + 1)
  BY <1>2
<1>4. /\ Len(Decimal[j]) \in Nat /\ Len(Decimal[j]) >= 1 /\ Len(Decimal[j + 1]) \in Nat
  BY <1>3, DecimalLength
<1> HIDE DEF X
<1> DEFINE a == Len(Decimal[j])
           b == Len(Decimal[j + 1])
<1>5. ~(j + 1 < 10)
  <2>1. j + 1 < 10 => b = 1
    BY <1>3, DecimalLength
  <2>2. a \in Nat /\ a >= 1 /\ ~(b <= a + 1)
    BY <1>3, <1>4
  <2> HIDE DEF a, b
  <2> QED
    BY <2>1, <2>2
<1>6. /\ Len(Decimal[j + 1]) = Len(Decimal[(j + 1) \div 10]) + 1
      /\ (j + 1) \div 10 \in Nat
  BY <1>3, <1>5, DecimalLength, Tenth
<1>7. CASE j < 10
  <2>1. j = 9
    BY <1>3, <1>5, <1>7
  <2>2. (j + 1) \div 10 = 1
    BY <2>1
  <2>3. Len(Decimal[1]) = 1
    BY DecimalLength
  <2>4. b = 1 + 1
    BY <1>6, <2>2, <2>3
  <2>5. a \in Nat /\ a >= 1 /\ ~(b <= a + 1)
    BY <1>3, <1>4
  <2> HIDE DEF a, b
  <2> QED
    BY <2>4, <2>5
<1>8. CASE j >= 10
  <2> DEFINE q == j \div 10
  <2>1. q \in Nat /\ q < j /\ ((j + 1) \div 10 = q \/ (j + 1) \div 10 = q + 1)
    BY <1>3, <1>8
  <2>2. Len(Decimal[j]) = Len(Decimal[q]) + 1
    BY <1>3, <1>8, DecimalLength
  <2> HIDE DEF q
  <2>3. q \notin X
    <3>1. ~(j <= q)
      BY <1>3, <2>1
    <3> QED
      BY <1>2, <3>1
  <2>4. Len(Decimal[q + 1]) <= Len(Decimal[q]) + 1
    BY <2>1, <2>3 DEF X
  <2>5. Len(Decimal[q]) \in Nat /\ Len(Decimal[q + 1]) \in Nat
    BY <2>1, DecimalLength
  <2> QED
    BY <1>3, <1>4, <1>6, <2>1, <2>2, <2>4, <2>5
<1> QED
  BY <1>3, <1>7, <1>8

---------------------------------------------------------------------------
\* A digit is known by its character.
LEMMA DigitOf ==
  ASSUME NEW d \in 0..9
  PROVE  Digit(Digits[d + 1]) = d
BY DigitsType DEF Digit

ValuesOf(v, s) == \A i \in 0..Len(s) : v[i] = IF i = 0 THEN 0 ELSE 10 * v[i - 1] + Digit(s[i])

\* The digits of a number, read one after the other, arrive at the number.
LEMMA ValueOfDecimal ==
  ASSUME NEW n \in Nat
  PROVE  \E v \in [0..Len(Decimal[n]) -> Nat] : ValuesOf(v, Decimal[n]) /\ v[Len(Decimal[n])] = n
<1> DEFINE X == {j \in Nat : ~\E v \in [0..Len(Decimal[j]) -> Nat] :
                                  ValuesOf(v, Decimal[j]) /\ v[Len(Decimal[j])] = j}
<1> SUFFICES ASSUME X # {} PROVE FALSE
  OBVIOUS
<1>1. X \subseteq Nat
  OBVIOUS
<1>2. PICK j \in X : \A x \in X : j <= x
  BY <1>1, LeastNumber
<1>3. j \in Nat
  BY <1>2
<1> DEFINE s == Decimal[j]
<1>4. CASE j < 10
  <2> DEFINE v == [i \in 0..1 |-> IF i = 0 THEN 0 ELSE j]
  <2>1. s = <<Digits[j + 1]>> /\ j \in 0..9
    BY <1>3, <1>4, DecimalText
  <2>2. Len(s) = 1 /\ s[1] = Digits[j + 1]
    BY <2>1
  <2>3. Digit(s[1]) = j
    BY <2>1, <2>2, DigitOf
  <2> HIDE DEF s
  <2>4. v \in [0..1 -> Nat] /\ v[0] = 0 /\ v[1] = j
    BY <1>3
  <2> HIDE DEF v
  <2>5. \A i \in 0..1 : i = 0 \/ i = 1
    OBVIOUS
  <2>6. j = 10 * 0 + j /\ 1 - 1 = 0 /\ 1 # 0
    BY <1>3
  <2>7. ValuesOf(v, s)
    BY <2>2, <2>3, <2>4, <2>5, <2>6 DEF ValuesOf
  <2>8. j \notin X
    BY <1>3, <2>2, <2>4, <2>7 DEF s
  <2> QED
    BY <1>2, <2>8
<1>5. CASE ~(j < 10)
  <2> DEFINE q == j \div 10
             r == j % 10
             u == Decimal[q]
  <2>1. q \in Nat /\ r \in 0..9 /\ j = 10 * q + r /\ ~(j <= q)
    BY <1>3, <1>5, Tenth
  <2>2. s = Append(u, Digits[r + 1])
    <3>1. j >= 10
      BY <1>3, <1>5
    <3> QED
      BY <1>3, <3>1, DecimalText
  <2>3. u \in Seq(DigitChars) /\ Digits[r + 1] \in DigitChars
    BY <2>1, DecimalText, DigitsType
  <2> HIDE DEF s, q, r
  <2>4. q \notin X
    BY <1>2, <2>1
  <2>5. PICK w \in [0..Len(u) -> Nat] : ValuesOf(w, u) /\ w[Len(u)] = q
    BY <2>1, <2>4
  <2>6. Len(u) \in Nat /\ Len(s) = Len(u) + 1 /\ (\A i \in 1..Len(u) : s[i] = u[i]) /\ s[Len(u) + 1] = Digits[r + 1]
    <3> HIDE DEF u
    <3> QED
      BY <2>2, <2>3
  <2> HIDE DEF u
  <2> DEFINE v == [i \in 0..Len(s) |-> IF i <= Len(u) THEN w[i] ELSE j]
  <2>7. v \in [0..Len(s) -> Nat]
    <3>1. \A i \in 0..Len(s) : i <= Len(u) => i \in 0..Len(u)
      BY <2>6
    <3> QED
      BY <1>3, <3>1
  <2>8. (\A i \in 0..Len(u) : v[i] = w[i]) /\ v[Len(u) + 1] = j
    <3>1. \A i \in 0..Len(u) : i \in 0..Len(s) /\ i <= Len(u)
      BY <2>6
    <3>2. Len(u) + 1 \in 0..Len(s) /\ ~(Len(u) + 1 <= Len(u))
      BY <2>6
    <3> QED
      BY <3>1, <3>2
  <2> HIDE DEF v
  <2>9. ASSUME NEW i \in 0..Len(u) PROVE v[i] = IF i = 0 THEN 0 ELSE 10 * v[i - 1] + Digit(s[i])
    <3>1. w[i] = IF i = 0 THEN 0 ELSE 10 * w[i - 1] + Digit(u[i])
      BY <2>5 DEF ValuesOf
    <3>2. i # 0 => i - 1 \in 0..Len(u) /\ i \in 1..Len(u)
      BY <2>6
    <3> QED
      BY <2>6, <2>8, <3>1, <3>2
  <2>10. v[Len(u) + 1] = 10 * v[Len(u)] + Digit(s[Len(u) + 1])
    <3>1. Digit(s[Len(u) + 1]) = r
      BY <2>1, <2>6, DigitOf
    <3>2. Len(u) \in 0..Len(u)
      BY <2>6
    <3>3. v[Len(u)] = q
      BY <2>5, <2>8, <3>2
    <3> QED
      BY <2>1, <2>8, <3>1, <3>3
  <2>11. \A i \in 0..Len(s) : i \in 0..Len(u) \/ (i = Len(u) + 1 /\ i - 1 = Len(u) /\ i # 0)
    BY <2>6
  <2>12. ValuesOf(v, s)
    BY <2>9, <2>10, <2>11 DEF ValuesOf
  <2>13. j \notin X
    BY <1>3, <2>6, <2>7, <2>8, <2>12 DEF s
  <2> QED
    BY <1>2, <2>13
<1> QED
  BY <1>3, <1>4, <1>5

(* Reading the text of a number gives the number.                          *)
LEMMA NumberOfDecimal ==
  ASSUME NEW n \in Nat
  PROVE  NumberIn(Decimal[n]) = n
<1> DEFINE s == Decimal[n]
           f == CHOOSE v : v = [i \in 0..Len(s) |-> IF i = 0 THEN 0 ELSE 10 * v[i - 1] + Digit(s[i])]
<1>0. Len(s) \in Nat
  BY DecimalLength
<1>1. PICK v \in [0..Len(s) -> Nat] : ValuesOf(v, s) /\ v[Len(s)] = n
  BY ValueOfDecimal
<1>2. NumberIn(s) = f[Len(s)]
  BY DEF NumberIn
<1> HIDE DEF s
<1>3. v = [i \in 0..Len(s) |-> IF i = 0 THEN 0 ELSE 10 * v[i - 1] + Digit(s[i])]
  <2>1. v = [i \in 0..Len(s) |-> v[i]]
    BY <1>1
  <2> QED
    BY <1>1, <2>1 DEF ValuesOf
<1>4. f = [i \in 0..Len(s) |-> IF i = 0 THEN 0 ELSE 10 * f[i - 1] + Digit(s[i])]
  BY <1>3
<1> HIDE DEF f
<1> DEFINE Y == {i \in Nat : i <= Len(s) => f[i] = v[i]}
<1>5. 0 \in Y
  BY <1>0, <1>3, <1>4
<1>6. ASSUME NEW i \in Nat, i \in Y PROVE i + 1 \in Y
  <2> SUFFICES ASSUME i + 1 <= Len(s) PROVE f[i + 1] = v[i + 1]
    OBVIOUS
  <2>1. i + 1 \in 0..Len(s) /\ i + 1 # 0 /\ (i + 1) - 1 = i /\ i <= Len(s)
    BY <1>0
  <2>2. f[i] = v[i]
    BY <1>6, <2>1
  <2>3. f[i + 1] = 10 * f[i] + Digit(s[i + 1]) /\ v[i + 1] = 10 * v[i] + Digit(s[i + 1])
    BY <1>3, <1>4, <2>1
  <2> QED
    BY <2>2, <2>3
<1> HIDE DEF Y
<1>7. Nat \subseteq Y
  BY <1>5, <1>6, SetInduction
<1>8. f[Len(s)] = v[Len(s)]
  <2>1. Len(s) <= Len(s)
    BY <1>0
  <2> QED
    BY <1>0, <1>7, <2>1 DEF Y
<1> QED
  BY <1>1, <1>2, <1>8 DEF s

---------------------------------------------------------------------------
(* A step as text.                                                         *)

\* In a key as text a special character has a backslash before it.
LEMMA EscapedShape ==
  ASSUME NEW chars, IsText(chars), Len(chars) > 0
  PROVE  LET E == Escaped(chars)
         IN  /\ Len(E) \in Nat /\ Len(E) >= 1
             /\ E[1] # "["
             /\ \A p \in 1..Len(E) : E[p] \in Special => p > 1 /\ E[p - 1] = "\\"
             /\ chars[Len(chars)] # "\\" => E[Len(E)] # "\\"
<1> DEFINE E == Escaped(chars)
           L == Letters(chars)
           S == Range(chars) \cup {"\\"}
<1>0. "\\" \in S /\ Range(chars) \subseteq S
  OBVIOUS
<1> HIDE DEF S
<1>1. /\ L \in Seq(Seq(S)) /\ Len(L) = Len(chars) /\ Len(chars) \in Nat /\ E = FlattenSeq(L)
      /\ E \in Seq(S)
      /\ \A i \in 1..Len(chars) : L[i] = Quoted(chars[i])
  BY <1>0, LettersType
<1>2. Upto(L, 0) = 0 /\ Upto(L, Len(chars)) = Len(E) /\ \A i \in 0..Len(chars) : Upto(L, i) \in Nat
  BY UptoLetters
<1>3. \A i \in 1..Len(chars) :
         LET p == Upto(L, i - 1) + 1
         IN  /\ p \in 1..Len(E)
             /\ chars[i] \notin Special => E[p] = chars[i] /\ Upto(L, i) = p
             /\ chars[i] \in Special => /\ E[p] = "\\" /\ p + 1 \in 1..Len(E) /\ E[p + 1] = chars[i]
                                        /\ Upto(L, i) = p + 1
  BY EscapedAt
<1>4. Len(E) \in Nat
  <2> HIDE DEF E
  <2> QED
    BY <1>1
<1>5. "\\" \notin Special /\ "\\" # "[" /\ "[" \in Special
  BY DEF Special
<1> HIDE DEF E, L
<1>6. Len(E) >= 1 /\ E[1] # "["
  <2>1. 1 \in 1..Len(chars) /\ 1 - 1 = 0 /\ 0 + 1 = 1
    BY <1>1
  <2> QED
    BY <1>2, <1>3, <1>4, <1>5, <2>1
<1>7. ASSUME chars[Len(chars)] # "\\" PROVE E[Len(E)] # "\\"
  <2>1. Len(chars) \in 1..Len(chars)
    BY <1>1
  <2> QED
    BY <1>1, <1>2, <1>3, <1>5, <1>7, <2>1
<1>8. ASSUME NEW p \in 1..Len(E), E[p] \in Special PROVE p > 1 /\ E[p - 1] = "\\"
  <2>1. PICK i \in 0..Len(L) - 1 : \E r \in 1..Len(L[i + 1]) : p = Upto(L, i) + r
    BY <1>1, PartOfPlace
  <2>2. PICK r \in 1..Len(L[i + 1]) : p = Upto(L, i) + r
    BY <2>1
  <2>3. i + 1 \in 1..Len(chars) /\ (i + 1) - 1 = i /\ i \in 0..Len(chars)
    BY <1>1
  <2>4. L[i + 1] = Quoted(chars[i + 1]) /\ Upto(L, i) \in Nat
    BY <1>1, <1>2, <2>3
  <2>5. CASE chars[i + 1] \notin Special
    <3>1. Len(L[i + 1]) = 1
      BY <2>4, <2>5 DEF Quoted
    <3>2. p = Upto(L, i) + 1
      BY <2>2, <3>1
    <3>3. E[p] = chars[i + 1]
      BY <1>3, <2>3, <2>5, <3>2
    <3> QED
      BY <1>8, <2>5, <3>3
  <2>6. CASE chars[i + 1] \in Special
    <3>1. Len(L[i + 1]) = 2
      BY <2>4, <2>6 DEF Quoted
    <3>2. E[Upto(L, i) + 1] = "\\"
      BY <1>3, <2>3, <2>6
    <3>3. r = 2
      <4>1. r \in {1, 2}
        BY <3>1
      <4> QED
        BY <1>5, <1>8, <2>2, <3>2, <4>1
    <3>4. p - 1 = Upto(L, i) + 1 /\ p > 1
      BY <2>2, <2>4, <3>3
    <3> QED
      BY <3>2, <3>4
  <2> QED
    BY <2>5, <2>6
<1> QED
  BY <1>4, <1>6, <1>7, <1>8 DEF E

(* What a step says is read back: an index, or the key it was made of.  No *)
(* slash begins a step inside, and the next slash begins one.              *)
LEMMA ShownShape ==
  ASSUME NEW s, IsStep(s)
  PROVE  LET P == Shown(s)
         IN  /\ P \in Seq(Range(P)) /\ Len(P) \in Nat /\ Len(P) >= 1
             /\ \A p \in 1..Len(P) : P[p] = "/" => p > 1 /\ P[p - 1] = "\\"
             /\ (s.into = "OBJECT" => s.chars[Len(s.chars)] # "\\") => P[Len(P)] # "\\"
             /\ s.into = "ARRAY" => Target(P) = Index(s.index)
             /\ s.into = "OBJECT" => Target(P) = Key(Escaped(s.chars))
<1> DEFINE P == Shown(s)
<1>1. CASE s.into = "ARRAY"
  <2> DEFINE d == Decimal[s.index]
             S == DigitChars \cup {"[", "]"}
  <2>1. s.index \in Nat
    BY <1>1 DEF IsStep
  <2>2. d \in Seq(DigitChars) /\ Len(d) \in Nat /\ NumberIn(d) = s.index
    BY <2>1, DecimalText, DecimalLength, NumberOfDecimal
  <2>3. P = <<"[">> \o d \o <<"]">>
    BY <1>1 DEF Shown
  <2>4. "[" \in S /\ "]" \in S /\ d \in Seq(S)
    <3> HIDE DEF d
    <3> QED
      BY <2>2
  <2>5. \A c \in DigitChars : c \notin Special /\ c # "\\"
    <3>1. DOMAIN Digits = 1..10
      BY DEF Digits
    <3>2. \A i \in 1..10 : i - 1 \in 0..9 /\ (i - 1) + 1 = i
      OBVIOUS
    <3>3. \A i \in 1..10 : Digits[i] \notin Special /\ Digits[i] # "\\"
      BY <3>2, DigitsType
    <3> QED
      BY <3>1, <3>3 DEF DigitChars, Range
  <2>6. \A c \in S : c # "/" /\ c # "\\"
    BY <2>5 DEF Special
  <2> HIDE DEF S, d, P
  <2>7. P \in Seq(S) /\ Len(P) = Len(d) + 2 /\ P[1] = "["
    BY <2>2, <2>3, <2>4
  <2>8. SubSeq(P, 2, Len(P) - 1) = d
    <3> DEFINE u == SubSeq(P, 2, Len(P) - 1)
    <3>1. u \in Seq(S) /\ Len(u) = Len(d)
      BY <2>2, <2>7
    <3>2. \A i \in 1..Len(d) : u[i] = P[i + 1]
      BY <2>2, <2>7
    <3>3. \A i \in 1..Len(d) : P[i + 1] = d[i]
      BY <2>2, <2>3, <2>4
    <3> HIDE DEF u
    <3>4. u = [i \in 1..Len(u) |-> u[i]] /\ d = [i \in 1..Len(d) |-> d[i]]
      BY <2>4, <3>1
    <3>5. u = d
      BY <3>1, <3>2, <3>3, <3>4
    <3> QED
      BY <3>5 DEF u
  <2>9. Target(P) = Index(s.index)
    BY <2>2, <2>7, <2>8 DEF Target
  <2>10. \A p \in 1..Len(P) : P[p] \in S
    BY <2>7
  <2>11. P \in Seq(Range(P)) /\ Len(P) \in Nat /\ Len(P) >= 1 /\ Len(P) \in 1..Len(P)
    <3>1. P = [i \in 1..Len(P) |-> P[i]] /\ DOMAIN P = 1..Len(P) /\ Len(P) \in Nat
      BY <2>7
    <3>2. P \in [1..Len(P) -> Range(P)]
      BY <3>1 DEF Range
    <3>3. P \in Seq(Range(P))
      BY <3>1, <3>2, FunctionSeq
    <3> QED
      BY <2>2, <2>7, <3>3
  <2> QED
    BY <1>1, <2>6, <2>9, <2>10, <2>11 DEF P
<1>2. CASE s.into = "OBJECT"
  <2> DEFINE E == Escaped(s.chars)
             S == Range(s.chars) \cup {"\\"}
  <2>1. IsText(s.chars) /\ Len(s.chars) > 0
    BY <1>2 DEF IsStep
  <2>2. /\ Len(E) \in Nat /\ Len(E) >= 1 /\ E[1] # "["
        /\ \A p \in 1..Len(E) : E[p] \in Special => p > 1 /\ E[p - 1] = "\\"
        /\ s.chars[Len(s.chars)] # "\\" => E[Len(E)] # "\\"
    BY <2>1, EscapedShape
  <2>3. E \in Seq(S)
    <3>1. "\\" \in S /\ Range(s.chars) \subseteq S
      OBVIOUS
    <3> HIDE DEF S
    <3> QED
      BY <2>1, <3>1, LettersType
  <2>4. P = E
    BY <1>2 DEF Shown
  <2> HIDE DEF E, S
  <2>5. E \in Seq(Range(E))
    <3>1. E = [i \in 1..Len(E) |-> E[i]] /\ DOMAIN E = 1..Len(E)
      BY <2>3
    <3>2. E \in [1..Len(E) -> Range(E)]
      BY <3>1 DEF Range
    <3> QED
      BY <2>2, <3>2, FunctionSeq
  <2>6. Target(E) = Key(E)
    BY <2>2 DEF Target
  <2>7. "/" \in Special
    BY DEF Special
  <2> HIDE DEF P
  <2>8. /\ P \in Seq(Range(P)) /\ Len(P) \in Nat /\ Len(P) >= 1
        /\ \A p \in 1..Len(P) : P[p] = "/" => p > 1 /\ P[p - 1] = "\\"
        /\ s.chars[Len(s.chars)] # "\\" => P[Len(P)] # "\\"
        /\ Target(P) = Key(E)
    BY <2>2, <2>4, <2>5, <2>6, <2>7
  <2> QED
    BY <1>2, <2>8 DEF P, E
<1> QED
  BY <1>1, <1>2 DEF IsStep

---------------------------------------------------------------------------
(* A path as text.                                                         *)

PartsOf(steps) == [i \in DOMAIN steps |-> <<"/">> \o Shown(steps[i])]

Alphabet(steps) == (UNION {Range(Shown(steps[i])) : i \in 1..Len(steps)}) \cup {"/"}

\* What the text of a path is made of.
LEMMA AlphabetHas ==
  ASSUME NEW steps
  PROVE  /\ "/" \in Alphabet(steps)
         /\ \A i \in 1..Len(steps) : Range(Shown(steps[i])) \subseteq Alphabet(steps)
<1> DEFINE R(i) == Range(Shown(steps[i]))
           U == UNION {R(i) : i \in 1..Len(steps)}
<1>1. Alphabet(steps) = U \cup {"/"}
  BY DEF Alphabet
<1> HIDE DEF R
<1>2. \A i \in 1..Len(steps) : R(i) \subseteq U
  OBVIOUS
<1> HIDE DEF U
<1>3. \A i \in 1..Len(steps) : R(i) \subseteq Alphabet(steps)
  BY <1>1, <1>2
<1>4. "/" \in Alphabet(steps)
  BY <1>1
<1> QED
  BY <1>3, <1>4 DEF R

\* The text of a path is put together of a slash and a step, and so on.
LEMMA PartsType ==
  ASSUME NEW steps, IsPath(steps)
  PROVE  /\ Len(steps) \in Nat
         /\ PartsOf(steps) \in Seq(Seq(Alphabet(steps))) /\ Len(PartsOf(steps)) = Len(steps)
         /\ Written(steps) = FlattenSeq(PartsOf(steps))
         /\ Written(steps) \in Seq(Alphabet(steps))
         /\ \A i \in 1..Len(steps) - 1 :
                steps[i].into = "OBJECT" => steps[i].chars[Len(steps[i].chars)] # "\\"
         /\ \A i \in 1..Len(steps) :
                /\ IsStep(steps[i])
                /\ PartsOf(steps)[i] = <<"/">> \o Shown(steps[i])
                /\ Shown(steps[i]) \in Seq(Alphabet(steps))
<1> DEFINE S == Alphabet(steps)
<1>1. Len(steps) \in Nat /\ DOMAIN steps = 1..Len(steps)
  BY DEF IsPath
<1>2. \A i \in 1..Len(steps) : IsStep(steps[i])
  BY <1>1 DEF IsPath, Range
<1>3. ASSUME NEW i \in 1..Len(steps)
      PROVE  Shown(steps[i]) \in Seq(S) /\ <<"/">> \o Shown(steps[i]) \in Seq(S)
  <2> DEFINE P == Shown(steps[i])
  <2>1. P \in Seq(Range(P))
    BY <1>2, ShownShape
  <2>2. Range(P) \subseteq S /\ "/" \in S
    BY AlphabetHas
  <2> HIDE DEF P, S
  <2>3. P \in Seq(S) /\ <<"/">> \in Seq(S)
    BY <2>1, <2>2
  <2>4. <<"/">> \o P \in Seq(S)
    BY <2>3
  <2> QED
    BY <2>3, <2>4 DEF P
<1> HIDE DEF S
<1>4. PartsOf(steps) \in [1..Len(steps) -> Seq(S)]
  BY <1>1, <1>3 DEF PartsOf
<1>5. PartsOf(steps) \in Seq(Seq(S)) /\ Len(PartsOf(steps)) = Len(steps)
  BY <1>1, <1>4, FunctionSeq
<1>6. Written(steps) = FlattenSeq(PartsOf(steps))
  BY DEF Written, PartsOf
<1>7. Written(steps) \in Seq(S)
  BY <1>5, <1>6, FlattenType
<1>8. \A i \in 1..Len(steps) : PartsOf(steps)[i] = <<"/">> \o Shown(steps[i])
  BY <1>1 DEF PartsOf
<1>9. \A i \in 1..Len(steps) - 1 :
         steps[i].into = "OBJECT" => steps[i].chars[Len(steps[i].chars)] # "\\"
  BY DEF IsPath
<1> QED
  BY <1>1, <1>2, <1>3, <1>5, <1>6, <1>7, <1>8, <1>9 DEF S

\* Where the i-th step ends.
EndOf(steps, i) == Upto(PartsOf(steps), i)

\* The last step ends where the text does.
LEMMA EndsOfSteps ==
  ASSUME NEW steps, IsPath(steps)
  PROVE  /\ EndOf(steps, 0) = 0 /\ EndOf(steps, Len(steps)) = Len(Written(steps))
         /\ Len(Written(steps)) \in Nat
         /\ \A i \in 0..Len(steps) : EndOf(steps, i) \in Nat
<1>1. /\ PartsOf(steps) \in Seq(Seq(Alphabet(steps))) /\ Len(PartsOf(steps)) = Len(steps)
      /\ Written(steps) = FlattenSeq(PartsOf(steps)) /\ Written(steps) \in Seq(Alphabet(steps))
  BY PartsType
<1>2. Len(Written(steps)) \in Nat
  BY <1>1
<1> QED
  BY <1>1, <1>2, UptoEnds DEF EndOf

\* The text between the ends of two steps is a slash and what the step says.
LEMMA StepText ==
  ASSUME NEW steps, IsPath(steps), NEW m \in 0..Len(steps) - 1
  PROVE  LET P == Shown(steps[m + 1])
             W == Written(steps)
             u == EndOf(steps, m)
         IN  /\ EndOf(steps, m + 1) = u + 1 + Len(P)
             /\ W[u + 1] = "/" /\ u + 1 \in 1..Len(W)
             /\ \A r \in 1..Len(P) : W[u + 1 + r] = P[r] /\ u + 1 + r \in 1..Len(W)
             /\ SubSeq(W, u + 2, EndOf(steps, m + 1)) = P
<1> DEFINE P == Shown(steps[m + 1])
           W == Written(steps)
           u == EndOf(steps, m)
           S == Alphabet(steps)
           Q == PartsOf(steps)
<1>1. /\ Q \in Seq(Seq(S)) /\ Len(Q) = Len(steps) /\ W = FlattenSeq(Q) /\ W \in Seq(S)
      /\ Len(steps) \in Nat
  BY PartsType
<1>2. m + 1 \in 1..Len(steps) /\ m \in 0..Len(steps) /\ m \in 0..Len(Q) - 1 /\ m + 1 \in 0..Len(steps)
  BY <1>1
<1>3. IsStep(steps[m + 1]) /\ Q[m + 1] = <<"/">> \o P /\ P \in Seq(S) /\ "/" \in S
  <2>1. "/" \in S
    BY AlphabetHas
  <2> QED
    BY <1>2, <2>1, PartsType
<1>4. u \in Nat /\ EndOf(steps, m + 1) = u + Len(Q[m + 1])
  BY <1>1, <1>2, UptoNext DEF EndOf
<1>5. \A r \in 1..Len(Q[m + 1]) : W[u + r] = Q[m + 1][r] /\ u + r \in 1..Len(W)
  BY <1>1, <1>2, ElementOfPart DEF EndOf
<1>11. Len(P) >= 1
  BY <1>3, ShownShape
<1> HIDE DEF P, W, u, S, Q
<1>6. /\ Len(Q[m + 1]) = 1 + Len(P) /\ Len(P) \in Nat /\ Q[m + 1][1] = "/"
      /\ \A r \in 1..Len(P) : Q[m + 1][1 + r] = P[r]
  BY <1>3
<1>7. EndOf(steps, m + 1) = u + 1 + Len(P)
  BY <1>4, <1>6
<1>8. W[u + 1] = "/" /\ u + 1 \in 1..Len(W)
  BY <1>5, <1>6
<1>9. ASSUME NEW r \in 1..Len(P) PROVE W[u + 1 + r] = P[r] /\ u + 1 + r \in 1..Len(W)
  <2>1. 1 + r \in 1..Len(Q[m + 1]) /\ u + (1 + r) = u + 1 + r
    BY <1>4, <1>6
  <2> QED
    BY <1>5, <1>6, <2>1
<1>10. SubSeq(W, u + 2, u + 1 + Len(P)) = P
  <2> DEFINE v == SubSeq(W, u + 2, u + 1 + Len(P))
  <2>0. u + 1 + Len(P) \in 1..Len(W) /\ u + 2 \in 1..Len(W) /\ u + 2 <= u + 1 + Len(P)
    <3>1. Len(P) \in 1..Len(P) /\ 1 \in 1..Len(P)
      BY <1>6, <1>11
    <3>2. u + 1 + 1 = u + 2
      BY <1>4
    <3> QED
      BY <1>4, <1>6, <1>9, <1>11, <3>1, <3>2
  <2>1. v \in Seq(S) /\ Len(v) = Len(P)
    <3> DEFINE e == u + 1 + Len(P)
    <3>1. e \in 1..Len(W) /\ u + 2 \in 1..Len(W) /\ e - (u + 2) + 1 = Len(P) /\ u + 2 <= e
      BY <1>4, <1>6, <2>0
    <3> HIDE DEF e
    <3>2. SubSeq(W, u + 2, e) \in Seq(S) /\ Len(SubSeq(W, u + 2, e)) = e - (u + 2) + 1
      BY <1>1, <3>1
    <3> QED
      BY <3>1, <3>2 DEF e
  <2>2. \A r \in 1..Len(P) : v[r] = W[u + 1 + r]
    BY <1>1, <1>4, <1>6, <1>8, <2>0
  <2> HIDE DEF v
  <2>3. v = [i \in 1..Len(v) |-> v[i]] /\ P = [i \in 1..Len(P) |-> P[i]]
    BY <1>3, <2>1
  <2>4. v = P
    BY <1>9, <2>1, <2>2, <2>3
  <2> QED
    BY <2>4 DEF v
<1> QED
  BY <1>7, <1>8, <1>9, <1>10 DEF P, W, u

(* A step begins after the end of the one before it, and no step begins    *)
(* inside it, whatever slashes its key has.                                *)
LEMMA CutsOfSteps ==
  ASSUME NEW steps, IsPath(steps), NEW m \in 0..Len(steps) - 1
  PROVE  /\ EndOf(steps, m) + 1 \in Cuts(Written(steps))
         /\ \A i \in Cuts(Written(steps)) : i <= EndOf(steps, m + 1) => i <= EndOf(steps, m) + 1
<1> DEFINE P == Shown(steps[m + 1])
           W == Written(steps)
           u == EndOf(steps, m)
<1>1. /\ Len(steps) \in Nat /\ W \in Seq(Alphabet(steps))
      /\ \A i \in 1..Len(steps) : IsStep(steps[i])
  BY PartsType
<1>2. m + 1 \in 1..Len(steps) /\ m \in Nat /\ m \in 0..Len(steps)
  BY <1>1
<1>3. /\ EndOf(steps, m + 1) = u + 1 + Len(P)
      /\ W[u + 1] = "/" /\ u + 1 \in 1..Len(W)
      /\ \A r \in 1..Len(P) : W[u + 1 + r] = P[r] /\ u + 1 + r \in 1..Len(W)
  BY StepText
<1>4. /\ Len(P) \in Nat /\ Len(P) >= 1
      /\ \A p \in 1..Len(P) : P[p] = "/" => p > 1 /\ P[p - 1] = "\\"
  BY <1>1, <1>2, ShownShape
<1>5. u \in Nat /\ DOMAIN W = 1..Len(W)
  <2>1. u \in Nat
    BY <1>2, EndsOfSteps
  <2> HIDE DEF W
  <2> QED
    BY <1>1, <2>1
<1>6. u + 1 = 1 \/ W[u] # "\\"
  <2>1. CASE m = 0
    BY <2>1, EndsOfSteps
  <2>2. CASE m # 0
    <3> DEFINE R == Shown(steps[m])
               w == EndOf(steps, m - 1)
    <3>1. m - 1 \in 0..Len(steps) - 1 /\ (m - 1) + 1 = m /\ m \in 1..Len(steps) /\ m - 1 \in 0..Len(steps)
      BY <1>1, <1>2, <2>2
    <3>2. u = w + 1 + Len(R) /\ \A r \in 1..Len(R) : W[w + 1 + r] = R[r]
      <4>1. /\ EndOf(steps, (m - 1) + 1) = w + 1 + Len(Shown(steps[(m - 1) + 1]))
            /\ \A r \in 1..Len(Shown(steps[(m - 1) + 1])) : W[w + 1 + r] = Shown(steps[(m - 1) + 1])[r]
        BY <3>1, StepText
      <4> QED
        BY <3>1, <4>1
    <3>3. Len(R) \in Nat /\ Len(R) >= 1 /\ R[Len(R)] # "\\"
      <4>1. m \in 1..Len(steps) - 1
        BY <1>1, <3>1
      <4>2. steps[m].into = "OBJECT" => steps[m].chars[Len(steps[m].chars)] # "\\"
        BY <4>1, PartsType
      <4> QED
        BY <1>1, <3>1, <4>2, ShownShape
    <3> HIDE DEF R, w, W, u
    <3>4. Len(R) \in 1..Len(R)
      BY <3>3
    <3> QED
      BY <3>2, <3>3, <3>4
  <2> QED
    BY <2>1, <2>2
<1>7. u + 1 \in Cuts(W)
  <2>1. (u + 1) - 1 = u
    BY <1>5
  <2> HIDE DEF W, u
  <2> QED
    BY <1>3, <1>5, <1>6, <2>1 DEF Cuts
<1>8. ASSUME NEW i \in Cuts(W), i <= EndOf(steps, m + 1) PROVE i <= u + 1
  <2>1. i \in 1..Len(W) /\ W[i] = "/" /\ (i = 1 \/ W[i - 1] # "\\")
    <3> HIDE DEF W
    <3> QED
      BY <1>5 DEF Cuts
  <2> SUFFICES ASSUME ~(i <= u + 1) PROVE FALSE
    OBVIOUS
  <2> DEFINE r == i - u - 1
  <2> HIDE DEF P, W, u
  <2>2. r \in 1..Len(P) /\ u + 1 + r = i
    BY <1>3, <1>4, <1>5, <1>8, <2>1
  <2>3. P[r] = "/"
    BY <1>3, <2>1, <2>2
  <2>4. r > 1 /\ P[r - 1] = "\\"
    BY <1>4, <2>2, <2>3
  <2>5. r - 1 \in 1..Len(P) /\ u + 1 + (r - 1) = i - 1 /\ i # 1
    BY <1>5, <2>1, <2>2, <2>4
  <2> HIDE DEF r
  <2>6. W[i - 1] = "\\"
    BY <1>3, <2>4, <2>5
  <2> QED
    BY <2>1, <2>5, <2>6
<1> QED
  BY <1>7, <1>8 DEF W, u

---------------------------------------------------------------------------
(* One step of a path.                                                     *)

\* What every token of a JSON text is.
LEMMA JsonToken ==
  ASSUME NEW t, IsJson(t), NEW k \in DOMAIN t
  PROVE  /\ t[k].size \in Nat /\ Scalar(t[k])
         /\ k \in AllKeys(t) => Legible(t[k].chars)
BY DEF IsJson, Scalar, Counted

(* A step of _jkii_get_value_by_path arrives at the member the step means. *)
LEMMA DescendIsMember ==
  ASSUME NEW t, IsJson(t), NEW j \in 0..Len(t), NEW s, IsStep(s)
  PROVE  Descend(t, j, Target(Shown(s))) = Member(t, j, s)
<1>0. DOMAIN t = 1..Len(t) /\ Len(t) \in Nat
  BY JsonNests
<1> DEFINE target == Target(Shown(s))
<1>1. /\ s.into = "ARRAY" => target = Index(s.index)
      /\ s.into = "OBJECT" => target = Key(Escaped(s.chars))
  BY ShownShape
<1>2. \/ s.into = "ARRAY" /\ s.index \in Nat
      \/ s.into = "OBJECT" /\ IsText(s.chars)
  BY DEF IsStep
<1> HIDE DEF target
<1>3. target.into = s.into
  BY <1>1, <1>2 DEF Index, Key
<1>4. CASE j = 0 \/ t[j].type # s.into
  BY <1>3, <1>4 DEF Descend, Member, target
<1>5. CASE ~(j = 0 \/ t[j].type # s.into) /\ s.into = "ARRAY"
  <2>1. j \in DOMAIN t /\ j \in Arrays(t)
    BY <1>0, <1>5 DEF Arrays
  <2>2. Cardinality(Children(t, j)) = t[j].size /\ t[j].size \in Nat
    BY <2>1, JsonToken DEF IsJson, Counted
  <2>3. target = Index(s.index) /\ target.index = s.index /\ target.into # "OBJECT" /\ s.index \in Nat
    BY <1>1, <1>2, <1>5 DEF Index
  <2>4. Descend(t, j, target) = IF s.index >= t[j].size THEN 0 ELSE ElementAt(t, j, s.index)
    BY <1>3, <1>5, <2>3 DEF Descend
  <2>5. Member(t, j, s) = IF s.index < Cardinality(Children(t, j)) THEN Nth(Children(t, j), s.index) ELSE 0
    BY <1>5 DEF Member
  <2>6. CASE s.index < t[j].size
    <3>1. ElementAt(t, j, s.index) = Nth(Children(t, j), s.index)
      BY <2>1, <2>2, <2>3, <2>6, ElementFound
    <3>2. ~(s.index >= t[j].size)
      BY <2>2, <2>3, <2>6
    <3> QED
      BY <2>2, <2>4, <2>5, <2>6, <3>1, <3>2 DEF target
  <2>7. CASE ~(s.index < t[j].size)
    <3>1. s.index >= t[j].size
      BY <2>2, <2>3, <2>7
    <3> QED
      BY <2>2, <2>4, <2>5, <2>7, <3>1 DEF target
  <2> QED
    BY <2>6, <2>7
<1>6. CASE ~(j = 0 \/ t[j].type # s.into) /\ s.into = "OBJECT"
  <2> DEFINE C == Children(t, j)
             I == {i \in 0..(t[j].size - 1) : IsSameKey(target.chars, KeyOf(t, j, i))}
             K == {k \in Keys(C) : t[k].chars = s.chars}
  <2>1. j \in DOMAIN t /\ j \in Objects(t) /\ t[j].size \in Nat
    BY <1>0, <1>6, JsonToken DEF Objects
  <2>2. target = Key(Escaped(s.chars)) /\ target.chars = Escaped(s.chars) /\ IsText(s.chars)
    BY <1>1, <1>2, <1>6 DEF Key
  <2>3. \A i \in 0..(t[j].size - 1) : Nth(C, 2 * i) \in Keys(C) /\ Nth(C, 2 * i) \in DOMAIN t
    <3>1. C \subseteq DOMAIN t
      BY ChildrenType, JsonNests
    <3>2. \A i \in 0..(t[j].size - 1) : Nth(C, 2 * i) \in Keys(C)
      BY <2>1, KeyOfIndex
    <3>3. Keys(C) \subseteq C
      BY DEF Keys
    <3> QED
      BY <3>1, <3>2, <3>3
  <2>4. ASSUME NEW i \in 0..(t[j].size - 1) PROVE i \in I <=> Nth(C, 2 * i) \in K
    <3>1. KeyAt(t, j, i) = Nth(C, 2 * i)
      <4>1. i \in Nat /\ i < t[j].size
        BY <2>1
      <4> QED
        BY <2>1, <4>1, KeyFound
    <3>2. KeyOf(t, j, i) = t[Nth(C, 2 * i)].chars
      BY <3>1 DEF KeyOf
    <3>3. Legible(t[Nth(C, 2 * i)].chars)
      <4>1. Nth(C, 2 * i) \in AllKeys(t)
        BY <2>1, <2>3, ValueOfKey
      <4> QED
        BY <2>3, <4>1, JsonToken
    <3>4. IsSameKey(target.chars, KeyOf(t, j, i)) <=> s.chars = t[Nth(C, 2 * i)].chars
      BY <2>2, <3>2, <3>3, SameKey
    <3> QED
      BY <2>3, <3>4
  <2>5. I \subseteq 0..(t[j].size - 1) /\ K \subseteq Keys(C)
    OBVIOUS
  <2>6. Descend(t, j, target) = FirstMember(t, j, I)
    BY <1>3, <1>6 DEF Descend
  <2>7. Member(t, j, s) = IF K = {} THEN 0 ELSE Nth(C, Rank(C, Min(K)) + 1)
    BY <1>6 DEF Member
  <2> HIDE DEF I, K
  <2>8. FirstMember(t, j, I) = IF K = {} THEN 0 ELSE Nth(C, Rank(C, Min(K)) + 1)
    BY <2>1, <2>4, <2>5, FirstFound
  <2> QED
    BY <2>6, <2>7, <2>8 DEF target
<1> QED
  BY <1>2, <1>4, <1>5, <1>6

\* The first key of what is passed member by member is the next token.
LEMMA FirstKey ==
  ASSUME NEW t, NEW j
  PROVE  KeyAt(t, j, 0) = j + 1
<1> DEFINE f == PlaceOf(t, j, 0)
           g == [m \in 0..0 |-> j + 1]
<1>1. g = [m \in 0..0 |-> IF m = 0 THEN j + 1 ELSE g[m - 1] + ContainedTokens(t, g[m - 1] + 1) + 1]
  <2>1. \A m \in 0..0 : m = 0
    OBVIOUS
  <2> QED
    BY <2>1
<1> HIDE DEF g
<1>2. f = [m \in 0..0 |-> IF m = 0 THEN j + 1 ELSE f[m - 1] + ContainedTokens(t, f[m - 1] + 1) + 1]
  BY <1>1 DEF PlaceOf
<1> HIDE DEF f
<1>3. f[0] = j + 1
  <2>1. 0 \in 0..0
    OBVIOUS
  <2> QED
    BY <1>2, <2>1
<1> QED
  BY <1>3 DEF KeyAt, f, PlaceOf

(* jkii_get_value_by_name: the member of an object with a key, and nothing *)
(* in what is no object, an array that begins with a string apart.         *)
LEMMA NamedIsMember ==
  ASSUME NEW t, IsJson(t), ~TakenForObject(t), NEW s, IsStep(s), s.into = "OBJECT"
  PROVE  NamedValue(t, s.chars) = Member(t, 1, s)
<1> DEFINE C == Children(t, 1)
           I == {i \in 0..(t[1].size - 1) :
                   /\ \A l \in 0..i : t[KeyAt(t, 1, l)].type = "STRING"
                   /\ KeyOf(t, 1, i) = s.chars}
           K == {k \in Keys(C) : t[k].chars = s.chars}
<1>0. 1 \in DOMAIN t /\ t[1].size \in Nat
  <2>1. DOMAIN t = 1..Len(t) /\ Len(t) \in Nat /\ Len(t) > 0
    BY JsonNests DEF IsJson
  <2>2. 1 \in DOMAIN t
    BY <2>1
  <2> QED
    BY <2>2, JsonToken
<1>1. CASE t[1].type # "OBJECT"
  <2>1. Member(t, 1, s) = 0
    BY <1>1 DEF Member
  <2>2. CASE t[1].size < 2
    BY <1>1, <2>1, <2>2 DEF NamedValue
  <2>3. CASE ~(t[1].size < 2)
    <3>1. t[2].type # "STRING"
      BY <1>0, <1>1, <2>3 DEF TakenForObject
    <3>2. KeyAt(t, 1, 0) = 2
      <4>1. KeyAt(t, 1, 0) = 1 + 1
        BY FirstKey
      <4> QED
        BY <4>1
    <3>3. \A i \in 0..(t[1].size - 1) : 0 \in 0..i
      BY <1>0
    <3>4. I = {}
      BY <3>1, <3>2, <3>3
    <3>5. NamedValue(t, s.chars) = FirstMember(t, 1, I)
      BY <2>3 DEF NamedValue
    <3> QED
      BY <2>1, <3>4, <3>5 DEF FirstMember
  <2> QED
    BY <2>2, <2>3
<1>2. CASE t[1].type = "OBJECT"
  <2>1. 1 \in Objects(t)
    BY <1>0, <1>2 DEF Objects
  <2>2. \A i \in 0..(t[1].size - 1) : Nth(C, 2 * i) \in Keys(C)
    BY <2>1, KeyOfIndex
  <2>3. ASSUME NEW i \in 0..(t[1].size - 1)
        PROVE  KeyAt(t, 1, i) = Nth(C, 2 * i) /\ t[Nth(C, 2 * i)].type = "STRING"
    <3>1. i \in Nat /\ i < t[1].size
      BY <1>0
    <3>2. KeyAt(t, 1, i) = Nth(C, 2 * i)
      BY <2>1, <3>1, KeyFound
    <3>3. Nth(C, 2 * i) \in AllKeys(t)
      BY <2>1, <2>2 DEF AllKeys
    <3>4. t[Nth(C, 2 * i)].type = "STRING"
      BY <3>3 DEF IsJson, Counted
    <3> QED
      BY <3>2, <3>4
  <2>4. ASSUME NEW i \in 0..(t[1].size - 1) PROVE i \in I <=> Nth(C, 2 * i) \in K
    <3>1. \A l \in 0..i : l \in 0..(t[1].size - 1)
      BY <1>0
    <3>2. \A l \in 0..i : t[KeyAt(t, 1, l)].type = "STRING"
      BY <2>3, <3>1
    <3>3. KeyOf(t, 1, i) = t[Nth(C, 2 * i)].chars
      BY <2>3 DEF KeyOf
    <3> QED
      BY <2>2, <3>2, <3>3
  <2>5. I \subseteq 0..(t[1].size - 1) /\ K \subseteq Keys(C)
    OBVIOUS
  <2>6. NamedValue(t, s.chars) = FirstMember(t, 1, I)
    BY <1>2 DEF NamedValue
  <2>7. Member(t, 1, s) = IF K = {} THEN 0 ELSE Nth(C, Rank(C, Min(K)) + 1)
    BY <1>2 DEF Member
  <2> HIDE DEF I, K
  <2>8. FirstMember(t, 1, I) = IF K = {} THEN 0 ELSE Nth(C, Rank(C, Min(K)) + 1)
    <3>1. PICK j : j = 1
      OBVIOUS
    <3>2. /\ j \in Objects(t) /\ I \subseteq 0..(t[j].size - 1) /\ K \subseteq Keys(Children(t, j))
          /\ \A i \in 0..(t[j].size - 1) : i \in I <=> Nth(Children(t, j), 2 * i) \in K
      BY <2>1, <2>4, <2>5, <3>1
    <3>3. FirstMember(t, j, I) =
              IF K = {} THEN 0 ELSE Nth(Children(t, j), Rank(Children(t, j), Min(K)) + 1)
      BY <3>2, FirstFound
    <3> QED
      BY <3>1, <3>3
  <2> QED
    BY <2>6, <2>7, <2>8
<1> QED
  BY <1>1, <1>2

---------------------------------------------------------------------------
(* All steps of a path.                                                    *)

MeantOf(t, steps) ==
    CHOOSE to : to = [n \in 0..Len(steps) |-> IF n = 0 THEN 1 ELSE Member(t, to[n - 1], steps[n])]

\* The walk over the places of a text is defined.
LEMMA MeantDefined ==
  ASSUME NEW t, IsJson(t), NEW steps, IsPath(steps)
  PROVE  /\ MeantOf(t, steps) \in [0..Len(steps) -> 0..Len(t)]
         /\ MeantOf(t, steps) = [n \in 0..Len(steps) |->
                IF n = 0 THEN 1 ELSE Member(t, MeantOf(t, steps)[n - 1], steps[n])]
<1> DEFINE N == Len(steps)
           Goes(g, n) == g = [i \in 0..n |-> IF i = 0 THEN 1 ELSE Member(t, g[i - 1], steps[i])]
           K == {n \in Nat : n <= N => \E g \in [0..n -> 0..Len(t)] : Goes(g, n)}
<1>0. N \in Nat /\ 1 \in 0..Len(t) /\ \A i \in 1..N : IsStep(steps[i])
  <2>1. Len(t) \in Nat /\ Len(t) > 0
    BY JsonNests DEF IsJson
  <2> QED
    BY <2>1, PartsType
<1> HIDE DEF N
<1>1. 0 \in K
  <2> DEFINE g == [i \in 0..0 |-> 1]
  <2>1. g \in [0..0 -> 0..Len(t)]
    BY <1>0
  <2>2. Goes(g, 0)
    <3>1. \A i \in 0..0 : i = 0
      OBVIOUS
    <3> QED
      BY <3>1
  <2> QED
    BY <2>1, <2>2
<1>2. ASSUME NEW n \in Nat, n \in K PROVE n + 1 \in K
  <2> HIDE DEF Goes
  <2> SUFFICES ASSUME n + 1 <= N PROVE \E g \in [0..n + 1 -> 0..Len(t)] : Goes(g, n + 1)
    OBVIOUS
  <2>1. n <= N /\ n + 1 \in 1..N
    BY <1>0
  <2>2. PICK h \in [0..n -> 0..Len(t)] : Goes(h, n)
    BY <1>2, <2>1
  <2> DEFINE e == Member(t, h[n], steps[n + 1])
             g == [i \in 0..n + 1 |-> IF i <= n THEN h[i] ELSE e]
  <2>3. e \in 0..Len(t)
    <3>1. h[n] \in 0..Len(t) /\ IsStep(steps[n + 1])
      BY <1>0, <2>1
    <3> QED
      BY <3>1, MemberType
  <2>4. \A i \in 0..n : h[i] = IF i = 0 THEN 1 ELSE Member(t, h[i - 1], steps[i])
    BY <2>2 DEF Goes
  <2> HIDE DEF K, e
  <2>5. g \in [0..n + 1 -> 0..Len(t)]
    <3>1. \A i \in 0..n + 1 : i <= n => i \in 0..n
      OBVIOUS
    <3> QED
      BY <2>3, <3>1
  <2>6. (\A i \in 0..n : g[i] = h[i]) /\ g[n + 1] = e
    OBVIOUS
  <2>7. g = [i \in 0..n + 1 |-> g[i]]
    OBVIOUS
  <2> HIDE DEF g
  <2>8. ASSUME NEW i \in 0..n + 1 PROVE g[i] = IF i = 0 THEN 1 ELSE Member(t, g[i - 1], steps[i])
    <3>1. CASE i \in 0..n
      <4>1. i # 0 => i - 1 \in 0..n
        BY <3>1
      <4> QED
        BY <2>4, <2>6, <3>1, <4>1
    <3>2. CASE i = n + 1
      <4>1. i # 0 /\ i - 1 = n /\ n \in 0..n
        BY <3>2
      <4> QED
        BY <2>6, <3>2, <4>1 DEF e
    <3> QED
      BY <3>1, <3>2
  <2>9. g = [i \in 0..n + 1 |-> IF i = 0 THEN 1 ELSE Member(t, g[i - 1], steps[i])]
    BY <2>7, <2>8
  <2> QED
    BY <2>5, <2>9 DEF Goes
<1> HIDE DEF K
<1>3. Nat \subseteq K
  BY <1>1, <1>2, SetInduction
<1>4. \E g \in [0..N -> 0..Len(t)] : Goes(g, N)
  <2>1. N <= N /\ N \in K
    BY <1>0, <1>3
  <2> QED
    BY <1>0, <2>1 DEF K
<1> DEFINE f == MeantOf(t, steps)
<1>5. f = [i \in 0..N |-> IF i = 0 THEN 1 ELSE Member(t, f[i - 1], steps[i])]
  BY <1>4 DEF MeantOf, N
<1> HIDE DEF f, Goes
<1>6. f \in [0..N -> 0..Len(t)]
  <2> DEFINE X == {i \in Nat : i <= N => f[i] \in 0..Len(t)}
  <2>1. 0 \in X
    BY <1>0, <1>5
  <2>2. ASSUME NEW i \in Nat, i \in X PROVE i + 1 \in X
    <3> SUFFICES ASSUME i + 1 <= N PROVE f[i + 1] \in 0..Len(t)
      OBVIOUS
    <3>1. i + 1 \in 0..N /\ i + 1 # 0 /\ (i + 1) - 1 = i /\ i <= N /\ IsStep(steps[i + 1])
      BY <1>0
    <3>2. f[i + 1] = Member(t, f[i], steps[i + 1])
      BY <1>5, <3>1
    <3>3. f[i] \in 0..Len(t)
      BY <2>2, <3>1
    <3> QED
      BY <3>1, <3>2, <3>3, MemberType
  <2> HIDE DEF X
  <2>3. Nat \subseteq X
    BY <2>1, <2>2, SetInduction
  <2>4. \A i \in 0..N : f[i] \in 0..Len(t)
    BY <1>0, <2>3 DEF X
  <2>5. f = [i \in 0..N |-> f[i]]
    BY <1>5
  <2> QED
    BY <2>4, <2>5
<1> QED
  BY <1>5, <1>6 DEF f, N

StartOf(path, q) == Max({i \in Cuts(path) : i <= q})

\* A step ends after it begins.
LEMMA StartType ==
  ASSUME NEW path, DOMAIN path = 1..Len(path), Len(path) \in Nat, 1 \in Cuts(path),
         NEW q \in 1..Len(path)
  PROVE  StartOf(path, q) - 1 \in 0..q - 1
<1> DEFINE S == {i \in Cuts(path) : i <= q}
           D == {d \in 0..q : q - d \in S}
<1>0. \A i \in S : i \in 1..q
  BY DEF Cuts
<1>1. 1 \in S /\ q - 1 \in D /\ D \subseteq Nat
  <2>1. 1 \in S
    OBVIOUS
  <2>2. q - 1 \in 0..q /\ q - (q - 1) = 1
    OBVIOUS
  <2> QED
    BY <2>1, <2>2
<1>2. PICK d \in D : \A e \in D : d <= e
  BY <1>1, LeastNumber
<1>3. q - d \in S /\ d \in 0..q
  BY <1>2
<1>4. ASSUME NEW i \in S PROVE q - d >= i
  <2>1. i \in 1..q /\ q - i \in 0..q /\ q - (q - i) = i
    BY <1>0
  <2>2. q - i \in D
    BY <2>1
  <2>3. d <= q - i
    BY <1>2, <2>2
  <2> QED
    BY <1>3, <2>1, <2>3
<1> HIDE DEF S, D
<1>5. Max(S) \in S
  BY <1>3, <1>4 DEF Max
<1>6. Max(S) \in 1..q
  BY <1>0, <1>5
<1>7. StartOf(path, q) = Max(S)
  BY DEF StartOf, S
<1> QED
  BY <1>6, <1>7

WalkOf(t, path) ==
    CHOOSE to : to = [q \in 0..Len(path) |->
        IF q = 0 THEN 1
        ELSE Descend(t, to[StartOf(path, q) - 1], Target(SubSeq(path, StartOf(path, q) + 1, q)))]

\* The walk over a path is defined.
LEMMA WalkDefined ==
  ASSUME NEW t, NEW path, DOMAIN path = 1..Len(path), Len(path) \in Nat, 1 \in Cuts(path)
  PROVE  WalkOf(t, path) = [q \in 0..Len(path) |->
             IF q = 0 THEN 1
             ELSE Descend(t, WalkOf(t, path)[StartOf(path, q) - 1],
                          Target(SubSeq(path, StartOf(path, q) + 1, q)))]
<1> DEFINE N == Len(path)
           Step(j, q) == Descend(t, j, Target(SubSeq(path, StartOf(path, q) + 1, q)))
           Goes(g, n) == g = [q \in 0..n |-> IF q = 0 THEN 1 ELSE Step(g[StartOf(path, q) - 1], q)]
           K == {n \in Nat : n <= N => \E g : Goes(g, n)}
<1>0. \A q \in 1..N : StartOf(path, q) - 1 \in 0..q - 1
  BY StartType
<1> HIDE DEF N, Step
<1>1. 0 \in K
  <2> DEFINE g == [i \in 0..0 |-> 1]
  <2>1. \A i \in 0..0 : i = 0
    OBVIOUS
  <2>2. Goes(g, 0)
    BY <2>1
  <2> QED
    BY <2>2
<1>2. ASSUME NEW n \in Nat, n \in K PROVE n + 1 \in K
  <2> SUFFICES ASSUME n + 1 <= N PROVE \E g : Goes(g, n + 1)
    OBVIOUS
  <2>1. n <= N /\ \A q \in 1..n + 1 : StartOf(path, q) - 1 \in 0..q - 1
    BY <1>0 DEF N
  <2>2. PICK h : Goes(h, n)
    BY <1>2, <2>1
  <2> DEFINE e == Step(h[StartOf(path, n + 1) - 1], n + 1)
             g == [i \in 0..n + 1 |-> IF i <= n THEN h[i] ELSE e]
  <2>3. \A q \in 0..n : h[q] = IF q = 0 THEN 1 ELSE Step(h[StartOf(path, q) - 1], q)
    BY <2>2
  <2> HIDE DEF Goes, K, e
  <2>4. (\A i \in 0..n : g[i] = h[i]) /\ g[n + 1] = e
    OBVIOUS
  <2>5. g = [i \in 0..n + 1 |-> g[i]]
    OBVIOUS
  <2> HIDE DEF g
  <2>6. ASSUME NEW q \in 0..n + 1
        PROVE  g[q] = IF q = 0 THEN 1 ELSE Step(g[StartOf(path, q) - 1], q)
    <3> DEFINE b == StartOf(path, q) - 1
    <3>1. q # 0 => b \in 0..n
      <4>1. q # 0 => b \in 0..q - 1
        BY <2>1
      <4> HIDE DEF b
      <4> QED
        BY <4>1
    <3>2. q # 0 => g[b] = h[b]
      BY <2>4, <3>1
    <3>3. CASE q \in 0..n
      BY <2>3, <2>4, <3>2, <3>3
    <3>4. CASE q = n + 1
      <4>1. q # 0
        BY <3>4
      <4> QED
        BY <2>4, <3>2, <3>4, <4>1 DEF e
    <3> QED
      BY <3>3, <3>4
  <2>7. g = [q \in 0..n + 1 |-> IF q = 0 THEN 1 ELSE Step(g[StartOf(path, q) - 1], q)]
    BY <2>5, <2>6
  <2> QED
    BY <2>7 DEF Goes
<1> HIDE DEF K
<1>3. Nat \subseteq K
  BY <1>1, <1>2, SetInduction
<1>4. \E g : Goes(g, N)
  <2>1. N \in Nat /\ N <= N
    BY DEF N
  <2> QED
    BY <1>3, <2>1 DEF K
<1>5. WalkOf(t, path) = CHOOSE g : Goes(g, N)
  BY DEF WalkOf, N, Step
<1>6. Goes(WalkOf(t, path), N)
  BY <1>4, <1>5
<1> QED
  BY <1>6 DEF N, Step

(* A path is walked step by step: what is between two slashes without a    *)
(* backslash is one step, and it arrives where the steps lead.             *)
THEOREM PathFound ==
  ASSUME NEW t, IsJson(t), NEW steps, IsPath(steps)
  PROVE  ValueByPath(t, Written(steps)) = Meant(t, steps)
<1> DEFINE W == Written(steps)
           N == Len(steps)
           f == WalkOf(t, W)
           g == MeantOf(t, steps)
           e(n) == EndOf(steps, n)
<1>1. /\ N \in Nat /\ N > 0 /\ W \in Seq(Alphabet(steps))
      /\ \A i \in 1..N : IsStep(steps[i])
  BY PartsType DEF IsPath
<1>2. e(0) = 0 /\ e(N) = Len(W) /\ Len(W) \in Nat /\ \A i \in 0..N : e(i) \in Nat
  BY EndsOfSteps
<1>3. DOMAIN W = 1..Len(W)
  <2> HIDE DEF W
  <2> QED
    BY <1>1
<1>4. \A m \in 0..N - 1 : /\ e(m) + 1 \in Cuts(W)
                          /\ \A i \in Cuts(W) : i <= e(m + 1) => i <= e(m) + 1
  BY CutsOfSteps
<1>5. \A m \in 0..N - 1 : /\ e(m + 1) = e(m) + 1 + Len(Shown(steps[m + 1]))
                          /\ SubSeq(W, e(m) + 2, e(m + 1)) = Shown(steps[m + 1])
                          /\ e(m) + 1 \in 1..Len(W)
                          /\ \A r \in 1..Len(Shown(steps[m + 1])) : e(m) + 1 + r \in 1..Len(W)
  BY StepText
<1>6. 1 \in Cuts(W)
  <2>1. 0 \in 0..N - 1 /\ 0 + 1 = 1
    BY <1>1
  <2>2. e(0) + 1 = 1
    BY <1>2
  <2> QED
    BY <1>4, <2>1, <2>2
<1>7. f = [q \in 0..Len(W) |->
             IF q = 0 THEN 1
             ELSE Descend(t, f[StartOf(W, q) - 1], Target(SubSeq(W, StartOf(W, q) + 1, q)))]
  BY <1>2, <1>3, <1>6, WalkDefined
<1>8. /\ g \in [0..N -> 0..Len(t)]
      /\ g = [n \in 0..N |-> IF n = 0 THEN 1 ELSE Member(t, g[n - 1], steps[n])]
  BY MeantDefined
<1>9. ValueByPath(t, W) = f[Len(W)]
  BY DEF ValueByPath, WalkOf, StartOf
<1>10. Meant(t, steps) = g[N]
  BY DEF Meant, MeantOf
<1> DEFINE X == {n \in Nat : n <= N => f[e(n)] = g[n]}
<1> HIDE DEF W, N, f, g, e
<1>11. 0 \in X
  <2>1. 0 \in 0..Len(W) /\ 0 \in 0..N
    BY <1>1, <1>2
  <2>2. f[0] = 1 /\ g[0] = 1
    BY <1>7, <1>8, <2>1
  <2> QED
    BY <1>2, <2>2
<1>12. ASSUME NEW n \in Nat, n \in X PROVE n + 1 \in X
  <2> SUFFICES ASSUME n + 1 <= N PROVE f[e(n + 1)] = g[n + 1]
    OBVIOUS
  <2>1. /\ n <= N /\ n \in 0..N - 1 /\ n + 1 \in 1..N /\ n + 1 \in 0..N /\ n \in 0..N
        /\ n + 1 # 0 /\ (n + 1) - 1 = n
    BY <1>1
  <2> DEFINE P == Shown(steps[n + 1])
             q == e(n + 1)
  <2>2. Len(P) \in Nat /\ Len(P) >= 1 /\ IsStep(steps[n + 1])
    BY <1>1, <2>1, ShownShape
  <2>3. /\ q = e(n) + 1 + Len(P) /\ SubSeq(W, e(n) + 2, q) = P /\ e(n) \in Nat /\ e(n) + 1 + Len(P) \in 1..Len(W)
    <3>1. Len(P) \in 1..Len(P)
      BY <2>2
    <3> QED
      BY <1>2, <1>5, <2>1, <3>1
  <2>4. StartOf(W, q) = e(n) + 1
    <3> DEFINE S == {i \in Cuts(W) : i <= q}
    <3>1. e(n) + 1 <= q
      BY <2>2, <2>3
    <3>2. e(n) + 1 \in S
      BY <1>4, <2>1, <3>1
    <3>3. \A i \in S : i \in Int /\ i <= e(n) + 1
      <4>1. \A i \in Cuts(W) : i \in Int
        BY <1>3 DEF Cuts
      <4> QED
        BY <1>4, <2>1, <4>1
    <3>4. \A i \in S : e(n) + 1 >= i
      BY <2>3, <3>3
    <3> HIDE DEF S
    <3>5. Max(S) \in S /\ \A i \in S : Max(S) >= i
      BY <3>2, <3>4 DEF Max
    <3>6. Max(S) = e(n) + 1
      BY <2>3, <3>2, <3>3, <3>5
    <3> QED
      BY <3>6 DEF StartOf, S
  <2>5. q \in 0..Len(W) /\ q # 0 /\ StartOf(W, q) - 1 = e(n) /\ StartOf(W, q) + 1 = e(n) + 2
    <3>1. q \in 1..Len(W)
      BY <2>3
    <3>2. q \in 0..Len(W) /\ q # 0
      BY <1>2, <3>1
    <3>3. \A x \in Nat : (x + 1) - 1 = x /\ (x + 1) + 1 = x + 2
      OBVIOUS
    <3> QED
      BY <2>3, <2>4, <3>2, <3>3
  <2>6. f[q] = Descend(t, f[StartOf(W, q) - 1], Target(SubSeq(W, StartOf(W, q) + 1, q)))
    BY <1>7, <2>5
  <2>7. f[q] = Descend(t, f[e(n)], Target(P))
    BY <2>3, <2>5, <2>6
  <2>8. f[e(n)] = g[n]
    BY <1>12, <2>1
  <2>9. g[n] \in 0..Len(t)
    BY <1>8, <2>1
  <2>10. Descend(t, g[n], Target(P)) = Member(t, g[n], steps[n + 1])
    BY <2>2, <2>9, DescendIsMember
  <2>11. g[n + 1] = Member(t, g[n], steps[n + 1])
    BY <1>8, <2>1
  <2> QED
    BY <2>7, <2>8, <2>10, <2>11
<1> HIDE DEF X
<1>13. Nat \subseteq X
  BY <1>11, <1>12, SetInduction
<1>14. f[e(N)] = g[N]
  <2>1. N <= N
    BY <1>1
  <2> QED
    BY <1>1, <1>13, <2>1 DEF X
<1> QED
  BY <1>2, <1>9, <1>10, <1>14 DEF W

---------------------------------------------------------------------------
(* Finding the value of a field.                                           *)

(* Whatever a field asks for, by name or by path, the look-up arrives at   *)
(* the value that is meant, or finds that there is none.                   *)
LEMMA ValueFound ==
  ASSUME NEW t, IsJson(t), NEW f, IsField(f),
         f.by = "name" => ~TakenForObject(t) /\ Len(f.steps) = 1
  PROVE  ValueOf(t, f) = Meant(t, f.steps) /\ Meant(t, f.steps) \in 0..Len(t)
<1>1. IsPath(f.steps) /\ f.by \in {"name", "path"}
  BY DEF IsField
<1> DEFINE g == MeantOf(t, f.steps)
           N == Len(f.steps)
<1>2. N \in Nat /\ N > 0 /\ \A i \in 1..N : IsStep(f.steps[i])
  BY <1>1, PartsType DEF IsPath
<1>3. g \in [0..N -> 0..Len(t)] /\ Meant(t, f.steps) = g[N]
  BY <1>1, MeantDefined DEF Meant, MeantOf
<1>4. g = [n \in 0..N |-> IF n = 0 THEN 1 ELSE Member(t, g[n - 1], f.steps[n])]
  BY <1>1, MeantDefined
<1> HIDE DEF g, N
<1>5. Meant(t, f.steps) \in 0..Len(t)
  BY <1>2, <1>3
<1>6. CASE f.by = "path"
  BY <1>1, <1>5, <1>6, PathFound DEF ValueOf
<1>7. CASE f.by = "name"
  <2> DEFINE s == f.steps[1]
  <2>1. N = 1 /\ ~TakenForObject(t) /\ s.into = "OBJECT"
    BY <1>7 DEF IsField, N
  <2>2. IsStep(s)
    BY <1>2, <2>1
  <2>3. 0 \in 0..N /\ 1 \in 0..N /\ 1 # 0 /\ 1 - 1 = 0
    BY <2>1
  <2>4. g[0] = 1 /\ g[1] = Member(t, g[0], s)
    BY <1>4, <2>3
  <2>5. Meant(t, f.steps) = Member(t, 1, s)
    BY <1>3, <2>1, <2>4
  <2>6. ValueOf(t, f) = NamedValue(t, s.chars)
    BY <1>7 DEF ValueOf
  <2> HIDE DEF s
  <2>7. NamedValue(t, s.chars) = Member(t, 1, s)
    BY <2>1, <2>2, NamedIsMember
  <2> QED
    BY <1>5, <2>5, <2>6, <2>7
<1> QED
  BY <1>1, <1>6, <1>7

---------------------------------------------------------------------------
(* Answers are those to the fields of the call.                            *)

FoundInv ==
    /\ pc # "idle" => call \in Calls
    /\ pc = "idle" => answers = <<>>
    /\ pc = "fields" => call.lex = "ok"
    /\ \A i \in DOMAIN answers :
           /\ i < at => /\ call.lex = "ok"
                        /\ answers[i] = AnswerTo(call.text, call.fields[i], call.long).field
           /\ answers[i].result # "none" => i < at

(* Every answer is that of AnswerTo to the field at its place, and fields  *)
(* are answered only for texts jsmn made tokens of.                        *)
THEOREM FoundInductive == Spec => []FoundInv
<1>1. Init => FoundInv
  BY DEF Init, FoundInv
<1>2. FoundInv /\ VerdictInv /\ VerdictInv' /\ [Next]_vars => FoundInv'
  <2> SUFFICES ASSUME FoundInv, VerdictInv, VerdictInv', [Next]_vars PROVE FoundInv'
    OBVIOUS
  <2>0. /\ at \in Nat /\ DOMAIN answers = DOMAIN call.fields
        /\ DOMAIN call.fields = 1..Len(call.fields) /\ Len(call.fields) \in Nat
        /\ pc \in Before => at = 1
    BY DEF VerdictInv
  <2>1. CASE Call
    <3>1. /\ call' \in Calls /\ pc' \in {"tokens", "count"} /\ at' = at /\ pc = "idle"
          /\ answers' = [i \in DOMAIN call'.fields |-> Unanswered(call'.fields[i])]
      BY <2>1 DEF Call
    <3>2. \A i \in DOMAIN answers' : answers'[i].result = "none"
      BY <3>1 DEF Unanswered
    <3>3. at' = 1 /\ DOMAIN answers' = 1..Len(call'.fields) /\ Len(call'.fields) \in Nat
      BY <2>0, <3>1 DEF VerdictInv, Before
    <3>4. \A i \in DOMAIN answers' : ~(i < at')
      BY <3>3
    <3>5. pc' # "idle" /\ pc' # "fields"
      BY <3>1
    <3> QED
      BY <3>1, <3>2, <3>4, <3>5 DEF FoundInv
  <2>2. CASE Count
    BY <2>2 DEF Count, FoundInv
  <2>3. CASE CountFails
    BY <2>3 DEF CountFails, FoundInv
  <2>4. CASE Alloc
    BY <2>4 DEF Alloc, FoundInv
  <2>5. CASE AllocFails
    BY <2>5 DEF AllocFails, FoundInv
  <2>6. CASE Tokenize
    BY <2>6 DEF Tokenize, FoundInv
  <2>7. CASE TokenizeFails
    <3>1. pc' = "returned" /\ pc = "tokens" /\ UNCHANGED <<call, at, answers>>
      BY <2>7 DEF TokenizeFails, Return
    <3> QED
      BY <3>1 DEF FoundInv
  <2>8. CASE Field
    <3> DEFINE a == AnswerTo(call.text, call.fields[at], call.long)
    <3>1. /\ pc = "fields" /\ pc' \in {"fields", "returned"} /\ call' = call /\ at' = at + 1
          /\ answers' = [answers EXCEPT ![at] = a.field]
      BY <2>8 DEF Field, Return
    <3>2. call \in Calls /\ call.lex = "ok" /\ DOMAIN answers' = DOMAIN answers
      BY <3>1 DEF FoundInv
    <3> HIDE DEF a
    <3>3. ASSUME NEW i \in DOMAIN answers'
          PROVE  /\ i < at' => answers'[i] = AnswerTo(call.text, call.fields[i], call.long).field
                 /\ answers'[i].result # "none" => i < at'
      <4>0. i \in Nat /\ i \in DOMAIN answers
        BY <2>0, <3>2
      <4>1. CASE i = at
        BY <2>0, <3>1, <3>2, <4>1 DEF a
      <4>2. CASE i # at
        <5>1. answers'[i] = answers[i] /\ (i < at' <=> i < at)
          BY <2>0, <3>1, <4>0, <4>2
        <5> QED
          BY <4>0, <5>1 DEF FoundInv
      <4> QED
        BY <4>1, <4>2
    <3>4. pc' # "idle" /\ pc # "idle"
      BY <3>1
    <3> QED
      BY <3>1, <3>2, <3>3, <3>4 DEF FoundInv
  <2>9. CASE Finish
    <3>1. pc' = "returned" /\ pc = "fields" /\ UNCHANGED <<call, at, answers>>
      BY <2>9 DEF Finish, Return
    <3> QED
      BY <3>1 DEF FoundInv
  <2>10. CASE UNCHANGED vars
    BY <2>10 DEF vars, FoundInv
  <2> QED
    BY <2>1, <2>2, <2>3, <2>4, <2>5, <2>6, <2>7, <2>8, <2>9, <2>10 DEF Next
<1> QED
  BY <1>1, <1>2, VerdictInductive, PTL DEF Spec

\* An answer is about a JSON text and a field.
LEMMA AnsweredField ==
  ASSUME FoundInv, VerdictInv, NEW i \in DOMAIN answers, i < at
  PROVE  /\ IsJson(call.text) /\ IsField(call.fields[i])
         /\ answers[i] = AnswerTo(call.text, call.fields[i], call.long).field
         /\ call.long \in Nat /\ IntMax <= call.long
         /\ ValueOf(call.text, call.fields[i]) = Meant(call.text, call.fields[i].steps)
         /\ Meant(call.text, call.fields[i].steps) \in 0..Len(call.text)
<1> DEFINE f == call.fields[i]
<1>1. pc # "idle"
  BY DEF FoundInv
<1>2. call \in Calls /\ call.lex = "ok" /\ answers[i] = AnswerTo(call.text, f, call.long).field
  BY <1>1 DEF FoundInv
<1>3. i \in DOMAIN call.fields
  BY DEF VerdictInv
<1>4. f \in Range(call.fields)
  BY <1>3 DEF Range
<1>5. IsJson(call.text)
  <2>1. call.text \in {c.text : c \in {d \in Calls : d.lex = "ok"}}
    BY <1>2
  <2> QED
    BY <2>1, TextsAssumption
<1>6. IsField(f)
  <2> DEFINE R(c) == Range(c.fields)
  <2>1. f \in R(call)
    BY <1>4
  <2> HIDE DEF R, f
  <2>2. f \in UNION {R(c) : c \in Calls}
    BY <1>2, <2>1
  <2> QED
    BY <2>2, TextsAssumption DEF R
<1>7. f.by = "name" => ~TakenForObject(call.text) /\ Len(f.steps) = 1
  BY <1>2, <1>4, JkiiAssumption
<1> HIDE DEF f
<1>8. ValueOf(call.text, f) = Meant(call.text, f.steps) /\ Meant(call.text, f.steps) \in 0..Len(call.text)
  BY <1>5, <1>6, <1>7, ValueFound
<1>9. call.long \in Nat /\ IntMax <= call.long
  BY <1>2, JkiiAssumption
<1> QED
  BY <1>2, <1>5, <1>6, <1>8, <1>9 DEF f

(* Every value a call reports is the one the name or the path means: the   *)
(* walk of jkii_get_value_by_path over the numbers of members never takes  *)
(* a value for another, however the text nests, whatever keys the path has *)
(* and whatever legible keys the text has.                                 *)
THEOREM FieldsAlwaysFound == Spec => []FieldsFound
<1>1. FoundInv /\ VerdictInv => FieldsFound
  <2> SUFFICES ASSUME FoundInv, VerdictInv, NEW i \in DOMAIN answers, answers[i].result # "none"
               PROVE  answers[i].value = Meant(call.text, call.fields[i].steps)
    BY DEF FieldsFound
  <2> DEFINE f == call.fields[i]
  <2>0. i < at
    BY DEF FoundInv
  <2>1. answers[i] = AnswerTo(call.text, f, call.long).field /\ ValueOf(call.text, f) = Meant(call.text, f.steps)
    BY <2>0, AnsweredField
  <2> HIDE DEF f
  <2>2. answers[i].value = ValueOf(call.text, f)
    BY <2>1 DEF AnswerTo
  <2> QED
    BY <2>1, <2>2 DEF f
<1> QED
  BY <1>1, FoundInductive, VerdictInductive, PTL

---------------------------------------------------------------------------
(* What a value is told to be.                                             *)

\* A number in a range is hardly longer than the bounds of the range.
LEMMA WidthOfRange ==
  ASSUME NEW M \in Nat, NEW n \in (-M - 1)..M
  PROVE  Width(n) \in Nat /\ Width(M) \in Nat /\ Width(M) >= 1 /\ Width(n) <= Width(M) + 2
<1>1. ~(M < 0) /\ Width(M) = Len(Decimal[M]) /\ Len(Decimal[M]) \in Nat /\ Len(Decimal[M]) >= 1
  BY DecimalLength DEF Width
<1>2. CASE n >= 0
  <2>1. n \in Nat /\ n <= M /\ ~(n < 0)
    BY <1>2
  <2>2. Width(n) = Len(Decimal[n]) /\ Len(Decimal[n]) \in Nat
    BY <2>1, DecimalLength DEF Width
  <2>3. Len(Decimal[n]) <= Len(Decimal[M])
    BY <2>1, DecimalGrows
  <2>4. Width(n) \in Nat /\ Width(M) \in Nat /\ Width(n) <= Width(M)
    BY <1>1, <2>2, <2>3
  <2> QED
    BY <1>1, <2>4
<1>3. CASE n < 0
  <2>1. -n \in Nat /\ M + 1 \in Nat /\ -n <= M + 1
    BY <1>3
  <2>2. Width(n) = 1 + Len(Decimal[-n])
    BY <1>3 DEF Width
  <2>3. Len(Decimal[-n]) \in Nat /\ Len(Decimal[M + 1]) \in Nat
    BY <2>1, DecimalLength
  <2>4. Len(Decimal[-n]) <= Len(Decimal[M + 1])
    BY <2>1, DecimalGrows
  <2>5. Len(Decimal[M + 1]) <= Len(Decimal[M]) + 1
    BY DecimalOfNext
  <2>6. \A x, y, z \in Nat : x <= y /\ y <= z + 1 => 1 + x \in Nat /\ 1 + x <= z + 2
    OBVIOUS
  <2>7. 1 + Len(Decimal[-n]) \in Nat /\ 1 + Len(Decimal[-n]) <= Len(Decimal[M]) + 2
    BY <1>1, <2>3, <2>4, <2>5, <2>6
  <2> QED
    BY <1>1, <2>2, <2>7
<1> QED
  BY <1>2, <1>3

\* Every int has room in the buffer of an int, every long in that of a long.
LEMMA BufferSizes ==
  ASSUME NEW long \in Nat, IntMax <= long
  PROVE  /\ IntBufSize \in Nat /\ LongBufSize(long) \in Nat /\ DoubleBufSize \in Nat
         /\ IntBufSize >= 3 /\ IntBufSize < LongBufSize(long)
         /\ \A n \in Ints : Width(n) <= IntBufSize
         /\ \A n \in Longs(long) : Width(n) <= LongBufSize(long)
<1>1. IntMax \in Nat /\ long \in Nat /\ DblMax \in Nat /\ IntMax <= long
  BY JkiiAssumption
<1>2. 0 \in (-IntMax - 1)..IntMax /\ 0 \in (-long - 1)..long /\ 0 \in (-DblMax - 1)..DblMax
  BY <1>1
<1>3. /\ Width(IntMax) \in Nat /\ Width(IntMax) >= 1
      /\ \A n \in (-IntMax - 1)..IntMax : Width(n) <= Width(IntMax) + 2
  BY <1>1, <1>2, WidthOfRange
<1>4. /\ Width(long) \in Nat /\ Width(long) >= 1
      /\ \A n \in (-long - 1)..long : Width(n) \in Nat /\ Width(n) <= Width(long) + 2
  BY <1>1, <1>2, WidthOfRange
<1>5. Width(DblMax) \in Nat
  BY <1>1, <1>2, WidthOfRange
<1>6. Width(IntMax) <= Width(long)
  <2>1. Len(Decimal[IntMax]) <= Len(Decimal[long])
    BY <1>1, DecimalGrows
  <2>2. ~(IntMax < 0) /\ ~(long < 0)
    BY <1>1
  <2> QED
    BY <2>1, <2>2 DEF Width
<1>7. \A n \in (-long - 1)..long : Width(n) <= Width(long) + 3
  BY <1>4
<1> QED
  BY <1>3, <1>4, <1>5, <1>6, <1>7 DEF IntBufSize, LongBufSize, DoubleBufSize, Ints, Longs

\* What a value is taken for.
LEMMA ActualTypeOf ==
  ASSUME NEW k, Scalar(k), Size(k) \in Int, NEW long \in Nat, IntMax <= long
  PROVE  /\ k.type # "PRIMITIVE" => ActualType(k, long) = k.type /\ k.prim = "none"
         /\ k.type = "PRIMITIVE" =>
                /\ k.prim \in Prims
                /\ k.prim = "null" => ActualType(k, long) = "NULL"
                /\ k.prim \in {"true", "false"} => ActualType(k, long) = "BOOLEAN"
                /\ k.prim = "minus" => ActualType(k, long) = "INTEGER"
                /\ k.prim = "number" =>
                       ActualType(k, long) = IF Size(k) <= IntBufSize THEN "INTEGER"
                                             ELSE IF Size(k) <= LongBufSize(long) THEN "LONG"
                                       ELSE IF Size(k) <= DoubleBufSize THEN "DOUBLE" ELSE "ANY"
                /\ k.prim \in {"frac", "huge", "tiny", "unread"} =>
                       ActualType(k, long) = IF Size(k) <= DoubleBufSize THEN "DOUBLE" ELSE "ANY"
                /\ k.prim = "junk" => ActualType(k, long) = "ANY"
<1>1. /\ IntBufSize \in Nat /\ LongBufSize(long) \in Nat /\ IntBufSize >= 3 /\ IntBufSize < LongBufSize(long)
  BY BufferSizes
<1>2. CASE k.type # "PRIMITIVE"
  <2>1. k.prim = "none"
    BY <1>2 DEF Scalar
  <2>2. ~IsInt(k) /\ ~IsLong(k, long) /\ ~IsDouble(k)
    BY <2>1 DEF IsInt, IsLong, IsDouble
  <2>3. ActualType(k, long) = k.type
    BY <1>2, <2>1, <2>2 DEF ActualType
  <2> QED
    BY <1>2, <2>1, <2>3
<1>3. CASE k.type = "PRIMITIVE"
  <2>1. k.prim \in Prims
    BY <1>3 DEF Scalar
  <2>2. CASE k.prim = "null"
    BY <1>3, <2>1, <2>2 DEF ActualType, IsInt, IsLong, IsDouble
  <2>3. CASE k.prim \in {"true", "false"}
    BY <1>3, <2>1, <2>3 DEF ActualType, IsInt, IsLong, IsDouble
  <2>4. CASE k.prim = "minus"
    <3>1. Size(k) = 1
      BY <2>4 DEF Scalar, Size
    <3>2. IsInt(k) /\ IsLong(k, long)
      BY <1>1, <2>4, <3>1 DEF IsInt, IsLong
    <3> QED
      BY <1>3, <2>1, <2>4, <3>2 DEF ActualType
  <2>5. CASE k.prim = "number"
    <3>1. Size(k) <= IntBufSize => Size(k) <= LongBufSize(long)
      BY <1>1
    <3>2. /\ IsInt(k) <=> Size(k) <= IntBufSize
          /\ IsLong(k, long) <=> Size(k) <= LongBufSize(long)
          /\ IsDouble(k) <=> Size(k) <= DoubleBufSize
      BY <2>5 DEF IsInt, IsLong, IsDouble
    <3> QED
      BY <1>3, <2>1, <2>5, <3>1, <3>2 DEF ActualType
  <2>6. CASE k.prim \in {"frac", "huge", "tiny", "unread"}
    <3>1. ~IsInt(k) /\ ~IsLong(k, long) /\ (IsDouble(k) <=> Size(k) <= DoubleBufSize)
      BY <2>6 DEF IsInt, IsLong, IsDouble
    <3> QED
      BY <1>3, <2>1, <2>6, <3>1 DEF ActualType
  <2>7. CASE k.prim = "junk"
    <3>1. ~IsInt(k) /\ ~IsLong(k, long) /\ ~IsDouble(k)
      BY <2>7 DEF IsInt, IsLong, IsDouble
    <3> QED
      BY <1>3, <2>1, <2>7, <3>1 DEF ActualType
  <2>8. \/ k.prim = "null" \/ k.prim \in {"true", "false"} \/ k.prim = "minus" \/ k.prim = "number"
        \/ k.prim \in {"frac", "huge", "tiny", "unread"} \/ k.prim = "junk"
    BY <2>1 DEF Prims
  <2> QED
    BY <1>3, <2>1, <2>2, <2>3, <2>4, <2>5, <2>6, <2>7, <2>8
<1> QED
  BY <1>2, <1>3

\* How a number is limited.
LEMMA LimitedTo ==
  ASSUME NEW n \in Int, NEW least \in Int, NEW most \in Int, least <= most
  PROVE  /\ n \in least..most => Limited(n, least, most) = [err |-> "OK", n |-> n]
         /\ n > most => Limited(n, least, most) = [err |-> "OVERFLOW", n |-> most]
         /\ n < least => Limited(n, least, most) = [err |-> "UNDERFLOW", n |-> least]
BY DEF Limited

\* What is made of a number.
LEMMA NumberTold ==
  ASSUME NEW k, Scalar(k), k.prim = "number", NEW long \in Nat, IntMax <= long
  PROVE  /\ ToLong(k, long).err \in {"OK", "OVERFLOW", "UNDERFLOW"}
         /\ ToLong(k, long).err = "OK" <=> k.n \in Longs(long)
         /\ ToLong(k, long).n = Nearest("LONG", k.n, long)
         /\ ToInt(k, long).err \in {"OK", "OVERFLOW", "UNDERFLOW"}
         /\ k.n \in Ints => ToInt(k, long).err = "OK"
         /\ ToInt(k, long).n = Nearest("INTEGER", k.n, long)
         /\ IntMax # long /\ k.n \notin Ints => ToInt(k, long).err # "OK"
<1>1. IntMax \in Nat /\ long \in Nat /\ IntMax <= long /\ k.n \in Int
  BY JkiiAssumption DEF Scalar
<1>2. ToLong(k, long) = Limited(k.n, -long - 1, long)
  BY DEF ToLong
<1>3. /\ k.n \in (-long - 1)..long => ToLong(k, long) = [err |-> "OK", n |-> k.n]
      /\ k.n > long => ToLong(k, long) = [err |-> "OVERFLOW", n |-> long]
      /\ k.n < -long - 1 => ToLong(k, long) = [err |-> "UNDERFLOW", n |-> -long - 1]
  BY <1>1, <1>2, LimitedTo
<1>4. k.n \in (-long - 1)..long \/ k.n > long \/ k.n < -long - 1
  BY <1>1
<1>5. ~(k.n \in (-long - 1)..long /\ (k.n > long \/ k.n < -long - 1))
  BY <1>1
<1> DEFINE v == ToLong(k, long).n
<1>6. /\ v \in Int
      /\ v = k.n \/ (k.n > long /\ v = long) \/ (k.n < -long - 1 /\ v = -long - 1)
      /\ ToLong(k, long).err \in {"OK", "OVERFLOW", "UNDERFLOW"}
      /\ ToLong(k, long).err = "OK" <=> k.n \in Longs(long)
      /\ v = Nearest("LONG", k.n, long)
  <2>1. CASE k.n \in (-long - 1)..long
    BY <1>1, <1>3, <2>1 DEF Longs, Nearest
  <2>2. CASE k.n > long
    BY <1>1, <1>3, <1>5, <2>2 DEF Longs, Nearest
  <2>3. CASE k.n < -long - 1
    BY <1>1, <1>3, <1>5, <2>3 DEF Longs, Nearest
  <2> QED
    BY <1>4, <2>1, <2>2, <2>3
<1>7. ToInt(k, long) = Limited(v, -IntMax - 1, IntMax)
  BY <1>6 DEF ToInt
<1> HIDE DEF v
<1>8. /\ v \in (-IntMax - 1)..IntMax => ToInt(k, long) = [err |-> "OK", n |-> v]
      /\ v > IntMax => ToInt(k, long) = [err |-> "OVERFLOW", n |-> IntMax]
      /\ v < -IntMax - 1 => ToInt(k, long) = [err |-> "UNDERFLOW", n |-> -IntMax - 1]
  BY <1>1, <1>6, <1>7, LimitedTo
<1>9. v \in (-IntMax - 1)..IntMax \/ v > IntMax \/ v < -IntMax - 1
  BY <1>1, <1>6
<1>10. ToInt(k, long).err \in {"OK", "OVERFLOW", "UNDERFLOW"}
  BY <1>8, <1>9
<1>11. ASSUME k.n \in Ints PROVE ToInt(k, long).err = "OK"
  <2>1. v = k.n /\ v \in (-IntMax - 1)..IntMax
    BY <1>1, <1>6, <1>11 DEF Ints
  <2> QED
    BY <1>8, <2>1
<1>12. ASSUME IntMax # long, k.n \notin Ints PROVE ToInt(k, long).err # "OK"
  <2>1. v > IntMax \/ v < -IntMax - 1
    BY <1>1, <1>6, <1>12 DEF Ints
  <2> QED
    BY <1>8, <2>1
<1>13. ToInt(k, long).n = Nearest("INTEGER", k.n, long)
  <2>1. Nearest("INTEGER", k.n, long) =
            IF k.n > IntMax THEN IntMax ELSE IF k.n < -IntMax - 1 THEN -IntMax - 1 ELSE k.n
    BY DEF Nearest
  <2>2. ToInt(k, long).n = IF v > IntMax THEN IntMax ELSE IF v < -IntMax - 1 THEN -IntMax - 1 ELSE v
    BY <1>7 DEF Limited
  <2>3. CASE v = k.n
    BY <2>1, <2>2, <2>3
  <2>4. CASE k.n > long /\ v = long
    BY <1>1, <2>1, <2>2, <2>4
  <2>5. CASE k.n < -long - 1 /\ v = -long - 1
    BY <1>1, <2>1, <2>2, <2>5
  <2> QED
    BY <1>6, <2>3, <2>4, <2>5
<1> QED
  BY <1>6, <1>10, <1>11, <1>12, <1>13 DEF v

---------------------------------------------------------------------------
\* The type a field is converted to.
AskedType(f, k, long) == IF f.type = "ANY" THEN ActualType(k, long) ELSE f.type

\* What the answers to a string and to a number say.
LEMMA AnswerSays ==
  ASSUME NEW f, NEW k, NEW number, NEW type
  PROVE  /\ StringAnswer(f, k, type).result \in {"OK", "COPY"}
         /\ StringAnswer(f, k, type).type = type
         /\ NumberAnswer(number, type).result \in {"OK", "NUM_OVERFLOW", "NUM_UNDERFLOW"}
         /\ NumberAnswer(number, type).type = type
<1>1. /\ StringAnswer(f, k, type).result \in {"OK", "COPY"}
      /\ StringAnswer(f, k, type).type = type
  BY DEF StringAnswer, Answer
<1>2. NumberAnswer(number, type) = CASE number.err = "OK"        -> Answer("OK", "OK", type, number.n)
                                     [] number.err = "OVERFLOW"  -> Answer("PARTIAL", "NUM_OVERFLOW", type, number.n)
                                     [] number.err = "UNDERFLOW" -> Answer("PARTIAL", "NUM_UNDERFLOW", type, number.n)
                                     [] OTHER -> Answer("INVALID_INPUT", "NUM_UNDERFLOW", type, number.n)
  BY DEF NumberAnswer
<1>3. \/ NumberAnswer(number, type) = Answer("OK", "OK", type, number.n)
      \/ NumberAnswer(number, type) = Answer("PARTIAL", "NUM_OVERFLOW", type, number.n)
      \/ NumberAnswer(number, type) = Answer("PARTIAL", "NUM_UNDERFLOW", type, number.n)
      \/ NumberAnswer(number, type) = Answer("INVALID_INPUT", "NUM_UNDERFLOW", type, number.n)
  BY <1>2
<1> QED
  BY <1>1, <1>3 DEF Answer

\* The branches of _jkii_parse_fields.
LEMMA ConvertedBranch ==
  ASSUME NEW f, NEW k, NEW long
  PROVE  LET type == AskedType(f, k, long)
             a    == Converted(f, k, long)
         IN  /\ ActualType(k, long) = "ANY" => a.result = "none" /\ a.type = f.type
             /\ ActualType(k, long) # "ANY" /\ ~Accepts(type, ActualType(k, long)) => a.result = "TYPE_MISMATCH"
             /\ ActualType(k, long) # "ANY" /\ Accepts(type, ActualType(k, long)) =>
                    /\ type \in {"STRING", "OBJECT", "ARRAY"} => a = StringAnswer(f, k, type)
                    /\ type = "INTEGER" => a = NumberAnswer(ToInt(k, long), type)
                    /\ type = "LONG" => a = NumberAnswer(ToLong(k, long), type)
                    /\ type = "DOUBLE" => a = NumberAnswer(ToDouble(k), type)
                    /\ type \in {"NULL", "BOOLEAN"} => a.result = "OK"
                    /\ a.result \notin {"TYPE_MISMATCH", "NOT_FOUND"} /\ a.type = type
<1> DEFINE type == AskedType(f, k, long)
           a    == Converted(f, k, long)
<1>1. CASE ActualType(k, long) = "ANY"
  BY <1>1 DEF Converted, Answer
<1>2. CASE ActualType(k, long) # "ANY"
  <2>1. a = IF ~Accepts(type, ActualType(k, long)) THEN Answer("PARTIAL", "TYPE_MISMATCH", ActualType(k, long), 0)
            ELSE CASE type \in {"STRING", "OBJECT", "ARRAY"} -> StringAnswer(f, k, type)
                   [] type = "INTEGER" -> NumberAnswer(ToInt(k, long), type)
                   [] type = "LONG"    -> NumberAnswer(ToLong(k, long), type)
                   [] type = "DOUBLE"  -> NumberAnswer(ToDouble(k), type)
                   [] OTHER            -> Answer("OK", "OK", type, 0)
    BY <1>2 DEF Converted, AskedType
  <2> HIDE DEF type, a
  <2>2. CASE ~Accepts(type, ActualType(k, long))
    <3>1. a.result = "TYPE_MISMATCH"
      BY <2>1, <2>2 DEF Answer
    <3> QED
      BY <1>2, <2>2, <3>1 DEF type, a
  <2>3. CASE Accepts(type, ActualType(k, long))
    <3>1. a = CASE type \in {"STRING", "OBJECT", "ARRAY"} -> StringAnswer(f, k, type)
                [] type = "INTEGER" -> NumberAnswer(ToInt(k, long), type)
                [] type = "LONG"    -> NumberAnswer(ToLong(k, long), type)
                [] type = "DOUBLE"  -> NumberAnswer(ToDouble(k), type)
                [] OTHER            -> Answer("OK", "OK", type, 0)
      BY <2>1, <2>3
    <3>2. type \in {"STRING", "OBJECT", "ARRAY"} => a = StringAnswer(f, k, type)
      BY <3>1
    <3>3. type = "INTEGER" => a = NumberAnswer(ToInt(k, long), type)
      BY <3>1
    <3>4. type = "LONG" => a = NumberAnswer(ToLong(k, long), type)
      BY <3>1
    <3>5. type = "DOUBLE" => a = NumberAnswer(ToDouble(k), type)
      BY <3>1
    <3>6. type \notin {"STRING", "OBJECT", "ARRAY", "INTEGER", "LONG", "DOUBLE"} =>
              a = Answer("OK", "OK", type, 0)
      BY <3>1
    <3>7. a.result \notin {"TYPE_MISMATCH", "NOT_FOUND"} /\ a.type = type
      <4>1. CASE type \in {"STRING", "OBJECT", "ARRAY"}
        BY <3>2, <4>1, AnswerSays
      <4>2. CASE type \in {"INTEGER", "LONG", "DOUBLE"}
        BY <3>3, <3>4, <3>5, <4>2, AnswerSays
      <4>3. CASE type \notin {"STRING", "OBJECT", "ARRAY", "INTEGER", "LONG", "DOUBLE"}
        BY <3>6, <4>3 DEF Answer
      <4> QED
        BY <4>1, <4>2, <4>3
    <3>8. type \in {"NULL", "BOOLEAN"} => a.result = "OK"
      BY <3>6 DEF Answer
    <3> QED
      BY <1>2, <2>3, <3>2, <3>3, <3>4, <3>5, <3>7, <3>8 DEF type, a
  <2> QED
    BY <2>2, <2>3
<1> QED
  BY <1>1, <1>2

\* The answer to a number is OK if its conversion was.
LEMMA NumberAnswerOk ==
  ASSUME NEW number, NEW type, number.err \in {"OK", "OVERFLOW", "UNDERFLOW", "INVALID"}
  PROVE  /\ NumberAnswer(number, type).result = "OK" <=> number.err = "OK"
         /\ NumberAnswer(number, type).n = number.n
<1>1. CASE number.err = "OK"
  BY <1>1 DEF NumberAnswer, Answer
<1>2. CASE number.err = "OVERFLOW"
  BY <1>2 DEF NumberAnswer, Answer
<1>3. CASE number.err = "UNDERFLOW"
  BY <1>3 DEF NumberAnswer, Answer
<1>4. CASE number.err = "INVALID"
  BY <1>4 DEF NumberAnswer, Answer
<1> QED
  BY <1>1, <1>2, <1>3, <1>4

\* What a value is to be to fit, by the type.
LEMMA FitsAs ==
  ASSUME NEW type \in Types, NEW room, NEW k, NEW long
  PROVE  /\ type = "INTEGER" => (Fits(type, room, k, long) <=> k.prim = "number" /\ k.n \in Ints)
         /\ type = "LONG" => (Fits(type, room, k, long) <=> k.prim = "number" /\ k.n \in Longs(long))
         /\ type = "DOUBLE" =>
                (Fits(type, room, k, long) <=>
                     /\ Size(k) < DoubleBufSize
                     /\ \/ k.prim = "frac"
                        \/ k.prim = "number" /\ Size(k) > LongBufSize(long) /\ k.n \in -DblMax..DblMax)
         /\ type = "BOOLEAN" => (Fits(type, room, k, long) <=> k.prim \in {"true", "false"})
         /\ type = "NULL" => (Fits(type, room, k, long) <=> k.prim = "null")
         /\ type \in {"STRING", "OBJECT", "ARRAY"} =>
                (Fits(type, room, k, long) <=> k.type = type /\ (room = 0 \/ Size(k) + 1 <= room))
         /\ type = "ANY" => ~Fits(type, room, k, long)
<1>1. CASE type = "INTEGER"
  BY <1>1 DEF Fits
<1>2. CASE type = "LONG"
  BY <1>2 DEF Fits
<1>3. CASE type = "DOUBLE"
  BY <1>3 DEF Fits
<1>4. CASE type = "BOOLEAN"
  BY <1>4 DEF Fits
<1>5. CASE type = "NULL"
  BY <1>5 DEF Fits
<1>6. CASE type \in {"STRING", "OBJECT", "ARRAY"}
  BY <1>6 DEF Fits
<1>7. CASE type = "ANY"
  BY <1>7 DEF Fits
<1> QED
  BY <1>1, <1>2, <1>3, <1>4, <1>5, <1>6, <1>7 DEF Types

\* What the answer to a field says of a value of the type it is converted to.
Told(f, k, long) ==
    LET type == AskedType(f, k, long)
        a    == Converted(f, k, long)
    IN  /\ ~Clipped(type, k, long) => (a.result = "OK" <=> Fits(type, f.room, k, long))
        /\ Numeric(a, type, k) => a.n = Nearest(type, k.n, long)

\* A string, an object or an array,
LEMMA TextTold ==
  ASSUME NEW f, f.type \in Types, f.room \in Nat, NEW k, Scalar(k), Size(k) \in Int,
         k.type # "PRIMITIVE", NEW long \in Nat, IntMax <= long
  PROVE  Told(f, k, long)
<1>1. ActualType(k, long) = k.type /\ k.prim = "none" /\ k.type \in {"OBJECT", "ARRAY", "STRING"}
  BY ActualTypeOf DEF Scalar
<1> DEFINE type == AskedType(f, k, long)
           a == Converted(f, k, long)
<1>2. /\ ~Accepts(type, ActualType(k, long)) => a.result = "TYPE_MISMATCH"
      /\ Accepts(type, ActualType(k, long)) /\ type \in {"STRING", "OBJECT", "ARRAY"} => a = StringAnswer(f, k, type)
  BY <1>1, ConvertedBranch
<1>3. type \in Types
  BY <1>1 DEF AskedType, Types
<1>4. Accepts(type, ActualType(k, long)) <=> type = k.type
  BY <1>1 DEF Accepts
<1> HIDE DEF type, a
<1>5. StringAnswer(f, k, type).result = "OK" <=> f.room = 0 \/ Size(k) + 1 <= f.room
  <2>1. f.room > Size(k) <=> Size(k) + 1 <= f.room
    OBVIOUS
  <2> QED
    BY <2>1 DEF StringAnswer, Answer
<1>6. a.result = "OK" <=> type = k.type /\ (f.room = 0 \/ Size(k) + 1 <= f.room)
  BY <1>1, <1>2, <1>4, <1>5
<1>7. Fits(type, f.room, k, long) <=> type = k.type /\ (f.room = 0 \/ Size(k) + 1 <= f.room)
  BY <1>1, <1>3, FitsAs DEF Types
<1>8. ~Numeric(a, type, k)
  BY <1>1 DEF Numeric
<1> QED
  BY <1>6, <1>7, <1>8 DEF Told, type, a

\* null, true or false,
LEMMA WordTold ==
  ASSUME NEW f, f.type \in Types, NEW k, Scalar(k), Size(k) \in Int,
         k.prim \in {"null", "true", "false"}, NEW long \in Nat, IntMax <= long
  PROVE  Told(f, k, long)
<1>1. /\ k.type = "PRIMITIVE"
      /\ ActualType(k, long) = IF k.prim = "null" THEN "NULL" ELSE "BOOLEAN"
  BY ActualTypeOf DEF Scalar
<1> DEFINE type == AskedType(f, k, long)
           a == Converted(f, k, long)
<1>2. /\ ~Accepts(type, ActualType(k, long)) => a.result = "TYPE_MISMATCH"
      /\ Accepts(type, ActualType(k, long)) /\ type \in {"NULL", "BOOLEAN"} => a.result = "OK"
  BY <1>1, ConvertedBranch
<1>3. type \in Types
  BY <1>1 DEF AskedType, Types
<1>4. Accepts(type, ActualType(k, long)) <=> type = ActualType(k, long)
  BY <1>1 DEF Accepts
<1> HIDE DEF type, a
<1>5. a.result = "OK" <=> type = ActualType(k, long)
  BY <1>1, <1>2, <1>4
<1>6. Fits(type, f.room, k, long) <=> type = ActualType(k, long)
  BY <1>1, <1>3, FitsAs DEF Types
<1>7. ~Numeric(a, type, k)
  BY DEF Numeric
<1> QED
  BY <1>5, <1>6, <1>7 DEF Told, type, a

\* what is no number that jkii reads, or a number with a fraction,
LEMMA OddTold ==
  ASSUME NEW f, f.type \in Types, NEW k, Scalar(k), Size(k) \in Int,
         k.prim \in {"frac", "huge", "tiny", "unread", "minus", "junk"}, NEW long \in Nat, IntMax <= long
  PROVE  Told(f, k, long)
<1>1. /\ k.type = "PRIMITIVE"
      /\ ActualType(k, long) = IF k.prim = "minus" THEN "INTEGER"
                         ELSE IF k.prim # "junk" /\ Size(k) <= DoubleBufSize THEN "DOUBLE"
                         ELSE "ANY"
  <2>1. k.type = "PRIMITIVE"
    BY DEF Scalar
  <2> QED
    BY <2>1, ActualTypeOf
<1> DEFINE type == AskedType(f, k, long)
           a == Converted(f, k, long)
<1>2. /\ ActualType(k, long) = "ANY" => a.result = "none"
      /\ ActualType(k, long) # "ANY" /\ ~Accepts(type, ActualType(k, long)) => a.result = "TYPE_MISMATCH"
      /\ ActualType(k, long) # "ANY" /\ Accepts(type, ActualType(k, long)) =>
             /\ type = "INTEGER" => a = NumberAnswer(ToInt(k, long), type)
             /\ type = "LONG" => a = NumberAnswer(ToLong(k, long), type)
             /\ type = "DOUBLE" => a = NumberAnswer(ToDouble(k), type)
  BY ConvertedBranch
<1>3. k.prim = "minus" => ToInt(k, long).err = "INVALID" /\ ToLong(k, long).err = "INVALID"
  BY DEF ToInt, ToLong
<1>4. k.prim \in {"frac", "huge", "tiny", "unread"} =>
          /\ ToDouble(k).err \in {"OK", "OVERFLOW", "UNDERFLOW", "INVALID"}
          /\ ToDouble(k).err = "OK" <=> k.prim = "frac" /\ ~(Size(k) >= DoubleBufSize)
  BY DEF ToDouble, DoubleErr
<1>5. type \in Types
  BY <1>1 DEF AskedType, Types
<1>6. Accepts(type, ActualType(k, long)) <=> type = ActualType(k, long) \/ (type = "LONG" /\ k.prim = "minus")
  BY <1>1 DEF Accepts
<1>7. DoubleBufSize \in Nat /\ Size(k) \in Int
  BY BufferSizes
<1>8. Fits(type, f.room, k, long) <=> type = "DOUBLE" /\ k.prim = "frac" /\ Size(k) < DoubleBufSize
  BY <1>1, <1>5, FitsAs DEF Types
<1> HIDE DEF type, a
<1>9. a.result = "OK" <=> type = "DOUBLE" /\ k.prim = "frac" /\ Size(k) < DoubleBufSize
  <2>1. CASE k.prim = "minus"
    <3>1. /\ NumberAnswer(ToInt(k, long), type).result # "OK"
          /\ NumberAnswer(ToLong(k, long), type).result # "OK"
      BY <1>3, <2>1, NumberAnswerOk
    <3> QED
      BY <1>1, <1>2, <1>6, <2>1, <3>1
  <2>2. CASE k.prim = "junk"
    BY <1>1, <1>2, <2>2
  <2>3. CASE k.prim \in {"frac", "huge", "tiny", "unread"}
    <3>1. NumberAnswer(ToDouble(k), type).result = "OK" <=> k.prim = "frac" /\ Size(k) < DoubleBufSize
      <4>1. ~(Size(k) >= DoubleBufSize) <=> Size(k) < DoubleBufSize
        BY <1>7
      <4> QED
        BY <1>4, <2>3, <4>1, NumberAnswerOk
    <3>2. CASE Size(k) <= DoubleBufSize
      <4>1. ActualType(k, long) = "DOUBLE"
        BY <1>1, <2>3, <3>2
      <4> QED
        BY <1>2, <1>6, <2>3, <3>1, <4>1
    <3>3. CASE ~(Size(k) <= DoubleBufSize)
      <4>1. ActualType(k, long) = "ANY"
        BY <1>1, <2>3, <3>3
      <4>2. ~(Size(k) < DoubleBufSize)
        BY <1>7, <3>3
      <4> QED
        BY <1>2, <4>1, <4>2
    <3> QED
      BY <3>2, <3>3
  <2> QED
    BY <2>1, <2>2, <2>3
<1>10. ~Numeric(a, type, k)
  BY DEF Numeric
<1> QED
  BY <1>8, <1>9, <1>10 DEF Told, type, a

\* or a number without one.
LEMMA WholeTold ==
  ASSUME NEW f, f.type \in Types, NEW k, Scalar(k), Size(k) \in Int, k.prim = "number",
         NEW long \in Nat, IntMax <= long
  PROVE  Told(f, k, long)
<1> DEFINE type == AskedType(f, k, long)
           a == Converted(f, k, long)
<1>1. /\ k.type = "PRIMITIVE" /\ k.n \in Int
      /\ Size(k) = Width(k.n) \/ (k.n = 0 /\ Size(k) = 2)
      /\ ActualType(k, long) = IF Size(k) <= IntBufSize THEN "INTEGER"
                         ELSE IF Size(k) <= LongBufSize(long) THEN "LONG"
                         ELSE IF Size(k) <= DoubleBufSize THEN "DOUBLE" ELSE "ANY"
  <2>1. k.type = "PRIMITIVE" /\ k.n \in Int
    BY DEF Scalar
  <2>2. Size(k) = Width(k.n) \/ (k.n = 0 /\ Size(k) = 2)
    BY DEF Scalar, Size
  <2> QED
    BY <2>1, <2>2, ActualTypeOf
<1>2. /\ ActualType(k, long) = "ANY" => a.result = "none"
      /\ ActualType(k, long) # "ANY" /\ ~Accepts(type, ActualType(k, long)) => a.result = "TYPE_MISMATCH"
      /\ ActualType(k, long) # "ANY" /\ Accepts(type, ActualType(k, long)) =>
             /\ type = "INTEGER" => a = NumberAnswer(ToInt(k, long), type)
             /\ type = "LONG" => a = NumberAnswer(ToLong(k, long), type)
             /\ type = "DOUBLE" => a = NumberAnswer(ToDouble(k), type)
  BY ConvertedBranch
<1>3. type \in Types
  BY <1>1 DEF AskedType, Types
<1>4. /\ IntBufSize \in Nat /\ LongBufSize(long) \in Nat /\ DoubleBufSize \in Nat /\ IntBufSize < LongBufSize(long)
      /\ k.n \in Ints => Size(k) <= IntBufSize
      /\ k.n \in Longs(long) => Size(k) <= LongBufSize(long)
  BY <1>1, BufferSizes
<1>5. Accepts(type, ActualType(k, long)) <=> type = ActualType(k, long) \/ (type = "LONG" /\ ActualType(k, long) = "INTEGER")
  BY DEF Accepts
<1>6. /\ ToDouble(k).err \in {"OK", "OVERFLOW", "UNDERFLOW", "INVALID"}
      /\ ToDouble(k).err = "OK" <=> ~(Size(k) >= DoubleBufSize) /\ k.n \in -DblMax..DblMax
  BY DEF ToDouble, DoubleErr
<1>7. /\ k.n \in Ints => NumberAnswer(ToInt(k, long), type).result = "OK"
      /\ NumberAnswer(ToInt(k, long), type).n = Nearest("INTEGER", k.n, long)
      /\ IntMax # long /\ k.n \notin Ints => NumberAnswer(ToInt(k, long), type).result # "OK"
  BY NumberTold, NumberAnswerOk
<1>8. /\ NumberAnswer(ToLong(k, long), type).result = "OK" <=> k.n \in Longs(long)
      /\ NumberAnswer(ToLong(k, long), type).n = Nearest("LONG", k.n, long)
  BY NumberTold, NumberAnswerOk
<1>9. NumberAnswer(ToDouble(k), type).result = "OK" <=> Size(k) < DoubleBufSize /\ k.n \in -DblMax..DblMax
  <2>1. ~(Size(k) >= DoubleBufSize) <=> Size(k) < DoubleBufSize
    BY <1>4
  <2> QED
    BY <1>6, <2>1, NumberAnswerOk
<1> HIDE DEF type, a
<1>10. CASE type = "INTEGER"
  <2>1. Fits(type, f.room, k, long) <=> k.n \in Ints
    BY <1>3, <1>10, FitsAs
  <2>2. Clipped(type, k, long) <=> IntMax = long /\ k.n \notin Ints
    BY <1>10 DEF Clipped
  <2>3. CASE Size(k) <= IntBufSize
    <3>1. ActualType(k, long) = "INTEGER"
      BY <1>1, <2>3
    <3>2. a = NumberAnswer(ToInt(k, long), type)
      BY <1>2, <1>5, <1>10, <3>1
    <3> QED
      BY <1>7, <1>10, <2>1, <2>2, <3>2 DEF Told, type, a
  <2>4. CASE ~(Size(k) <= IntBufSize)
    <3>1. ActualType(k, long) # "INTEGER" /\ k.n \notin Ints
      BY <1>1, <1>4, <2>4
    <3>2. a.result # "OK" /\ ~Numeric(a, type, k)
      BY <1>2, <1>5, <1>10, <3>1 DEF Numeric
    <3> QED
      BY <2>1, <3>1, <3>2 DEF Told, type, a
  <2> QED
    BY <2>3, <2>4
<1>11. CASE type = "LONG"
  <2>1. Fits(type, f.room, k, long) <=> k.n \in Longs(long)
    BY <1>3, <1>11, FitsAs
  <2>2. CASE Size(k) <= LongBufSize(long)
    <3>1. ActualType(k, long) \in {"INTEGER", "LONG"}
      BY <1>1, <2>2
    <3>2. a = NumberAnswer(ToLong(k, long), type)
      BY <1>2, <1>5, <1>11, <3>1
    <3> QED
      BY <1>8, <1>11, <2>1, <3>2 DEF Told, type, a
  <2>3. CASE ~(Size(k) <= LongBufSize(long))
    <3>1. ~(Size(k) <= IntBufSize)
      BY <1>4, <2>3
    <3>2. ActualType(k, long) \in {"DOUBLE", "ANY"} /\ k.n \notin Longs(long)
      BY <1>1, <1>4, <2>3, <3>1
    <3>3. a.result # "OK" /\ ~Numeric(a, type, k)
      BY <1>2, <1>5, <1>11, <3>2 DEF Numeric
    <3> QED
      BY <2>1, <3>2, <3>3 DEF Told, type, a
  <2> QED
    BY <2>2, <2>3
<1>12. CASE type = "DOUBLE"
  <2>1. Fits(type, f.room, k, long) <=>
            Size(k) < DoubleBufSize /\ Size(k) > LongBufSize(long) /\ k.n \in -DblMax..DblMax
    BY <1>3, <1>12, FitsAs
  <2>2. a.result = "OK" <=>
            Size(k) < DoubleBufSize /\ Size(k) > LongBufSize(long) /\ k.n \in -DblMax..DblMax
    <3>1. ActualType(k, long) = "DOUBLE" <=> Size(k) > LongBufSize(long) /\ Size(k) <= DoubleBufSize
      BY <1>1, <1>4
    <3>2. CASE ActualType(k, long) = "DOUBLE"
      BY <1>2, <1>5, <1>9, <1>12, <3>1, <3>2
    <3>3. CASE ActualType(k, long) # "DOUBLE"
      <4>1. a.result # "OK"
        BY <1>2, <1>5, <1>12, <3>3
      <4>2. ~(Size(k) < DoubleBufSize /\ Size(k) > LongBufSize(long))
        BY <1>4, <3>1, <3>3
      <4> QED
        BY <4>1, <4>2
    <3> QED
      BY <3>2, <3>3
  <2>3. ~Numeric(a, type, k)
    BY <1>12 DEF Numeric
  <2> QED
    BY <2>1, <2>2, <2>3 DEF Told, type, a
<1>13. CASE type \in {"ANY", "BOOLEAN", "NULL", "STRING", "OBJECT", "ARRAY"}
  <2>1. ~Fits(type, f.room, k, long)
    BY <1>1, <1>3, <1>13, FitsAs
  <2>2. a.result # "OK"
    <3>1. ActualType(k, long) \in {"INTEGER", "LONG", "DOUBLE", "ANY"}
      BY <1>1
    <3> QED
      BY <1>2, <1>5, <1>13, <3>1
  <2>3. ~Numeric(a, type, k)
    BY <1>13 DEF Numeric
  <2> QED
    BY <2>1, <2>2, <2>3 DEF Told, type, a
<1> QED
  BY <1>3, <1>10, <1>11, <1>12, <1>13 DEF Types

---------------------------------------------------------------------------
\* Every kind of value is told for what it is.
LEMMA ConvertedTold ==
  ASSUME NEW t, IsJson(t), NEW k \in DOMAIN t, NEW f, IsField(f),
         NEW long \in Nat, IntMax <= long
  PROVE  Told(f, t[k], long)
<1> DEFINE v == t[k]
<1>1. Scalar(v) /\ f.type \in Types /\ f.room \in Nat
  BY JsonToken DEF IsField
<1>2. Size(v) \in Int
  BY DEF IsJson, Nested, Size
<1>3. \/ v.type # "PRIMITIVE" \/ v.prim \in {"null", "true", "false"}
      \/ v.prim \in {"frac", "huge", "tiny", "unread", "minus", "junk"} \/ v.prim = "number"
  BY <1>1 DEF Scalar, Prims
<1> HIDE DEF v
<1>4. Told(f, v, long)
  BY <1>1, <1>2, <1>3, TextTold, WordTold, OddTold, WholeTold
<1> QED
  BY <1>4 DEF v

\* An answer says nothing else of a value than Told does.
LEMMA AnswerTold ==
  ASSUME NEW f, NEW k, NEW long, Told(f, k, long)
  PROVE  LET a    == Converted(f, k, long)
             type == IF f.type = "ANY" THEN a.type ELSE f.type
         IN  /\ a.result # "NOT_FOUND"
             /\ f.type = "ANY" => a.result # "TYPE_MISMATCH"
             /\ ~Clipped(type, k, long) => (a.result = "OK" <=> Fits(type, f.room, k, long))
             /\ Numeric(a, type, k) => a.n = Nearest(type, k.n, long)
<1> DEFINE a == Converted(f, k, long)
           asked == AskedType(f, k, long)
<1>1. /\ ActualType(k, long) = "ANY" => a.result = "none" /\ a.type = f.type
      /\ ActualType(k, long) # "ANY" /\ ~Accepts(asked, ActualType(k, long)) => a.result = "TYPE_MISMATCH"
      /\ ActualType(k, long) # "ANY" /\ Accepts(asked, ActualType(k, long)) =>
             a.result \notin {"TYPE_MISMATCH", "NOT_FOUND"} /\ a.type = asked
  BY ConvertedBranch
<1>2. f.type = "ANY" => asked = ActualType(k, long) /\ Accepts(asked, ActualType(k, long))
  BY DEF AskedType, Accepts
<1>3. f.type # "ANY" => asked = f.type
  BY DEF AskedType
<1>4. /\ ~Clipped(asked, k, long) => (a.result = "OK" <=> Fits(asked, f.room, k, long))
      /\ Numeric(a, asked, k) => a.n = Nearest(asked, k.n, long)
  BY DEF Told
<1> HIDE DEF a, asked
<1>5. a.result # "NOT_FOUND" /\ (f.type = "ANY" => a.result # "TYPE_MISMATCH")
  BY <1>1, <1>2
<1>6. (IF f.type = "ANY" THEN a.type ELSE f.type) = asked
  BY <1>1, <1>2, <1>3
<1> QED
  BY <1>4, <1>5, <1>6 DEF a

(* Whatever the texts, the fields and the widths of numbers, a field is    *)
(* NOT_FOUND if and only if nothing is meant, and OK if and only if what   *)
(* its name or path means is of the type that was asked for and fits; an   *)
(* int or a long is the number of the text or the bound that this exceeds. *)
(* Only whether an int that _jkii_to_long clips to a long no wider is OK   *)
(* is left out.                                                            *)
THEOREM FieldsAlwaysTold == Spec => []FieldsTold
<1>1. FoundInv /\ VerdictInv => FieldsTold
  <2> SUFFICES ASSUME FoundInv, VerdictInv, NEW i \in DOMAIN answers, i < at
               PROVE  Truthful(call.fields[i], answers[i], call.text,
                               Meant(call.text, call.fields[i].steps), call.long)
    BY DEF FieldsTold
  <2> DEFINE f == call.fields[i]
             t == call.text
             long == call.long
             m == Meant(t, f.steps)
  <2>1. /\ IsJson(t) /\ IsField(f) /\ answers[i] = AnswerTo(t, f, long).field
        /\ long \in Nat /\ IntMax <= long
        /\ ValueOf(t, f) = m /\ m \in 0..Len(t)
    BY AnsweredField
  <2>2. answers[i].result = (IF m = 0 THEN NotFound(f) ELSE Converted(f, t[m], long)).result
        /\ answers[i].type = (IF m = 0 THEN NotFound(f) ELSE Converted(f, t[m], long)).type
        /\ answers[i].n = (IF m = 0 THEN NotFound(f) ELSE Converted(f, t[m], long)).n
    BY <2>1 DEF AnswerTo
  <2> HIDE DEF f, t, m, long
  <2>3. CASE m = 0
    <3>1. answers[i].result = "NOT_FOUND"
      BY <2>2, <2>3 DEF NotFound, Answer
    <3>2. Truthful(f, answers[i], t, m, long)
      BY <2>3, <3>1 DEF Truthful
    <3> QED
      BY <3>2 DEF f, t, m, long
  <2>4. CASE m # 0
    <3> DEFINE a == Converted(f, t[m], long)
               type == IF f.type = "ANY" THEN a.type ELSE f.type
    <3>1. m \in DOMAIN t
      <4>1. DOMAIN t = 1..Len(t) /\ Len(t) \in Nat
        BY <2>1, JsonNests
      <4> QED
        BY <2>1, <2>4, <4>1
    <3>2. Told(f, t[m], long)
      BY <2>1, <3>1, ConvertedTold
    <3>3. /\ a.result # "NOT_FOUND"
          /\ f.type = "ANY" => a.result # "TYPE_MISMATCH"
          /\ ~Clipped(type, t[m], long) => (a.result = "OK" <=> Fits(type, f.room, t[m], long))
          /\ Numeric(a, type, t[m]) => a.n = Nearest(type, t[m].n, long)
      BY <3>2, AnswerTold
    <3>4. answers[i].result = a.result /\ answers[i].type = a.type /\ answers[i].n = a.n
      BY <2>2, <2>4
    <3> HIDE DEF a
    <3>5. Truthful(f, answers[i], t, m, long)
      BY <2>4, <3>3, <3>4 DEF Truthful, Numeric
    <3> QED
      BY <3>5 DEF f, t, m, long
  <2> QED
    BY <2>3, <2>4
<1> QED
  BY <1>1, FoundInductive, VerdictInductive, PTL
===========================================================================
