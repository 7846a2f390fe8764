----------------------------- MODULE TioProofs ------------------------------
(***************************************************************************)
(* What is proved of tio_handler, for every set of messages pushed to it,  *)
(* however many: it keeps the request layer in order although it abandons  *)
(* requests, and nothing that fails is kept from the application.          *)
(***************************************************************************)
EXTENDS TioHandler, KiiProofs, FlattenTheorems

Reported == {"sent", "skipped"} \cup (Codes \ {"OK"})

\* Where the handler is, and where the request that it builds.
HandlerPlace ==
  /\ call.api \in {"kii_init", "kii_api_call"}
  /\ hpc \in {"off", "wait", "parse", "start"} => pc = "idle"
  /\ hpc \in {"actions", "append", "close", "run"} => pc = "started"
  /\ hpc \in {"starting", "actions", "append", "close", "run"} => call.api = "kii_api_call"
  /\ hpc = "starting" /\ pc = "idle" => result \in Codes \ {"OK"}
  /\ hpc # "wait" => report = "none"
  /\ hpc = "off" => pushes = 0

\* The results in the body are those of the calls made, but for the last.
ResultsFollow ==
  /\ \E S : results \in Seq(S)
  /\ hpc \in {"parse", "start", "starting", "actions", "close", "run"} => results = called
  /\ hpc = "append" => \E r : called = Append(results, r)
  /\ hpc \in {"actions", "append", "close", "run"} => rwBuff = "body" /\ reqSize = TRUE

(***************************************************************************)
(* The request that reports a command has the results of all the calls of  *)
(* cb_action for it, in their order, and nothing else for a body           *)
(* (_append_action_result, _handle_command).                               *)
(***************************************************************************)
CallsReported == report = "sent" => results = called /\ sent.body = "body"

HandlerIInv ==
  /\ KiiIInv /\ HandlerPlace /\ ResultsFollow
  /\ FailuresTold /\ CallsReported

-----------------------------------------------------------------------------

LEMMA Appended ==
  ASSUME NEW S, NEW s \in Seq(S), NEW x
  PROVE  /\ Append(s, x) \in Seq(S \cup {x})
         /\ Append(s, x)[Len(Append(s, x))] = x
<1>1. s \in Seq(S \cup {x})
  OBVIOUS
<1> QED BY <1>1, AppendProperties

LEMMA ResultRequestCall ==
  /\ ResultRequest \in CallType /\ ResultRequest.api = "kii_api_call"
  /\ "kii_api_call" \in ApiNames \ AuthCalls
BY DEF ResultRequest, CallType, HeaderNames, ApiNames, OtherCalls, AuthCalls

\* What the handler does in the layer while it builds and runs its request.
LEMMA LayerSteps ==
  BuildStep \/ Started \/ AppendBody \/ AppendBodyFails \/ PerformStep => Next
BY DEF Next, ApiCallStep

\* A step of kii_api_call_start fails with a code or goes on.
LEMMA BuildStepEnds ==
  ASSUME BuildStep, call.api = "kii_api_call"
  PROVE  /\ call' = call
         /\ pc' = "build" \/ (pc' = "idle" /\ result' \in Codes \ {"OK"})
BY DEF BuildStep, PathSet, PathTooLarge, PathDropped, HeaderStep, HeaderAppended,
   HeaderSkipped, HeaderFails, BodyBuilt, BodyTooLarge, Building, Next1, Return, Codes, KhcCodes

LEMMA PerformEnds ==
  ASSUME PerformStep, call.api = "kii_api_call", KiiIInv
  PROVE  /\ pc' = "idle" /\ result' \in Codes /\ call' = call
         /\ sent'.body = IF reqSize THEN rwBuff ELSE "none"
<1>1. ASSUME NEW code \in KhcCodes, NEW status, NEW answer, Perform(code, status, answer)
      PROVE  /\ pc' = "idle" /\ result' \in Codes /\ call' = call
             /\ sent'.body = IF reqSize THEN rwBuff ELSE "none"
  <2>1. Verdict(code, status, answer) \in Codes
    BY DEF Verdict, ConvertCode, Codes, KhcCodes
  <2>2. pc = "started"
    BY <1>1 DEF Perform
  <2>3. cbRead = "_cb_read_buff"
    BY <2>2 DEF KiiIInv, CallbacksRestored
  <2>4. Return(Verdict(code, status, answer)) /\ UNCHANGED <<call, reqSize, path>>
    BY <1>1 DEF Perform
  <2>5. sent'.body = BodyRead
    BY <1>1 DEF Perform
  <2> QED BY <2>1, <2>3, <2>4, <2>5 DEF Return, BodyRead
<1> QED BY <1>1 DEF PerformStep, KhcCodes

\* A request is abandoned where it stands, and that leaves the layer in order
\* but for the headers of the request.
LEMMA AbandonedLayer ==
  ASSUME KiiIInv, pc = "started", call.api = "kii_api_call", Abandon
  PROVE  KiiIInv'
BY DEF KiiIInv, Abandon, Layer, KiiTypeOK, Place, CallbackPlace, CallbacksRestored, AuthorWhole,
   AuthCalls

LEMMA ErrTold ==
  ASSUME NEW code \in Codes \ {"OK"}, Err(code)
  PROVE  /\ FailuresTold' /\ CallsReported'
         /\ hpc' = "wait" /\ UNCHANGED <<results, called>>
BY DEF Err, FailuresTold, CallsReported, Codes, KhcCodes

LEMMA HandlerInitially == HandlerInit => HandlerIInv
<1> SUFFICES ASSUME HandlerInit PROVE HandlerIInv
  OBVIOUS
<1>1. KiiIInv
  BY InitPlace DEF HandlerInit, KiiIInv, Layer, Init, CallbackPlace, CallbacksRestored,
     AuthorWhole, AuthCalls
<1>2. \E S : results \in Seq(S)
  <2>1. << >> \in Seq({})
    OBVIOUS
  <2> QED BY <2>1 DEF HandlerInit
<1> QED BY <1>1, <1>2 DEF HandlerInit, HandlerIInv, HandlerPlace, ResultsFollow, FailuresTold,
        CallsReported, Init

LEMMA WaitingKept ==
  ASSUME HandlerIInv, Start \/ (\E c \in Commands : Push(c)) \/ ParseCommand \/ ResultPathTooLarge
  PROVE  HandlerIInv'
<1> USE DEF HandlerIInv
<1>1. CASE Start
  <2>1. /\ UNCHANGED <<call, pc, todo, reqHeaders, nodes, rwBuff, cbRead, cbWrite, result, reqSize>>
        /\ author' \in [id : Things \cup {"none"}, token : Things \cup {"none"}]
    BY <1>1 DEF Start
  <2>2. Layer' /\ CallbackPlace' /\ CallbacksRestored'
    BY <2>1 DEF KiiIInv, Layer, KiiTypeOK, Place, CallbackPlace, CallbacksRestored
  <2>3. AuthorWhole'
    BY <2>1 DEF AuthorWhole, HandlerPlace, AuthCalls
  <2>4. hpc = "off" /\ hpc' = "wait" /\ UNCHANGED <<called, results, report, pushes, sent>>
    BY <1>1 DEF Start, Goes
  <2>5. HandlerPlace' /\ ResultsFollow' /\ CallsReported'
    BY <2>1, <2>4 DEF HandlerPlace, ResultsFollow, CallsReported
  <2>6. FailuresTold'
    BY <2>4 DEF HandlerPlace, FailuresTold
  <2> QED BY <2>2, <2>3, <2>5, <2>6 DEF KiiIInv
<1>2. ASSUME NEW c \in Commands, Push(c) PROVE HandlerIInv'
  <2>1. KiiIInv'
    BY <1>2, LayerInvariantKept DEF Push
  <2>2. \E S : results' \in Seq(S)
    <3>1. << >> \in Seq({})
      OBVIOUS
    <3> QED BY <1>2, <3>1 DEF Push
  <2> QED BY <1>2, <2>1, <2>2 DEF Push, vars, HandlerPlace, ResultsFollow, FailuresTold, CallsReported
<1>3. CASE ParseCommand \/ ResultPathTooLarge
  <2>1. KiiIInv' /\ UNCHANGED vars
    BY <1>3, LayerInvariantKept DEF ParseCommand, ResultPathTooLarge
  <2>2. CASE Err("PARSE_JSON") \/ Err("TOO_LARGE_DATA")
    <3>1. "PARSE_JSON" \in Codes \ {"OK"} /\ "TOO_LARGE_DATA" \in Codes \ {"OK"}
      BY DEF Codes, KhcCodes
    <3>2. hpc \in {"parse", "start"}
      BY <1>3 DEF ParseCommand, ResultPathTooLarge
    <3> QED BY <2>1, <2>2, <3>1, <3>2, ErrTold DEF vars, HandlerPlace, ResultsFollow
  <2>3. CASE hpc = "parse" /\ hpc' = "start" /\ UNCHANGED <<called, results, report, pushes>>
    BY <2>1, <2>3 DEF vars, HandlerPlace, ResultsFollow, FailuresTold, CallsReported
  <2> QED BY <1>3, <2>2, <2>3 DEF ParseCommand, ResultPathTooLarge
<1> QED BY <1>1, <1>2, <1>3

LEMMA StartingKept ==
  ASSUME HandlerIInv, StartResultRequest \/ Starting \/ StartFails \/ AppendStart
  PROVE  HandlerIInv'
<1> USE DEF HandlerIInv
<1>1. CASE StartResultRequest
  <2>1. KiiIInv'
    BY <1>1, CallBegins, ResultRequestCall DEF StartResultRequest
  <2>2. /\ hpc = "start" /\ hpc' = "starting" /\ UNCHANGED <<called, results, report, pushes>>
        /\ call'.api = "kii_api_call" /\ pc' = "build"
    BY <1>1, ResultRequestCall DEF StartResultRequest, Goes, Begin
  <2>3. HandlerPlace' /\ ResultsFollow' /\ FailuresTold' /\ CallsReported'
    BY <2>2 DEF HandlerPlace, ResultsFollow, FailuresTold, CallsReported
  <2> QED BY <2>1, <2>3
<1>2. CASE Starting
  <2>1. KiiIInv'
    BY <1>2, LayerSteps, LayerInvariantKept DEF Starting
  <2>2. hpc = "starting" /\ UNCHANGED handler /\ call.api = "kii_api_call"
    BY <1>2 DEF Starting, HandlerPlace
  <2>3. /\ call'.api = "kii_api_call"
        /\ pc' \in {"build", "started"} \/ (pc' = "idle" /\ result' \in Codes \ {"OK"})
    BY <1>2, <2>2, BuildStepEnds DEF Starting, Started
  <2>4. HandlerPlace' /\ ResultsFollow'
    BY <2>2, <2>3 DEF handler, HandlerPlace, ResultsFollow
  <2>5. FailuresTold' /\ CallsReported'
    BY <2>2 DEF handler, HandlerPlace, FailuresTold, CallsReported
  <2> QED BY <2>1, <2>4, <2>5
<1>3. CASE StartFails
  <2>1. KiiIInv' /\ UNCHANGED vars /\ pc = "idle"
    BY <1>3, LayerInvariantKept DEF StartFails
  <2>2. result \in Codes \ {"OK"} /\ Err(result)
    BY <1>3 DEF StartFails, HandlerPlace
  <2> QED BY <2>1, <2>2, ErrTold DEF vars, HandlerPlace, ResultsFollow
<1>4. CASE AppendStart
  <2>1. KiiIInv'
    BY <1>4, LayerSteps, LayerInvariantKept DEF AppendStart
  <2>2. /\ hpc = "starting" /\ hpc' = "actions" /\ UNCHANGED <<called, results, report, pushes>>
        /\ call'.api = call.api /\ pc' = "started" /\ rwBuff' = "body" /\ reqSize' = TRUE
    BY <1>4 DEF AppendStart, Goes, AppendBody, KiiIInv, Layer, Place, CallType
  <2>3. results = called
    BY <2>2 DEF ResultsFollow
  <2>4. HandlerPlace' /\ ResultsFollow' /\ FailuresTold' /\ CallsReported'
    BY <2>2, <2>3 DEF HandlerPlace, ResultsFollow, FailuresTold, CallsReported
  <2> QED BY <2>1, <2>4
<1> QED BY <1>1, <1>2, <1>3, <1>4

LEMMA ActionsKept ==
  ASSUME HandlerIInv, ParseFails \/ CallAction \/ AppendActionResult \/ NextAlias \/ LastAlias
  PROVE  HandlerIInv'
<1> USE DEF HandlerIInv
<1>1. CASE ParseFails
  <2>1. KiiIInv' /\ pc' = "idle" /\ call' = call /\ hpc = "actions"
    BY <1>1, AbandonedLayer DEF ParseFails, HandlerPlace, Abandon
  <2>2. Err("PARSE_JSON") /\ "PARSE_JSON" \in Codes \ {"OK"}
    BY <1>1 DEF ParseFails, Codes, KhcCodes
  <2> QED BY <2>1, <2>2, ErrTold DEF HandlerPlace, ResultsFollow
<1>2. CASE CallAction
  <2>1. KiiIInv' /\ UNCHANGED vars
    BY <1>2, LayerInvariantKept DEF CallAction
  <2>2. /\ hpc = "actions" /\ hpc' = "append" /\ UNCHANGED <<results, report, pushes>>
        /\ \E r : called' = Append(called, r)
    BY <1>2 DEF CallAction, Goes
  <2> QED BY <2>1, <2>2 DEF vars, HandlerPlace, ResultsFollow, FailuresTold, CallsReported
<1>3. CASE AppendActionResult
  <2>1. KiiIInv'
    BY <1>3, LayerSteps, LayerInvariantKept DEF AppendActionResult
  <2>2. /\ hpc = "append" /\ hpc' = "actions" /\ UNCHANGED <<called, report, pushes>>
        /\ results' = Append(results, called[Len(called)])
        /\ call'.api = call.api /\ pc' = "started" /\ rwBuff' = "body" /\ reqSize' = TRUE
    BY <1>3 DEF AppendActionResult, Goes, AppendBody, KiiIInv, Layer, Place, CallType
  <2>3. PICK S, r : results \in Seq(S) /\ called = Append(results, r)
    BY <2>2 DEF ResultsFollow
  <2>4. results' = called /\ called \in Seq(S \cup {r})
    BY <2>2, <2>3, Appended
  <2>5. ResultsFollow'
    BY <2>2, <2>4 DEF ResultsFollow
  <2>6. HandlerPlace' /\ FailuresTold' /\ CallsReported'
    BY <2>2 DEF HandlerPlace, FailuresTold, CallsReported
  <2> QED BY <2>1, <2>5, <2>6
<1>4. CASE NextAlias \/ LastAlias
  <2>1. KiiIInv' /\ UNCHANGED vars
    BY <1>4, LayerInvariantKept DEF NextAlias, LastAlias
  <2>2. /\ hpc = "actions" /\ hpc' \in {"actions", "close"}
        /\ UNCHANGED <<called, results, report, pushes>>
    BY <1>4 DEF NextAlias, LastAlias, Goes
  <2> QED BY <2>1, <2>2 DEF vars, HandlerPlace, ResultsFollow, FailuresTold, CallsReported
<1> QED BY <1>1, <1>2, <1>3, <1>4

LEMMA ClosingKept ==
  ASSUME HandlerIInv, ResultTooLarge \/ BodyTooLargeForResults \/ AppendEnd \/ RunResultRequest
  PROVE  HandlerIInv'
<1> USE DEF HandlerIInv
<1>0. "TOO_LARGE_DATA" \in Codes \ {"OK"}
  BY DEF Codes, KhcCodes
<1>1. CASE ResultTooLarge
  <2>1. KiiIInv' /\ pc' = "idle" /\ call' = call /\ Err("TOO_LARGE_DATA")
    BY <1>1, AbandonedLayer DEF ResultTooLarge, HandlerPlace, Abandon
  <2> QED BY <1>0, <2>1, ErrTold DEF HandlerPlace, ResultsFollow
<1>2. CASE BodyTooLargeForResults
  <2>1. KiiIInv'
    BY <1>2, LayerSteps, LayerInvariantKept DEF BodyTooLargeForResults
  <2>2. pc' = "idle" /\ call' = call /\ Err("TOO_LARGE_DATA")
    BY <1>2 DEF BodyTooLargeForResults, AppendBodyFails
  <2> QED BY <1>0, <2>1, <2>2, ErrTold DEF HandlerPlace, ResultsFollow
<1>3. CASE AppendEnd
  <2>1. KiiIInv'
    BY <1>3, LayerSteps, LayerInvariantKept DEF AppendEnd
  <2>2. /\ hpc = "close" /\ hpc' = "run" /\ UNCHANGED <<called, results, report, pushes>>
        /\ call'.api = call.api /\ pc' = "started" /\ rwBuff' = "body" /\ reqSize' = TRUE
    BY <1>3 DEF AppendEnd, Goes, AppendBody, KiiIInv, Layer, Place, CallType
  <2> QED BY <2>1, <2>2 DEF HandlerPlace, ResultsFollow, FailuresTold, CallsReported
<1>4. CASE RunResultRequest
  <2>1. KiiIInv'
    BY <1>4, LayerSteps, LayerInvariantKept DEF RunResultRequest
  <2>2. /\ hpc = "run" /\ hpc' = "wait" /\ UNCHANGED <<called, results, pushes>>
        /\ report' = IF result' = "OK" THEN "sent" ELSE result'
        /\ call.api = "kii_api_call" /\ results = called /\ rwBuff = "body" /\ reqSize = TRUE
    BY <1>4 DEF RunResultRequest, Goes, HandlerPlace, ResultsFollow
  <2>3. /\ pc' = "idle" /\ result' \in Codes /\ call' = call
        /\ sent'.body = "body"
    BY <1>4, <2>2, PerformEnds DEF RunResultRequest
  <2>4. report' = "sent" \/ report' \in Codes \ {"OK"}
    BY <2>2, <2>3
  <2> QED BY <2>1, <2>2, <2>3, <2>4 DEF HandlerPlace, ResultsFollow, FailuresTold, CallsReported
<1> QED BY <1>1, <1>2, <1>3, <1>4

LEMMA HandlerStutters ==
  ASSUME HandlerIInv, UNCHANGED <<vars, handler>>
  PROVE  HandlerIInv'
BY LayerInvariantKept DEF HandlerIInv, vars, handler, HandlerPlace, ResultsFollow, FailuresTold,
   CallsReported

\* The invariant that the theorems below follow from.
THEOREM HandlerInductive == HandlerSpec => []HandlerIInv
<1>1. HandlerIInv /\ [HandlerNext]_<<vars, handler>> => HandlerIInv'
  BY WaitingKept, StartingKept, ActionsKept, ClosingKept, HandlerStutters DEF HandlerNext
<1> QED BY <1>1, HandlerInitially, PTL DEF HandlerSpec

(***************************************************************************)
(* Whatever fails, and in the middle of whichever request, a message that  *)
(* was neither taken by cb_push nor reported to the server has its code    *)
(* told to cb_err (_cb_receive_push, _handle_command).                     *)
(***************************************************************************)
THEOREM FailuresAlwaysTold == HandlerSpec => []FailuresTold
BY HandlerInductive, PTL DEF HandlerIInv

(***************************************************************************)
(* A request that was sent reports every call of cb_action.                *)
(***************************************************************************)
THEOREM CallsAlwaysReported == HandlerSpec => []CallsReported
BY HandlerInductive, PTL DEF HandlerIInv

(***************************************************************************)
(* Under the handler as under an application, abandoned requests included, *)
(* khc has the callbacks of the SDK between calls.                         *)
(***************************************************************************)
THEOREM HandlerRestoresCallbacks == HandlerSpec => []CallbacksRestored
<1>1. HandlerIInv => CallbacksRestored
  BY DEF HandlerIInv, KiiIInv
<1> QED BY <1>1, HandlerInductive, PTL

\* The same of the types of the request layer.
THEOREM HandlerTypeCorrect == HandlerSpec => []KiiTypeOK
<1>1. HandlerIInv => KiiTypeOK
  BY DEF HandlerIInv, KiiIInv, Layer
<1> QED BY <1>1, HandlerInductive, PTL
-----------------------------------------------------------------------------
(* The loops over the aliases and the actions.                             *)

\* The actions of each alias, those of the aliases before one, and those up to
\* the k-th of it.
Parts(c) == [a \in 1..Objects(c.aliases) |-> ActionNames(c.aliases[a])]
Before(c, a) == FlattenSeq(SubSeq(Parts(c), 1, a - 1))
Upto(c, a, k) == Before(c, a) \o SubSeq(ActionNames(c.aliases[a]), 1, k)

\* The loops stand at the k-th action of alias a, or behind the last alias.
AtAction(c, a, k) ==
  a \in 1..Objects(c.aliases) /\ k \in 1..Objects(c.aliases[a].actions)
AtEnd(c, a) == a = Objects(c.aliases) + 1

\* The least length at which an array stops being one of objects is the only one.
LEMMA ObjectsFound ==
  ASSUME NEW array, IsArray(array)
  PROVE  /\ Objects(array) \in Nat /\ Objects(array) <= Len(array)
         /\ \A i \in 1..Objects(array) : Element(array, i) = "object"
         /\ Element(array, Objects(array) + 1) # "object"
<1> DEFINE Ends(n) == /\ \A i \in 1..n : array[i].kind = "object"
                      /\ n < Len(array) => array[n + 1].kind # "object"
           N == {n \in Nat : n <= Len(array) /\ (n < Len(array) => array[n + 1].kind # "object")}
<1>1. Len(array) \in Nat
  BY DEF IsArray
<1>2. PICK n \in N : \A m \in N : n <= m
  <2>1. Len(array) \in N
    BY <1>1
  <2> HIDE DEF N
  <2>2. N \subseteq Nat
    BY DEF N
  <2> QED BY <2>1, <2>2, LeastNumber
<1>3. \A i \in 1..n : array[i].kind = "object"
  <2> TAKE i \in 1..n
  <2>1. i - 1 \in Nat /\ i - 1 < n /\ i - 1 < Len(array) /\ (i - 1) + 1 = i
    BY <1>1, <1>2
  <2>2. i - 1 \notin N
    BY <1>2, <2>1
  <2> QED BY <2>1, <2>2
<1>4. n \in 0..Len(array) /\ Ends(n)
  BY <1>1, <1>2, <1>3
<1>5. Objects(array) = CHOOSE m \in 0..Len(array) : Ends(m)
  BY DEF Objects
<1> HIDE DEF Ends
<1>6. Objects(array) \in 0..Len(array) /\ Ends(Objects(array))
  BY <1>4, <1>5
<1>7. Objects(array) \in Nat /\ Objects(array) <= Len(array)
  BY <1>1, <1>6
<1>8. \A i \in 1..Objects(array) : Element(array, i) = "object"
  <2> TAKE i \in 1..Objects(array)
  <2>1. i <= Len(array)
    BY <1>1, <1>7
  <2> QED BY <1>6, <2>1 DEF Ends, Element
<1>9. Element(array, Objects(array) + 1) # "object"
  BY <1>1, <1>6, <1>7 DEF Ends, Element
<1> QED BY <1>7, <1>8, <1>9

\* The names that a command gives to its actions.
NamesOf(c) ==
  UNION {{c.aliases[a].actions[i].name : i \in 1..Objects(c.aliases[a].actions)} :
    a \in 1..Objects(c.aliases)}

LEMMA PartsType ==
  ASSUME NEW c, IsCommand(c)
  PROVE  /\ Objects(c.aliases) \in Nat
         /\ \A a \in 1..Objects(c.aliases) :
              /\ IsArray(c.aliases[a].actions)
              /\ Objects(c.aliases[a].actions) \in Nat
              /\ ActionNames(c.aliases[a]) \in Seq(NamesOf(c))
              /\ Len(ActionNames(c.aliases[a])) = Objects(c.aliases[a].actions)
         /\ Parts(c) \in Seq(Seq(NamesOf(c))) /\ Len(Parts(c)) = Objects(c.aliases)
<1>1. /\ Objects(c.aliases) \in Nat /\ Objects(c.aliases) <= Len(c.aliases)
      /\ \A i \in 1..Objects(c.aliases) : Element(c.aliases, i) = "object"
      /\ c.aliases \in Seq(Range(c.aliases)) /\ Len(c.aliases) \in Nat
  BY ObjectsFound DEF IsCommand, IsArray
<1>2. ASSUME NEW a \in 1..Objects(c.aliases)
      PROVE  /\ IsArray(c.aliases[a].actions)
             /\ Objects(c.aliases[a].actions) \in Nat
             /\ ActionNames(c.aliases[a]) \in Seq(NamesOf(c))
             /\ Len(ActionNames(c.aliases[a])) = Objects(c.aliases[a].actions)
  <2> DEFINE n == Objects(c.aliases[a].actions)
  <2>1. a \in 1..Len(c.aliases)
    BY <1>1
  <2>2. c.aliases[a] \in Range(c.aliases) /\ c.aliases[a].kind = "object"
    BY <1>1, <2>1 DEF Element
  <2>3. IsArray(c.aliases[a].actions)
    BY <2>2 DEF IsCommand
  <2>4. n \in Nat
    BY <2>3, ObjectsFound
  <2>5. \A i \in 1..n : c.aliases[a].actions[i].name \in NamesOf(c)
    BY DEF NamesOf
  <2>6. ActionNames(c.aliases[a]) \in [1..n -> NamesOf(c)]
    BY <2>5 DEF ActionNames
  <2> QED BY <2>3, <2>4, <2>6, FunctionSeq
<1>3. Parts(c) \in [1..Objects(c.aliases) -> Seq(NamesOf(c))]
  BY <1>2 DEF Parts
<1> QED BY <1>1, <1>2, <1>3, FunctionSeq

LEMMA ActionsType ==
  ASSUME NEW c, IsCommand(c)
  PROVE  ActionsOf(c) \in Seq(NamesOf(c)) /\ ActionsOf(c) = FlattenSeq(Parts(c))
BY PartsType, FlattenType DEF ActionsOf, Parts

\* Before the first alias nothing is done, and behind the last one everything.
LEMMA BeforeEnds ==
  ASSUME NEW c, IsCommand(c)
  PROVE  Before(c, 1) = <<>> /\ Before(c, Objects(c.aliases) + 1) = ActionsOf(c)
<1>1. Parts(c) \in Seq(Seq(NamesOf(c))) /\ Len(Parts(c)) = Objects(c.aliases)
  BY PartsType
<1>2. SubSeq(Parts(c), 1, 1 - 1) = <<>> /\ SubSeq(Parts(c), 1, Len(Parts(c))) = Parts(c)
  BY <1>1
<1>3. (Objects(c.aliases) + 1) - 1 = Len(Parts(c))
  BY <1>1, PartsType
<1> QED BY <1>2, <1>3, FlattenEmpty, ActionsType DEF Before

LEMMA BeforeType ==
  ASSUME NEW c, IsCommand(c), NEW a \in 1..Objects(c.aliases) + 1
  PROVE  Before(c, a) \in Seq(NamesOf(c)) /\ IsPrefix(Before(c, a), ActionsOf(c))
<1>1. Parts(c) \in Seq(Seq(NamesOf(c))) /\ Len(Parts(c)) = Objects(c.aliases)
      /\ Objects(c.aliases) \in Nat
  BY PartsType
<1>2. a - 1 \in 0..Len(Parts(c))
  BY <1>1
<1>3. SubSeq(Parts(c), 1, a - 1) \in Seq(Seq(NamesOf(c)))
  BY <1>1, <1>2
<1>4. Before(c, a) \in Seq(NamesOf(c))
  BY <1>3, FlattenType DEF Before
<1> QED BY <1>1, <1>2, <1>4, FlattenPrefix, ActionsType DEF Before

\* Behind the last action of an alias stands the next alias.
LEMMA AliasDone ==
  ASSUME NEW c, IsCommand(c), NEW a \in 1..Objects(c.aliases)
  PROVE  Upto(c, a, Objects(c.aliases[a].actions)) = Before(c, a + 1)
<1>1. Parts(c) \in Seq(Seq(NamesOf(c))) /\ Len(Parts(c)) = Objects(c.aliases)
      /\ Objects(c.aliases) \in Nat
  BY PartsType
<1>2. a - 1 \in 0..Len(Parts(c)) - 1 /\ (a + 1) - 1 = a /\ (a - 1) + 1 = a
  BY <1>1
<1>3. Before(c, a + 1) = Before(c, a) \o Parts(c)[a]
  BY <1>1, <1>2, FlattenUpto DEF Before
<1>4. Parts(c)[a] = ActionNames(c.aliases[a])
  BY DEF Parts
<1>5. SubSeq(ActionNames(c.aliases[a]), 1, Objects(c.aliases[a].actions)) = ActionNames(c.aliases[a])
  BY PartsType
<1> QED BY <1>3, <1>4, <1>5 DEF Upto

LEMMA UptoNone ==
  ASSUME NEW c, IsCommand(c), NEW a \in 1..Objects(c.aliases)
  PROVE  Upto(c, a, 0) = Before(c, a)
<1>1. a \in 1..Objects(c.aliases) + 1
  BY PartsType
<1>2. Before(c, a) \in Seq(NamesOf(c))
  BY <1>1, BeforeType
<1>3. SubSeq(ActionNames(c.aliases[a]), 1, 0) = <<>>
  BY PartsType
<1> QED BY <1>2, <1>3 DEF Upto

LEMMA UptoNext ==
  ASSUME NEW c, IsCommand(c), NEW a, NEW k, AtAction(c, a, k)
  PROVE  Upto(c, a, k) = Append(Upto(c, a, k - 1), c.aliases[a].actions[k].name)
<1> DEFINE names == ActionNames(c.aliases[a])
           name == c.aliases[a].actions[k].name
<1>1. /\ a \in 1..Objects(c.aliases) /\ k \in 1..Objects(c.aliases[a].actions)
      /\ names \in Seq(NamesOf(c)) /\ Len(names) = Objects(c.aliases[a].actions)
      /\ Objects(c.aliases[a].actions) \in Nat
      /\ a \in 1..Objects(c.aliases) + 1
  BY PartsType DEF AtAction
<1>2. names[k] = name
  BY <1>1 DEF ActionNames
<1>3. Before(c, a) \in Seq(NamesOf(c))
  BY <1>1, BeforeType
<1>4. name \in NamesOf(c)
  <2>1. names[k] \in NamesOf(c)
    BY <1>1
  <2> QED BY <1>2, <2>1
<1>5. Upto(c, a, k) = Before(c, a) \o SubSeq(names, 1, k)
      /\ Upto(c, a, k - 1) = Before(c, a) \o SubSeq(names, 1, k - 1)
  BY DEF Upto
<1> HIDE DEF names, name
<1>6. SubSeq(names, 1, k) = Append(SubSeq(names, 1, k - 1), name)
  BY <1>1, <1>2
<1>7. SubSeq(names, 1, k - 1) \in Seq(NamesOf(c))
  BY <1>1
<1>8. Before(c, a) \o Append(SubSeq(names, 1, k - 1), name)
        = Append(Before(c, a) \o SubSeq(names, 1, k - 1), name)
  BY <1>3, <1>4, <1>7
<1> QED BY <1>5, <1>6, <1>8 DEF name

LEMMA UptoPrefix ==
  ASSUME NEW c, IsCommand(c), NEW a, NEW k, AtAction(c, a, k)
  PROVE  IsPrefix(Upto(c, a, k), ActionsOf(c))
<1> DEFINE names == ActionNames(c.aliases[a])
           n == Objects(c.aliases[a].actions)
           S == NamesOf(c)
<1>1. /\ a \in 1..Objects(c.aliases) /\ k \in 1..n
      /\ names \in Seq(S) /\ Len(names) = n /\ n \in Nat
      /\ a \in 1..Objects(c.aliases) + 1 /\ a + 1 \in 1..Objects(c.aliases) + 1
  BY PartsType DEF AtAction
<1>2. /\ Before(c, a) \in Seq(S) /\ Before(c, a + 1) \in Seq(S)
      /\ IsPrefix(Before(c, a + 1), ActionsOf(c)) /\ ActionsOf(c) \in Seq(S)
  BY <1>1, BeforeType, ActionsType
<1>3. /\ Before(c, a + 1) = Before(c, a) \o SubSeq(names, 1, n)
      /\ Upto(c, a, k) = Before(c, a) \o SubSeq(names, 1, k)
  BY <1>1, AliasDone DEF Upto
<1> HIDE DEF names, n, S
<1>4. /\ SubSeq(names, 1, k) \in Seq(S) /\ SubSeq(names, 1, n) \in Seq(S)
      /\ Len(SubSeq(names, 1, k)) <= Len(SubSeq(names, 1, n))
      /\ \A i \in 1..Len(SubSeq(names, 1, k)) : SubSeq(names, 1, k)[i] = SubSeq(names, 1, n)[i]
  BY <1>1
<1>5. IsPrefix(SubSeq(names, 1, k), SubSeq(names, 1, n))
  BY <1>4, PrefixByElement
<1>6. IsPrefix(Upto(c, a, k), Before(c, a + 1))
  BY <1>2, <1>3, <1>4, <1>5, PrefixConcat
<1>7. Upto(c, a, k) \in Seq(S)
  BY <1>2, <1>3, <1>4, ConcatProperties
<1> QED BY <1>2, <1>6, <1>7, PrefixTransitive

\* What has been called, by where the handler is.
ActionsDone ==
  /\ IsCommand(command)
  /\ \E S : called \in Seq(S)
  /\ hpc \in {"parse", "start", "starting"} => called = <<>> /\ aliasIdx = 1 /\ actionIdx = 1
  /\ hpc = "actions" =>
       \/ AtEnd(command, aliasIdx) /\ CalledNames = ActionsOf(command)
       \/ /\ aliasIdx \in 1..Objects(command.aliases)
          /\ actionIdx \in 1..Objects(command.aliases[aliasIdx].actions) + 1
          /\ CalledNames = Upto(command, aliasIdx, actionIdx - 1)
  /\ hpc = "append" =>
       AtAction(command, aliasIdx, actionIdx) /\ CalledNames = Upto(command, aliasIdx, actionIdx)
  /\ hpc \in {"close", "run"} => CalledNames = ActionsOf(command)
  /\ report = "sent" => CalledNames = ActionsOf(command)
  /\ ActionsInOrder

-----------------------------------------------------------------------------
(* A call of cb_action goes behind the calls made.                         *)

LEMMA NoNames == called = <<>> => CalledNames = <<>>
<1> SUFFICES ASSUME called = <<>> PROVE CalledNames = <<>>
  OBVIOUS
<1>1. Len(called) = 0
  OBVIOUS
<1> QED BY <1>1 DEF CalledNames

LEMMA CalledNext ==
  ASSUME NEW S, called \in Seq(S), NEW r, called' = Append(called, r)
  PROVE  CalledNames' = Append(CalledNames, r.name) /\ called' \in Seq(S \cup {r})
<1> DEFINE n == Len(called)
           names == [i \in 1..n |-> called[i].name]
           T == {called[i].name : i \in 1..n} \cup {r.name}
<1>1. /\ n \in Nat /\ Len(called') = n + 1 /\ called'[n + 1] = r
      /\ \A i \in 1..n : called'[i] = called[i]
      /\ called' \in Seq(S \cup {r})
  <2>1. called \in Seq(S \cup {r})
    OBVIOUS
  <2> QED BY <2>1, AppendProperties
<1>2. names \in [1..n -> T] /\ r.name \in T
  OBVIOUS
<1>3. names \in Seq(T) /\ Len(names) = n
  <2> HIDE DEF names, T
  <2> QED BY <1>1, <1>2, FunctionSeq
<1>4. CalledNames' = [i \in 1..n + 1 |-> called'[i].name] /\ CalledNames = names
  BY <1>1 DEF CalledNames
<1>5. \A i \in 1..n : names[i] = called[i].name
  OBVIOUS
<1> HIDE DEF names, T, n
<1>6. /\ Append(names, r.name) \in Seq(T) /\ Len(Append(names, r.name)) = n + 1
      /\ Append(names, r.name)[n + 1] = r.name
      /\ \A i \in 1..n : Append(names, r.name)[i] = names[i]
  BY <1>1, <1>2, <1>3, AppendProperties
<1>7. \A i \in 1..n + 1 : Append(names, r.name)[i] = called'[i].name
  <2> TAKE i \in 1..n + 1
  <2>1. CASE i = n + 1
    BY <1>1, <1>6, <2>1
  <2>2. CASE i # n + 1
    <3>1. i \in 1..n
      BY <1>1, <2>2
    <3> QED BY <1>1, <1>5, <1>6, <3>1
  <2> QED BY <2>1, <2>2
<1>8. Append(names, r.name) = [i \in 1..n + 1 |-> Append(names, r.name)[i]]
  BY <1>6
<1> QED BY <1>1, <1>4, <1>7, <1>8

LEMMA NothingIsPrefix ==
  ASSUME NEW S, NEW s \in Seq(S)
  PROVE  IsPrefix(<<>>, s)
<1> DEFINE none == <<>>
<1>1. none \in Seq(S) /\ Len(none) = 0 /\ Len(s) \in Nat
  OBVIOUS
<1> HIDE DEF none
<1>2. Len(none) <= Len(s) /\ \A i \in 1..Len(none) : none[i] = s[i]
  BY <1>1
<1>3. IsPrefix(none, s)
  BY <1>1, <1>2, PrefixByElement
<1> QED BY <1>3 DEF none

-----------------------------------------------------------------------------

LEMMA DoneInitially == HandlerInit => ActionsDone
<1> SUFFICES ASSUME HandlerInit PROVE ActionsDone
  OBVIOUS
<1>1. /\ command.aliases = <<>> /\ hpc = "off" /\ report = "none" /\ called = <<>>
  BY DEF HandlerInit
<1>2. <<>> \in Seq({}) /\ <<>> \in Seq(Range(<<>>)) /\ Range(<<>>) = {}
  BY DEF Range
<1>3. IsCommand(command)
  BY <1>1, <1>2 DEF IsCommand, IsArray
<1>4. ActionsInOrder
  BY <1>1, <1>3, NoNames, NothingIsPrefix, ActionsType DEF ActionsInOrder
<1> QED BY <1>1, <1>2, <1>3, <1>4 DEF ActionsDone

\* Nothing is called, and the handler stays or gives the message up.
LEMMA GivenUp ==
  ASSUME ActionsDone, UNCHANGED <<command, called>>, hpc' = "wait", report' # "sent"
  PROVE  ActionsDone'
BY DEF ActionsDone, CalledNames, ActionsInOrder

LEMMA ErrGivenUp ==
  ASSUME ActionsDone, NEW code \in Codes, Err(code)
  PROVE  ActionsDone'
<1>1. code # "sent"
  BY DEF Codes, KhcCodes
<1> QED BY <1>1, GivenUp DEF Err

LEMMA DoneStarting ==
  ASSUME HandlerIInv, ActionsDone,
         Start \/ (\E c \in Commands : Push(c)) \/ ParseCommand \/ ResultPathTooLarge
         \/ StartResultRequest \/ Starting \/ StartFails
  PROVE  ActionsDone'
<1>1. ASSUME hpc' \in {"off", "wait"}, UNCHANGED <<command, called, report>> PROVE ActionsDone'
  BY <1>1 DEF ActionsDone, CalledNames, ActionsInOrder
<1>2. ASSUME hpc \in {"parse", "start", "starting"}, hpc' \in {"parse", "start", "starting"},
             UNCHANGED <<command, called, aliasIdx, actionIdx, report>>
      PROVE ActionsDone'
  BY <1>2 DEF ActionsDone, CalledNames, ActionsInOrder
<1>3. ASSUME NEW c \in Commands, Push(c) PROVE ActionsDone'
  <2>1. IsCommand(c) /\ command' = c /\ called' = <<>> /\ aliasIdx' = 1 /\ actionIdx' = 1
        /\ hpc' \in {"wait", "parse"} /\ report' # "sent"
    BY <1>3, CommandsAssumption DEF CommandsAssumption, Push
  <2>2. <<>> \in Seq({}) /\ CalledNames' = <<>>
    <3>1. Len(called') = 0
      BY <2>1
    <3> QED BY <3>1 DEF CalledNames
  <2>3. ActionsInOrder'
    BY <2>1, <2>2, NothingIsPrefix, ActionsType DEF ActionsInOrder
  <2> QED BY <2>1, <2>2, <2>3 DEF ActionsDone
<1>4. CASE Start
  BY <1>1, <1>4 DEF Start, Goes
<1>5. CASE ParseCommand
  BY <1>2, <1>5, ErrGivenUp DEF ParseCommand, Codes
<1>6. CASE ResultPathTooLarge
  BY <1>6, ErrGivenUp DEF ResultPathTooLarge, Codes, KhcCodes
<1>7. CASE StartResultRequest
  BY <1>2, <1>7 DEF StartResultRequest, Goes
<1>8. CASE Starting
  BY <1>2, <1>8 DEF Starting, handler
<1>9. CASE StartFails
  <2>1. result \in Codes
    BY <1>9 DEF StartFails, HandlerIInv, HandlerPlace
  <2> QED BY <1>9, <2>1, ErrGivenUp DEF StartFails
<1> QED BY <1>3, <1>4, <1>5, <1>6, <1>7, <1>8, <1>9

LEMMA DoneAppendStart ==
  ASSUME ActionsDone, AppendStart
  PROVE  ActionsDone'
<1>1. /\ hpc = "starting" /\ hpc' = "actions"
      /\ UNCHANGED <<command, aliasIdx, actionIdx, called, report>>
  BY DEF AppendStart, Goes
<1>2. IsCommand(command) /\ called = <<>> /\ aliasIdx = 1 /\ actionIdx = 1 /\ CalledNames = <<>>
  BY <1>1, NoNames DEF ActionsDone
<1>3. Objects(command.aliases) \in Nat
      /\ \A a \in 1..Objects(command.aliases) : Objects(command.aliases[a].actions) \in Nat
  BY <1>2, PartsType
<1>4. CASE Objects(command.aliases) = 0
  <2>1. AtEnd(command, aliasIdx) /\ CalledNames = ActionsOf(command)
    BY <1>2, <1>4, BeforeEnds DEF AtEnd
  <2> QED BY <1>1, <2>1 DEF ActionsDone, CalledNames, ActionsInOrder
<1>5. CASE Objects(command.aliases) # 0
  <2>1. aliasIdx \in 1..Objects(command.aliases)
    BY <1>2, <1>3, <1>5
  <2>2. actionIdx \in 1..Objects(command.aliases[aliasIdx].actions) + 1 /\ actionIdx - 1 = 0
    BY <1>2, <1>3, <2>1
  <2>3. CalledNames = Upto(command, aliasIdx, actionIdx - 1)
    BY <1>2, <2>1, <2>2, UptoNone, BeforeEnds
  <2> QED BY <1>1, <2>1, <2>2, <2>3 DEF ActionsDone, CalledNames, ActionsInOrder
<1> QED BY <1>4, <1>5

\* An element that reads as the end of the objects is behind the last of them.
LEMMA PastObjects ==
  ASSUME NEW array, IsArray(array), NEW i \in 1..Objects(array) + 1
  PROVE  Element(array, i) = "object" <=> i \in 1..Objects(array)
<1>1. Objects(array) \in Nat
  BY ObjectsFound
<1>2. i \in 1..Objects(array) \/ i = Objects(array) + 1
  BY <1>1
<1>3. i = Objects(array) + 1 => i \notin 1..Objects(array)
  BY <1>1
<1> QED BY <1>2, <1>3, ObjectsFound

LEMMA DoneCall ==
  ASSUME HandlerIInv, ActionsDone, CallAction
  PROVE  ActionsDone'
<1> DEFINE actions == command.aliases[aliasIdx].actions
           name == actions[actionIdx].name
<1>1. /\ hpc = "actions" /\ hpc' = "append"
      /\ UNCHANGED <<command, aliasIdx, actionIdx, report>>
      /\ Element(command.aliases, aliasIdx) = "object"
      /\ Element(actions, actionIdx) = "object"
      /\ IsCommand(command)
  BY DEF CallAction, Goes, Alias, Action, ActionsDone
<1>2. IsArray(command.aliases) /\ Objects(command.aliases) \in Nat
  BY <1>1, PartsType DEF IsCommand
<1>3. ~AtEnd(command, aliasIdx)
  BY <1>1, <1>2, ObjectsFound DEF AtEnd
<1>4. /\ aliasIdx \in 1..Objects(command.aliases)
      /\ actionIdx \in 1..Objects(actions) + 1
      /\ CalledNames = Upto(command, aliasIdx, actionIdx - 1)
  BY <1>1, <1>3 DEF ActionsDone
<1>5. IsArray(actions)
  BY <1>1, <1>4, PartsType
<1>6. actionIdx \in 1..Objects(actions)
  BY <1>1, <1>4, <1>5, PastObjects
<1>7. AtAction(command, aliasIdx, actionIdx)
  BY <1>4, <1>6 DEF AtAction
<1>8. PICK r : called' = Append(called, r) /\ r.name = name
  BY DEF CallAction
<1>9. PICK S : called \in Seq(S)
  BY DEF ActionsDone
<1>10. CalledNames' = Append(CalledNames, name) /\ called' \in Seq(S \cup {r})
  BY <1>8, <1>9, CalledNext
<1>11. CalledNames' = Upto(command, aliasIdx, actionIdx)
  BY <1>1, <1>4, <1>7, <1>10, UptoNext
<1>12. ActionsInOrder'
  <2>1. IsPrefix(Upto(command, aliasIdx, actionIdx), ActionsOf(command))
    BY <1>1, <1>7, UptoPrefix
  <2> QED BY <1>1, <1>11, <2>1 DEF ActionsInOrder
<1>13. report' # "sent"
  BY <1>1 DEF HandlerIInv, HandlerPlace
<1> QED BY <1>1, <1>7, <1>10, <1>11, <1>12, <1>13 DEF ActionsDone

LEMMA DoneAppend ==
  ASSUME ActionsDone, AppendActionResult
  PROVE  ActionsDone'
<1>1. /\ hpc = "append" /\ hpc' = "actions" /\ actionIdx' = actionIdx + 1
      /\ UNCHANGED <<command, aliasIdx, called, report>>
  BY DEF AppendActionResult, Goes
<1>2. /\ IsCommand(command) /\ AtAction(command, aliasIdx, actionIdx)
      /\ CalledNames = Upto(command, aliasIdx, actionIdx)
  BY <1>1 DEF ActionsDone
<1>3. /\ aliasIdx \in 1..Objects(command.aliases)
      /\ actionIdx \in 1..Objects(command.aliases[aliasIdx].actions)
      /\ Objects(command.aliases[aliasIdx].actions) \in Nat
  BY <1>2, PartsType DEF AtAction
<1>4. actionIdx' \in 1..Objects(command.aliases[aliasIdx].actions) + 1 /\ actionIdx' - 1 = actionIdx
  BY <1>1, <1>3
<1> QED BY <1>1, <1>2, <1>3, <1>4 DEF ActionsDone, CalledNames, ActionsInOrder

LEMMA DoneNextAlias ==
  ASSUME ActionsDone, NextAlias
  PROVE  ActionsDone'
<1> DEFINE actions == command.aliases[aliasIdx].actions
<1>1. /\ hpc = "actions" /\ hpc' = "actions" /\ aliasIdx' = aliasIdx + 1 /\ actionIdx' = 1
      /\ UNCHANGED <<command, called, report>>
      /\ Element(command.aliases, aliasIdx) = "object"
      /\ Element(actions, actionIdx) # "object"
      /\ IsCommand(command)
  BY DEF NextAlias, Alias, Action, ActionsDone
<1>2. IsArray(command.aliases) /\ Objects(command.aliases) \in Nat
  BY <1>1, PartsType DEF IsCommand
<1>3. ~AtEnd(command, aliasIdx)
  BY <1>1, <1>2, ObjectsFound DEF AtEnd
<1>4. /\ aliasIdx \in 1..Objects(command.aliases)
      /\ actionIdx \in 1..Objects(actions) + 1
      /\ CalledNames = Upto(command, aliasIdx, actionIdx - 1)
  BY <1>1, <1>3 DEF ActionsDone
<1>5. IsArray(actions) /\ Objects(actions) \in Nat
  BY <1>1, <1>4, PartsType
<1>6. actionIdx - 1 = Objects(actions)
  <2>1. actionIdx \notin 1..Objects(actions)
    BY <1>1, <1>4, <1>5, PastObjects
  <2> HIDE DEF actions
  <2> QED BY <1>4, <1>5, <2>1
<1>7. CalledNames = Before(command, aliasIdx + 1)
  BY <1>1, <1>4, <1>6, AliasDone
<1>8. CASE aliasIdx = Objects(command.aliases)
  <2>1. AtEnd(command', aliasIdx') /\ CalledNames' = ActionsOf(command')
    BY <1>1, <1>7, <1>8, BeforeEnds DEF AtEnd, CalledNames
  <2> QED BY <1>1, <2>1 DEF ActionsDone, CalledNames, ActionsInOrder
<1>9. CASE aliasIdx # Objects(command.aliases)
  <2>1. aliasIdx + 1 \in 1..Objects(command.aliases)
    BY <1>2, <1>4, <1>9
  <2>2. 1 \in 1..Objects(command.aliases[aliasIdx + 1].actions) + 1
    <3>1. Objects(command.aliases[aliasIdx + 1].actions) \in Nat
      BY <1>1, <2>1, PartsType
    <3> QED BY <3>1
  <2>3. CalledNames = Upto(command, aliasIdx + 1, 1 - 1)
    BY <1>1, <1>7, <2>1, UptoNone
  <2> QED BY <1>1, <2>1, <2>2, <2>3 DEF ActionsDone, CalledNames, ActionsInOrder
<1> QED BY <1>8, <1>9

LEMMA DoneLastAlias ==
  ASSUME ActionsDone, LastAlias
  PROVE  ActionsDone'
<1>1. /\ hpc = "actions" /\ hpc' = "close" /\ UNCHANGED <<command, called, report>>
      /\ Element(command.aliases, aliasIdx) # "object" /\ IsCommand(command)
  BY DEF LastAlias, Goes, Alias, ActionsDone
<1>2. aliasIdx \notin 1..Objects(command.aliases)
  BY <1>1, ObjectsFound DEF IsCommand
<1>3. CalledNames = ActionsOf(command)
  BY <1>1, <1>2 DEF ActionsDone
<1> QED BY <1>1, <1>3 DEF ActionsDone, CalledNames, ActionsInOrder

LEMMA DoneClosing ==
  ASSUME HandlerIInv, ActionsDone,
         ParseFails \/ ResultTooLarge \/ BodyTooLargeForResults \/ AppendEnd \/ RunResultRequest
  PROVE  ActionsDone'
<1>1. CASE ParseFails \/ ResultTooLarge \/ BodyTooLargeForResults
  BY <1>1, ErrGivenUp DEF ParseFails, ResultTooLarge, BodyTooLargeForResults, Codes, KhcCodes
<1>2. CASE AppendEnd
  <2>1. hpc = "close" /\ hpc' = "run" /\ UNCHANGED <<command, called, report>>
    BY <1>2 DEF AppendEnd, Goes
  <2> QED BY <2>1 DEF ActionsDone, CalledNames, ActionsInOrder
<1>3. CASE RunResultRequest
  <2>1. hpc = "run" /\ hpc' = "wait" /\ UNCHANGED <<command, called>>
    BY <1>3 DEF RunResultRequest, Goes
  <2> QED BY <2>1 DEF ActionsDone, CalledNames, ActionsInOrder
<1> QED BY <1>1, <1>2, <1>3

LEMMA DoneStutters ==
  ASSUME ActionsDone, UNCHANGED <<vars, handler>>
  PROVE  ActionsDone'
BY DEF handler, ActionsDone, CalledNames, ActionsInOrder

\* The calls made are at all times those that the place in the loops tells.
THEOREM ActionsInductive == HandlerSpec => [](HandlerIInv /\ ActionsDone)
<1>1. HandlerIInv /\ ActionsDone /\ [HandlerNext]_<<vars, handler>> => ActionsDone'
  BY DoneStarting, DoneAppendStart, DoneCall, DoneAppend, DoneNextAlias, DoneLastAlias,
     DoneClosing, DoneStutters DEF HandlerNext
<1>2. HandlerSpec => ActionsDone
  BY DoneInitially DEF HandlerSpec
<1> QED BY <1>1, <1>2, HandlerInductive, PTL DEF HandlerSpec

(***************************************************************************)
(* Whatever fails while the results are put together, a device is told the *)
(* actions of the command, none twice, none left out before another and    *)
(* none out of order (the loops of _handle_command).                       *)
(***************************************************************************)
THEOREM ActionsAlwaysInOrder == HandlerSpec => []ActionsInOrder
<1>1. ActionsDone => ActionsInOrder
  BY DEF ActionsDone
<1> QED BY <1>1, ActionsInductive, PTL

(***************************************************************************)
(* The request that reports a command tells of all its actions, with what  *)
(* cb_action returned for each, and of nothing else.                       *)
(***************************************************************************)
THEOREM ResultsAlwaysFaithful == HandlerSpec => []ResultsFaithful
<1>1. HandlerIInv /\ ActionsDone => ResultsFaithful
  BY DEF HandlerIInv, CallsReported, ActionsDone, ResultsFaithful
<1> QED BY <1>1, ActionsInductive, PTL
=============================================================================
