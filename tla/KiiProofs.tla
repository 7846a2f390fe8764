----------------------------- MODULE KiiProofs ------------------------------
(***************************************************************************)
(* What is proved of the request layer, for every choice of functions an   *)
(* application calls and every set of things.                              *)
(***************************************************************************)
EXTENDS KiiRequest, FlattenTheorems

\* The steps of a function begin with its path and have it nowhere else.
StepNames == HeaderNames \cup {"path", "body", "empty"}
PathLeads(s) == s \in Seq(StepNames) /\ \A i \in 2..Len(s) : s[i] # "path"

LEMMA FlowShapes ==
  /\ \A api \in DOMAIN ObjectCalls : PathLeads(ObjectCalls[api].flow.steps)
  /\ \A api \in DOMAIN PushCalls : PathLeads(PushCalls[api].flow.steps)
  /\ \A api \in DOMAIN ThingCalls : PathLeads(ThingCalls[api].flow.steps)
  /\ \A api \in DOMAIN ThingIfCalls : PathLeads(ThingIfCalls[api].flow.steps)
  /\ \A api \in DOMAIN OtherCalls : PathLeads(OtherCalls[api].flow.steps)
<1>1. PathLeads(JsonSteps) /\ PathLeads(EmptySteps) /\ PathLeads(KeySteps)
  BY DEF PathLeads, StepNames, HeaderNames, JsonSteps, EmptySteps, KeySteps
<1>2. /\ PathLeads(PutObject.steps) /\ PathLeads(PatchObject.steps)
      /\ PathLeads(UploadBody.steps)
  BY DEF PathLeads, StepNames, HeaderNames, Flow, PutObject, PatchObject, UploadBody
<1>3. /\ PathLeads(AnonymousToken.steps) /\ PathLeads(Onboard.steps)
      /\ PathLeads(PutFirmwareVersion.steps) /\ PathLeads(GetFirmwareVersion.steps)
      /\ PathLeads(UploadState.steps)
  BY DEF PathLeads, StepNames, HeaderNames, Flow, AnonymousToken, Onboard,
     PutFirmwareVersion, GetFirmwareVersion, UploadState
<1>4. PathLeads(ApiCallStart.steps)
  BY DEF PathLeads, StepNames, HeaderNames, Flow, ApiCallStart
<1>5. \A api \in DOMAIN ObjectCalls : PathLeads(ObjectCalls[api].flow.steps)
  BY <1>1, <1>2 DEF Api, Flow, ObjectCalls, PostObject, DeleteObject, GetObject,
     DownloadBody
<1>6. \A api \in DOMAIN PushCalls : PathLeads(PushCalls[api].flow.steps)
  BY <1>1 DEF Api, Flow, PushCalls, InstallPush, GetMqttEndpoint, SubscribeBucket,
     UnsubscribeBucket, SubscribeTopic, UnsubscribeTopic, PutTopic, DeleteTopic
<1>7. \A api \in DOMAIN ThingCalls : PathLeads(ThingCalls[api].flow.steps)
  BY <1>1 DEF Api, Flow, ThingCalls, ThingAuth, ThingRegister
<1>8. \A api \in DOMAIN ThingIfCalls : PathLeads(ThingIfCalls[api].flow.steps)
  BY <1>3 DEF Api, ThingIfCalls
<1>9. \A api \in DOMAIN OtherCalls : PathLeads(OtherCalls[api].flow.steps)
  BY <1>1, <1>4 DEF Api, Flow, OtherCalls, ExecuteServerCode
<1> QED BY <1>5, <1>6, <1>7, <1>8, <1>9

LEMMA StepsShape ==
  \A api \in ApiNames : PathLeads(Steps(api))
BY FlowShapes DEF Steps, AllCalls, ApiNames

\* The functions whose answer is an identity look for all of its fields.
LEMMA AuthCallsParse ==
  \A api \in AuthCalls : api \in ApiNames /\ AllCalls[api].parses
BY DEF AuthCalls, AllCalls, ApiNames, ObjectCalls, PushCalls, ThingCalls,
   ThingIfCalls, OtherCalls, Api

---------------------------------------------------------------------------
\* What every state of the layer satisfies, besides its types: the function
\* is one that exists, and its path is only ever the first step left.
CallType ==
  [api : ApiNames \cup {"kii_init"}, asks : SUBSET HeaderNames,
   thing : Things \cup {"none"}, appended : Nat, body : BOOLEAN]

Place ==
  /\ call \in CallType
  /\ pc # "idle" => call.api \in ApiNames
  /\ pc = "started" => call.api = "kii_api_call"
  /\ PathLeads(todo)

LEMMA CallsTyped ==
  \A c \in Calls : c \in CallType /\ c.api \in ApiNames /\ c.api # "_onboard"
<1> SUFFICES ASSUME NEW c \in Calls
             PROVE  c \in CallType /\ c.api \in ApiNames /\ c.api # "_onboard"
  OBVIOUS
<1>1. PICK api \in Apis :
        c \in [api : {api}, asks : SUBSET Optional(api),
               thing : IF api \in AuthCalls \cup {"kii_ti_onboard"}
                       THEN Things ELSE {"none"},
               appended : {0}, body : {FALSE}]
  BY DEF Calls
<1>2. api \in ApiNames /\ api # "_onboard"
  BY ApisAssumption
<1>3. Optional(api) \subseteq HeaderNames
  BY DEF Optional, HeaderNames
<1>4. /\ c.api = api /\ c.asks \in SUBSET HeaderNames
      /\ c.thing \in Things \cup {"none"} /\ c.appended = 0
  BY <1>1, <1>3
<1>5. c.body \in BOOLEAN
  BY <1>1
<1>6. c = [api |-> c.api, asks |-> c.asks, thing |-> c.thing,
           appended |-> c.appended, body |-> c.body]
  BY <1>1
<1> QED BY <1>2, <1>4, <1>5, <1>6 DEF CallType

LEMMA InitPlace == Init => KiiTypeOK /\ Place /\ nodes = Len(reqHeaders)
<1> SUFFICES ASSUME Init PROVE KiiTypeOK /\ Place /\ nodes = Len(reqHeaders)
  OBVIOUS
<1>1. KiiTypeOK
  <2>1. result \in Codes \cup {"none"}
    BY DEF Init, Codes, KhcCodes
  <2>2. author \in [id : Things \cup {"none"}, token : Things \cup {"none"}]
    BY DEF Init
  <2>3. reqHeaders \in Seq(HeaderNames \cup {"added"}) /\ nodes \in Nat
    BY DEF Init
  <2>4. reqSize \in BOOLEAN /\ pc \in {"idle", "build", "started"}
    BY DEF Init
  <2> QED BY <2>1, <2>2, <2>3, <2>4 DEF Init, KiiTypeOK
<1>2. PathLeads(todo)
  BY DEF Init, PathLeads
<1>3. call \in CallType
  BY DEF Init, CallType
<1>4. nodes = Len(reqHeaders)
  BY DEF Init
<1> QED BY <1>1, <1>2, <1>3, <1>4 DEF Init, Place

LEMMA TailShape ==
  ASSUME NEW s, PathLeads(s), s # << >>
  PROVE  /\ PathLeads(Tail(s)) /\ Head(s) \in StepNames
         /\ Tail(s) # << >> => Head(Tail(s)) # "path"
BY DEF PathLeads
---------------------------------------------------------------------------
\* The parts of a step that many actions share.
Layer == KiiTypeOK /\ Place /\ nodes = Len(reqHeaders)

LEMMA FreedLayer ==
  ASSUME Layer, FreeAll
  PROVE  /\ reqHeaders' = << >> /\ nodes' = 0
         /\ reqHeaders' \in Seq(HeaderNames \cup {"added"}) /\ nodes' \in Nat
         /\ nodes' = Len(reqHeaders')
<1>1. reqHeaders' = << >> /\ nodes' = 0
  BY DEF Layer, KiiTypeOK, FreeAll
<1> QED BY <1>1

LEMMA ReturnedLayer ==
  ASSUME Layer, NEW code \in Codes, Return(code)
  PROVE  /\ pc' = "idle" /\ todo' = << >> /\ result' = code
         /\ cbRead' \in {"_cb_read_buff", "app"}
         /\ cbWrite' \in {"_cb_write_buff", "app"}
         /\ PathLeads(todo')
BY DEF Layer, KiiTypeOK, Return, PathLeads

LEMMA WalkedOn ==
  ASSUME Layer, NEW s, Building(s), Next1
  PROVE  /\ UNCHANGED <<call, pc, cbRead, cbWrite, result>>
         /\ PathLeads(todo') /\ todo' = Tail(todo)
         /\ s \in StepNames
BY TailShape DEF Layer, Place, Building, Next1

LEMMA LayerKept ==
  ASSUME Layer, Next
  PROVE  Layer'
<1> USE DEF Layer
<1>1. ASSUME NEW c \in Calls, Begin(c) PROVE Layer'
  <2>1. PathLeads(Steps(c.api)) /\ c \in CallType /\ c.api \in ApiNames
    BY StepsShape, CallsTyped
  <2> QED BY <1>1, <2>1 DEF Begin, Reset, Place, KiiTypeOK
<1>2. CASE PathSet
  BY <1>2, WalkedOn DEF PathSet, BuildsPath, Place, KiiTypeOK
<1>3. CASE PathTooLarge
  BY <1>3, ReturnedLayer DEF PathTooLarge, BuildsPath, Place, KiiTypeOK, Codes, KhcCodes
<1>4. CASE PathDropped
  BY <1>4, WalkedOn DEF PathDropped, BuildsPath, Place, KiiTypeOK
<1>5. ASSUME NEW h \in HeaderNames, HeaderAppended(h) PROVE Layer'
  BY <1>5, WalkedOn DEF HeaderAppended, Place, KiiTypeOK
<1>6. ASSUME NEW h \in HeaderNames, HeaderSkipped(h) PROVE Layer'
  BY <1>6, WalkedOn DEF HeaderSkipped, Place, KiiTypeOK
<1>7. ASSUME NEW h \in HeaderNames, NEW code \in {"TOO_LARGE_DATA", "ALLOCATION"},
             HeaderFails(h, code)
      PROVE  Layer'
  <2>1. code \in Codes
    BY DEF Codes, KhcCodes
  <2>2. reqHeaders' \in Seq(HeaderNames \cup {"added"}) /\ nodes' \in Nat
        /\ nodes' = Len(reqHeaders')
    <3>1. CASE FreeAll
      BY <3>1, FreedLayer
    <3>2. CASE UNCHANGED <<reqHeaders, nodes>>
      BY <3>2 DEF KiiTypeOK
    <3> QED BY <1>7, <3>1, <3>2 DEF HeaderFails
  <2>3. CASE Next1
    BY <1>7, <2>2, <2>3, WalkedOn DEF HeaderFails, Place, KiiTypeOK
  <2>4. CASE Return(code) /\ UNCHANGED call
    BY <1>7, <2>1, <2>2, <2>4, ReturnedLayer DEF HeaderFails, Place, KiiTypeOK
  <2> QED BY <1>7, <2>3, <2>4 DEF HeaderFails
<1>8. CASE BodyBuilt
  <2>1. \E s : Building(s) /\ Next1
    BY <1>8 DEF BodyBuilt
  <2> QED BY <1>8, <2>1, WalkedOn DEF BodyBuilt, Place, KiiTypeOK
<1>9. CASE BodyTooLarge
  <2>1. Return("TOO_LARGE_DATA") /\ "TOO_LARGE_DATA" \in Codes /\ FreeAll
    BY <1>9 DEF BodyTooLarge, Codes, KhcCodes
  <2> QED BY <1>9, <2>1, FreedLayer, ReturnedLayer DEF BodyTooLarge, Place, KiiTypeOK
<1>10. CASE Started
  BY <1>10 DEF Started, Place, KiiTypeOK, Codes, KhcCodes
<1>11. CASE AppendHeader
  <2>1. call' \in CallType /\ call'.api = call.api
    BY <1>11 DEF AppendHeader, Place, CallType
  <2>2. /\ reqHeaders' \in Seq(HeaderNames \cup {"added"})
        /\ nodes' \in Nat /\ nodes' = Len(reqHeaders')
    BY <1>11 DEF AppendHeader, KiiTypeOK
  <2> QED BY <1>11, <2>1, <2>2 DEF AppendHeader, Place, KiiTypeOK, Codes, KhcCodes
<1>12. CASE AppendHeaderFails
  BY <1>12 DEF AppendHeaderFails, Place, KiiTypeOK, Codes, KhcCodes
<1>13. CASE AppendBody
  BY <1>13 DEF AppendBody, Place, KiiTypeOK, Codes, KhcCodes, CallType
<1>14. CASE AppendBodyFails
  <2>1. FreeAll /\ "TOO_LARGE_DATA" \in Codes
    BY <1>14 DEF AppendBodyFails, Codes, KhcCodes
  <2> QED BY <1>14, <2>1, FreedLayer DEF AppendBodyFails, Place, KiiTypeOK
<1>15. ASSUME NEW code \in KhcCodes, NEW status \in Statuses \cup {0},
              NEW answer \in Answers, Perform(code, status, answer)
       PROVE  Layer'
  <2>1. reqHeaders' = << >> /\ nodes' = 0
    BY <1>15, FreedLayer DEF Perform
  <2>2. Verdict(code, status, answer) \in Codes
    BY DEF Verdict, ConvertCode, Codes, KhcCodes
  <2>3. author' \in [id : Things \cup {"none"}, token : Things \cup {"none"}]
    BY <1>15 DEF Perform, Answered, KiiTypeOK, Place, CallType
  <2>4. rwBuff' \in HeaderNames \cup {"none", "path", "body", "response"}
    BY <1>15 DEF Perform, KiiTypeOK
  <2>5. CASE call.api = "kii_ti_onboard" /\ Verdict(code, status, answer) = "OK"
    <3>1. /\ call' = [call EXCEPT !.api = "_onboard"]
          /\ todo' = Steps("_onboard") /\ Reset
          /\ UNCHANGED <<pc, cbRead, cbWrite, result>>
      BY <1>15, <2>5 DEF Perform
    <3>2. "_onboard" \in ApiNames
      BY DEF ApiNames, ThingIfCalls
    <3>3. call' \in CallType /\ call'.api = "_onboard" /\ pc # "started"
      BY <2>5, <3>1, <3>2 DEF CallType, Place
    <3>4. PathLeads(todo')
      BY <3>1, <3>2, StepsShape
    <3>5. nodes' = Len(reqHeaders') /\ reqHeaders' \in Seq(HeaderNames \cup {"added"})
      BY <2>1
    <3>6. Place'
      BY <3>1, <3>2, <3>3, <3>4 DEF Place
    <3>7. KiiTypeOK'
      <4>1. reqSize' = FALSE /\ UNCHANGED <<pc, cbRead, cbWrite, result>>
        BY <3>1 DEF Reset
      <4>2. nodes' \in Nat
        BY <2>1
      <4> QED BY <2>3, <2>4, <3>5, <4>1, <4>2 DEF KiiTypeOK
    <3> QED BY <3>5, <3>6, <3>7
  <2>6. CASE ~(call.api = "kii_ti_onboard" /\ Verdict(code, status, answer) = "OK")
    <3>1. Return(Verdict(code, status, answer)) /\ UNCHANGED <<call, reqSize, path>>
      BY <1>15, <2>6 DEF Perform
    <3> QED BY <2>1, <2>2, <2>3, <2>4, <3>1, ReturnedLayer DEF Place, KiiTypeOK
  <2> QED BY <2>5, <2>6
<1>16. CASE PerformStep
  <2>1. \A status \in Statuses, answer \in Answers : Perform("OK", status, answer) => Layer'
    BY <1>15 DEF KhcCodes
  <2>2. \A code \in KhcCodes, answer \in {"none", "whole"} : Perform(code, 0, answer) => Layer'
    BY <1>15 DEF Answers
  <2> QED BY <1>16, <2>1, <2>2 DEF PerformStep
<1> QED BY <1>1, <1>2, <1>3, <1>4, <1>5, <1>6, <1>7, <1>8, <1>9, <1>10, <1>11, <1>12,
       <1>13, <1>14, <1>16 DEF Next, BuildStep, HeaderStep, ApiCallStep

---------------------------------------------------------------------------
\* While a function runs, only the two that replace a callback have done so.
CallbackPlace ==
  pc = "build" =>
    /\ cbRead = "app" => call.api = "kii_upload_object_body"
    /\ cbWrite = "app" => call.api = "kii_download_object_body"

LEMMA CallbacksKept ==
  ASSUME Layer, CallbackPlace, CallbacksRestored, Next
  PROVE  CallbackPlace' /\ CallbacksRestored'
<1> USE DEF CallbackPlace, CallbacksRestored
<1>1. cbRead \in {"_cb_read_buff", "app"} /\ cbWrite \in {"_cb_write_buff", "app"}
  BY DEF Layer, KiiTypeOK
<1>2. ASSUME NEW code, Return(code), pc # "idle"
      PROVE  CallbackPlace' /\ CallbacksRestored'
  BY <1>1, <1>2 DEF Return, Layer, KiiTypeOK
<1>3. ASSUME Next1, pc = "build" PROVE CallbackPlace' /\ CallbacksRestored'
  BY <1>3 DEF Next1
<1>4. ASSUME NEW c \in Calls, Begin(c) PROVE CallbackPlace' /\ CallbacksRestored'
  BY <1>4 DEF Begin
<1>5. CASE BuildStep
  BY <1>2, <1>3, <1>5 DEF BuildStep, PathSet, PathTooLarge, PathDropped, HeaderStep,
     HeaderAppended, HeaderSkipped, HeaderFails, BodyBuilt, BodyTooLarge, Building
<1>6. CASE ApiCallStep
  BY <1>1, <1>6 DEF ApiCallStep, Started, AppendHeader, AppendHeaderFails, AppendBody,
     AppendBodyFails
<1>7. ASSUME NEW code, NEW status, NEW answer, Perform(code, status, answer)
      PROVE  CallbackPlace' /\ CallbacksRestored'
  <2>1. pc # "idle"
    BY <1>7 DEF Perform
  <2>2. CASE call.api = "kii_ti_onboard" /\ Verdict(code, status, answer) = "OK"
    <3>1. UNCHANGED <<pc, cbRead, cbWrite>>
      BY <1>7, <2>2 DEF Perform
    <3>2. cbRead = "_cb_read_buff" /\ cbWrite = "_cb_write_buff"
      BY <1>1, <2>1, <2>2 DEF Layer, KiiTypeOK
    <3> QED BY <3>1, <3>2
  <2>3. CASE ~(call.api = "kii_ti_onboard" /\ Verdict(code, status, answer) = "OK")
    BY <1>2, <1>7, <2>1, <2>3 DEF Perform
  <2> QED BY <2>2, <2>3
<1> QED BY <1>4, <1>5, <1>6, <1>7 DEF Next, PerformStep

---------------------------------------------------------------------------
\* A function that has not set its path has not allocated a header either.
PathFirst ==
  pc = "build" /\ todo # << >> /\ Head(todo) = "path" => reqHeaders = << >>

LEMMA HeadersKept ==
  ASSUME GivesUp = FALSE, UploadTypeFails = FALSE,
         Layer, PathFirst, HeadersReachable, Next
  PROVE  PathFirst' /\ HeadersReachable'
<1> USE DEF PathFirst, HeadersReachable
<1>1. nodes' = Len(reqHeaders')
  BY LayerKept DEF Layer
<1>2. ASSUME FreeAll PROVE PathFirst' /\ HeadersReachable'
  BY <1>1, <1>2, FreedLayer
<1>3. ASSUME NEW s, Building(s), Next1 PROVE PathFirst' /\ HeadersReachable'
  <2>1. /\ pc = "build" /\ pc' = "build" /\ todo' = Tail(todo)
        /\ todo # << >> /\ PathLeads(todo)
    BY <1>3 DEF Building, Next1, Layer, Place
  <2> QED BY <1>1, <2>1, TailShape
<1>4. ASSUME NEW c \in Calls, Begin(c) PROVE PathFirst' /\ HeadersReachable'
  BY <1>1, <1>4 DEF Begin
<1>5. CASE BuildStep
  <2>1. CASE PathTooLarge
    BY <1>1, <2>1 DEF PathTooLarge, Building, Return
  <2>2. ASSUME NEW h \in HeaderNames, NEW code \in {"TOO_LARGE_DATA", "ALLOCATION"},
               HeaderFails(h, code)
        PROVE  PathFirst' /\ HeadersReachable'
    BY <1>2, <1>3, <2>2 DEF HeaderFails
  <2>3. CASE BodyTooLarge
    BY <1>2, <2>3 DEF BodyTooLarge
  <2>4. CASE PathSet \/ PathDropped \/ BodyBuilt
    BY <1>3, <2>4 DEF PathSet, PathDropped, BodyBuilt
  <2>5. ASSUME NEW h \in HeaderNames, HeaderAppended(h) \/ HeaderSkipped(h)
        PROVE  PathFirst' /\ HeadersReachable'
    BY <1>3, <2>5 DEF HeaderAppended, HeaderSkipped
  <2> QED BY <1>5, <2>1, <2>2, <2>3, <2>4, <2>5 DEF BuildStep, HeaderStep
<1>6. CASE ApiCallStep
  BY <1>1, <1>2, <1>6 DEF ApiCallStep, Started, AppendHeader, AppendHeaderFails,
     AppendBody, AppendBodyFails
<1>7. CASE PerformStep
  BY <1>2, <1>7 DEF PerformStep, Perform
<1> QED BY <1>4, <1>5, <1>6, <1>7 DEF Next
---------------------------------------------------------------------------
LEMMA AuthorKept ==
  ASSUME Layer, AuthorWhole, Next
  PROVE  AuthorWhole'
<1> SUFFICES ASSUME pc' = "idle", result' = "OK", call'.api \in AuthCalls
             PROVE  author' = [id |-> call'.thing, token |-> call'.thing]
  BY DEF AuthorWhole
<1>1. ASSUME NEW c \in Calls, Begin(c) PROVE FALSE
  BY <1>1 DEF Begin
<1>2. CASE BuildStep
  BY <1>2 DEF BuildStep, PathSet, PathTooLarge, PathDropped, HeaderStep, HeaderAppended,
     HeaderSkipped, HeaderFails, BodyBuilt, BodyTooLarge, Building, Next1, Return
<1>3. CASE ApiCallStep
  <2>1. call.api = "kii_api_call" /\ call'.api = call.api
    BY <1>3 DEF ApiCallStep, Started, AppendHeader, AppendHeaderFails, AppendBody,
       AppendBodyFails, Layer, Place, CallType
  <2> QED BY <2>1 DEF AuthCalls
<1>4. ASSUME NEW code, NEW status, NEW answer, Perform(code, status, answer)
      PROVE  author' = [id |-> call'.thing, token |-> call'.thing]
  <2>1. pc # "idle"
    BY <1>4 DEF Perform
  <2>2. CASE call.api = "kii_ti_onboard" /\ Verdict(code, status, answer) = "OK"
    BY <1>4, <2>1, <2>2 DEF Perform
  <2>3. CASE ~(call.api = "kii_ti_onboard" /\ Verdict(code, status, answer) = "OK")
    <3>1. call' = call /\ Verdict(code, status, answer) = "OK"
      BY <1>4, <2>3 DEF Perform, Return
    <3>2. call.api \in AuthCalls /\ AllCalls[call.api].parses
      BY <3>1, AuthCallsParse
    <3>3. answer = "whole" /\ (code # "OK" => ConvertCode(code) = "OK")
      BY <3>1, <3>2 DEF Verdict, ConvertCode
    <3>4. code = "OK" /\ status \in AllCalls[call.api].accepts
      BY <3>1, <3>3 DEF Verdict, ConvertCode
    <3> QED BY <1>4, <3>1, <3>2, <3>3, <3>4 DEF Perform, Answered
  <2> QED BY <2>2, <2>3
<1> QED BY <1>1, <1>2, <1>3, <1>4 DEF Next, PerformStep

---------------------------------------------------------------------------
\* The conjunction of the above: the types and places of the layer, the
\* callbacks, and the author.
KiiIInv == Layer /\ CallbackPlace /\ CallbacksRestored /\ AuthorWhole

\* Any function may be begun that authenticates nothing, whatever it is asked.
LEMMA CallBegins ==
  ASSUME KiiIInv, NEW c \in CallType, c.api \in ApiNames \ AuthCalls, Begin(c)
  PROVE  KiiIInv'
<1> USE DEF KiiIInv, Begin
<1>1. Layer'
  <2>1. PathLeads(Steps(c.api))
    BY StepsShape
  <2> QED BY <2>1 DEF Layer, Reset, Place, KiiTypeOK
<1>2. CallbackPlace' /\ CallbacksRestored'
  BY DEF CallbackPlace, CallbacksRestored
<1>3. AuthorWhole'
  BY DEF AuthorWhole
<1> QED BY <1>1, <1>2, <1>3

LEMMA LayerInvariantKept ==
  ASSUME KiiIInv, Next \/ UNCHANGED vars
  PROVE  KiiIInv'
<1>1. CASE Next
  BY <1>1, LayerKept, CallbacksKept, AuthorKept DEF KiiIInv
<1>2. CASE UNCHANGED vars
  BY <1>2 DEF KiiIInv, Layer, KiiTypeOK, Place, CallbackPlace, CallbacksRestored,
     AuthorWhole, vars
<1> QED BY <1>1, <1>2

\* The inductive invariant that does not depend on how the application uses
\* the started call or on what fails.
THEOREM KiiInductive == Spec => []KiiIInv
<1>1. Init => KiiIInv
  BY InitPlace DEF KiiIInv, Layer, Init, CallbackPlace, CallbacksRestored, AuthorWhole,
     AuthCalls
<1>2. KiiIInv /\ [Next]_vars => KiiIInv'
  BY LayerInvariantKept
<1> QED BY <1>1, <1>2, PTL DEF Spec

\* The variables of the layer keep their types; the list of headers is what
\* is allocated, so freeing it never frees more than there is.
THEOREM KiiTypeCorrect == Spec => []KiiTypeOK
<1>1. KiiIInv => KiiTypeOK
  BY DEF KiiIInv, Layer
<1> QED BY <1>1, KiiInductive, PTL

\* However a transfer of an object body ends, the callbacks of the SDK are in
\* their place again when the function has returned.
THEOREM CallbacksAlwaysRestored == Spec => []CallbacksRestored
<1>1. KiiIInv => CallbacksRestored
  BY DEF KiiIInv
<1> QED BY <1>1, KiiInductive, PTL

\* An authentication that returned OK left one thing's id and token, whatever
\* had failed half-way before it.
THEOREM AuthorAlwaysWhole == Spec => []AuthorWhole
<1>1. KiiIInv => AuthorWhole
  BY DEF KiiIInv
<1> QED BY <1>1, KiiInductive, PTL

\* No error path leaks a header or leaves one to the next call, as long as the
\* application ends the calls it starts and the Content-Type of an object body
\* can be set: both are needed (AuthOnlyAsked is violated without the second).
THEOREM HeadersAlwaysReachable ==
  ASSUME GivesUp = FALSE, UploadTypeFails = FALSE
  PROVE  Spec => []HeadersReachable
<1> DEFINE Reachable == PathFirst /\ HeadersReachable
<1>1. Init => Reachable
  BY DEF Init, PathFirst, HeadersReachable
<1>2. KiiIInv /\ Reachable /\ [Next]_vars => Reachable'
  <2>1. KiiIInv /\ Reachable /\ Next => Reachable'
    BY HeadersKept DEF KiiIInv
  <2>2. Reachable /\ UNCHANGED vars => Reachable'
    BY DEF PathFirst, HeadersReachable, vars
  <2> QED BY <2>1, <2>2
<1>3. Reachable => HeadersReachable
  OBVIOUS
<1> HIDE DEF Reachable
<1> QED BY <1>1, <1>2, <1>3, KiiInductive, PTL DEF Spec

---------------------------------------------------------------------------
(* What has been built of a request.                                       *)

\* A body is built last, and so is the one header that may be lost.
BodyLast(s) == s # << >> /\ \A i \in 1..Len(s) - 1 : s[i] \notin {"body", "encoding"}

LEMMA FlowsBodyLast ==
  /\ \A api \in DOMAIN ObjectCalls : BodyLast(ObjectCalls[api].flow.steps)
  /\ \A api \in DOMAIN PushCalls : BodyLast(PushCalls[api].flow.steps)
  /\ \A api \in DOMAIN ThingCalls : BodyLast(ThingCalls[api].flow.steps)
  /\ \A api \in DOMAIN ThingIfCalls : BodyLast(ThingIfCalls[api].flow.steps)
  /\ \A api \in DOMAIN OtherCalls : BodyLast(OtherCalls[api].flow.steps)
<1>1. BodyLast(JsonSteps) /\ BodyLast(EmptySteps) /\ BodyLast(KeySteps)
  BY DEF BodyLast, JsonSteps, EmptySteps, KeySteps
<1>2. BodyLast(PutObject.steps) /\ BodyLast(PatchObject.steps) /\ BodyLast(UploadBody.steps)
  BY DEF BodyLast, Flow, PutObject, PatchObject, UploadBody
<1>3. /\ BodyLast(AnonymousToken.steps) /\ BodyLast(Onboard.steps) /\ BodyLast(PutFirmwareVersion.steps)
      /\ BodyLast(GetFirmwareVersion.steps) /\ BodyLast(UploadState.steps)
  BY DEF BodyLast, Flow, AnonymousToken, Onboard, PutFirmwareVersion, GetFirmwareVersion, UploadState
<1>4. BodyLast(ApiCallStart.steps)
  BY DEF BodyLast, Flow, ApiCallStart
<1>5. \A api \in DOMAIN ObjectCalls : BodyLast(ObjectCalls[api].flow.steps)
  BY <1>1, <1>2 DEF Api, Flow, ObjectCalls, PostObject, DeleteObject, GetObject, DownloadBody
<1>6. \A api \in DOMAIN PushCalls : BodyLast(PushCalls[api].flow.steps)
  BY <1>1 DEF Api, Flow, PushCalls, InstallPush, GetMqttEndpoint, SubscribeBucket,
     UnsubscribeBucket, SubscribeTopic, UnsubscribeTopic, PutTopic, DeleteTopic
<1>7. \A api \in DOMAIN ThingCalls : BodyLast(ThingCalls[api].flow.steps)
  BY <1>1 DEF Api, Flow, ThingCalls, ThingAuth, ThingRegister
<1>8. \A api \in DOMAIN ThingIfCalls : BodyLast(ThingIfCalls[api].flow.steps)
  BY <1>3 DEF Api, ThingIfCalls
<1>9. \A api \in DOMAIN OtherCalls : BodyLast(OtherCalls[api].flow.steps)
  BY <1>1, <1>4 DEF Api, Flow, OtherCalls, ExecuteServerCode
<1> QED BY <1>5, <1>6, <1>7, <1>8, <1>9

LEMMA StepsBodyLast == \A api \in ApiNames : BodyLast(Steps(api))
BY FlowsBodyLast DEF Steps, AllCalls, ApiNames

LEMMA IgnoredHeader ==
  \A api \in ApiNames : \A h \in AllCalls[api].flow.ignores : h = "encoding" /\ api = "kii_ti_put_state"
<1>1. \A api \in DOMAIN ObjectCalls : ObjectCalls[api].flow.ignores = {}
  BY DEF Api, Flow, ObjectCalls, PostObject, PutObject, PatchObject, DeleteObject, GetObject,
     UploadBody, DownloadBody
<1>2. \A api \in DOMAIN PushCalls : PushCalls[api].flow.ignores = {}
  BY DEF Api, Flow, PushCalls, InstallPush, GetMqttEndpoint, SubscribeBucket,
     UnsubscribeBucket, SubscribeTopic, UnsubscribeTopic, PutTopic, DeleteTopic
<1>3. \A api \in DOMAIN ThingCalls : ThingCalls[api].flow.ignores = {}
  BY DEF Api, Flow, ThingCalls, ThingAuth, ThingRegister
<1>4. \A api \in DOMAIN ThingIfCalls : \A h \in ThingIfCalls[api].flow.ignores :
        h = "encoding" /\ api = "kii_ti_put_state"
  BY DEF Api, Flow, ThingIfCalls, AnonymousToken, Onboard, PutFirmwareVersion, GetFirmwareVersion,
     UploadState
<1>5. \A api \in DOMAIN OtherCalls : OtherCalls[api].flow.ignores = {}
  BY DEF Api, Flow, OtherCalls, ExecuteServerCode, ApiCallStart
<1> QED BY <1>1, <1>2, <1>3, <1>4, <1>5 DEF AllCalls, ApiNames

\* kii_api_call, kii_ti_put_state and kii_upload_object_body build no body.
HasBody(api) == \E i \in 1..Len(Steps(api)) : Steps(api)[i] = "body"

LEMMA NoBodies ==
  ~HasBody("kii_api_call") /\ ~HasBody("kii_ti_put_state") /\ ~HasBody("kii_upload_object_body")
<1>1. Steps("kii_api_call") = <<"path", "appid", "appkey", "ctype", "auth">>
  BY DEF Steps, AllCalls, ApiNames, ObjectCalls, PushCalls, ThingCalls, ThingIfCalls, OtherCalls,
     Api, Flow, ApiCallStart
<1>2. Steps("kii_ti_put_state") = <<"path", "auth", "ctype", "encoding">>
  BY DEF Steps, AllCalls, ApiNames, ObjectCalls, PushCalls, ThingCalls, ThingIfCalls,
     Api, Flow, UploadState
<1>3. Steps("kii_upload_object_body") = <<"path", "appid", "appkey", "auth", "ctype">>
  BY DEF Steps, AllCalls, ApiNames, ObjectCalls, Api, Flow, UploadBody
<1> QED BY <1>1, <1>2, <1>3 DEF HasBody

\* The list after the first k steps.
ListUpto(api, names, k) == FlattenSeq(SubSeq(StepTexts(api, names), 1, k))
Listed == HeaderNames \cup {"added"}

LEMMA TextsType ==
  ASSUME NEW api \in ApiNames, NEW names \in SUBSET HeaderNames
  PROVE  /\ Len(Steps(api)) \in Nat /\ Steps(api) \in Seq(StepNames)
         /\ StepTexts(api, names) \in Seq(Seq(Listed)) /\ Len(StepTexts(api, names)) = Len(Steps(api))
         /\ \A i \in 1..Len(Steps(api)) :
              StepTexts(api, names)[i] = IF Steps(api)[i] \in names THEN <<Steps(api)[i]>> ELSE << >>
         /\ \A k \in 0..Len(Steps(api)) : ListUpto(api, names, k) \in Seq(Listed)
         /\ ListUpto(api, names, 0) = << >>
         /\ ListUpto(api, names, Len(Steps(api))) = FlattenSeq(StepTexts(api, names))
<1>1. Steps(api) \in Seq(StepNames) /\ Len(Steps(api)) \in Nat
  BY StepsShape DEF PathLeads
<1>2. \A i \in 1..Len(Steps(api)) :
        (IF Steps(api)[i] \in names THEN <<Steps(api)[i]>> ELSE << >>) \in Seq(Listed)
  <2> TAKE i \in 1..Len(Steps(api))
  <2>1. CASE Steps(api)[i] \in names
    BY <2>1 DEF Listed
  <2>2. CASE ~(Steps(api)[i] \in names)
    BY <2>2, EmptySeq
  <2> QED BY <2>1, <2>2
<1>3. StepTexts(api, names) \in [1..Len(Steps(api)) -> Seq(Listed)]
  BY <1>1, <1>2 DEF StepTexts
<1>4. StepTexts(api, names) \in Seq(Seq(Listed)) /\ Len(StepTexts(api, names)) = Len(Steps(api))
  BY <1>1, <1>3, FunctionSeq
<1>5. \A k \in 0..Len(Steps(api)) : ListUpto(api, names, k) \in Seq(Listed)
  <2> TAKE k \in 0..Len(Steps(api))
  <2>1. SubSeq(StepTexts(api, names), 1, k) \in Seq(Seq(Listed))
    BY <1>4
  <2> QED BY <2>1, FlattenType DEF ListUpto
<1>6. ListUpto(api, names, 0) = << >>
  <2>1. SubSeq(StepTexts(api, names), 1, 0) = << >>
    BY <1>4
  <2> QED BY <2>1, FlattenEmpty DEF ListUpto
<1>7. ListUpto(api, names, Len(Steps(api))) = FlattenSeq(StepTexts(api, names))
  <2>1. SubSeq(StepTexts(api, names), 1, Len(Steps(api))) = StepTexts(api, names)
    BY <1>4
  <2> QED BY <2>1 DEF ListUpto
<1>8. \A i \in 1..Len(Steps(api)) :
        StepTexts(api, names)[i] = IF Steps(api)[i] \in names THEN <<Steps(api)[i]>> ELSE << >>
  BY <1>1 DEF StepTexts
<1> QED BY <1>1, <1>4, <1>5, <1>6, <1>7, <1>8

LEMMA TextAt ==
  ASSUME NEW api \in ApiNames, NEW names, NEW i \in 1..Len(Steps(api))
  PROVE  StepTexts(api, names)[i] = IF Steps(api)[i] \in names THEN <<Steps(api)[i]>> ELSE << >>
<1>1. i \in DOMAIN Steps(api)
  BY StepsShape DEF PathLeads
<1> QED BY <1>1 DEF StepTexts

LEMMA ListNext ==
  ASSUME NEW api \in ApiNames, NEW names \in SUBSET HeaderNames, NEW k \in 0..Len(Steps(api)) - 1
  PROVE  /\ Steps(api)[k + 1] \in names =>
              ListUpto(api, names, k + 1) = Append(ListUpto(api, names, k), Steps(api)[k + 1])
         /\ Steps(api)[k + 1] \notin names => ListUpto(api, names, k + 1) = ListUpto(api, names, k)
<1>1. /\ Len(Steps(api)) \in Nat /\ k + 1 \in 1..Len(Steps(api)) /\ k \in 0..Len(Steps(api))
      /\ StepTexts(api, names) \in Seq(Seq(Listed)) /\ k \in 0..Len(StepTexts(api, names)) - 1
  BY TextsType
<1>2. ListUpto(api, names, k + 1) = ListUpto(api, names, k) \o StepTexts(api, names)[k + 1]
  BY <1>1, FlattenUpto DEF ListUpto
<1>3. ListUpto(api, names, k) \in Seq(Listed)
  BY <1>1, TextsType
<1>4. ASSUME Steps(api)[k + 1] \in names
      PROVE  ListUpto(api, names, k + 1) = Append(ListUpto(api, names, k), Steps(api)[k + 1])
  <2>1. StepTexts(api, names)[k + 1] = <<Steps(api)[k + 1]>>
    BY <1>1, <1>4, TextsType
  <2>2. Steps(api)[k + 1] \in Listed
    BY <1>4 DEF Listed
  <2> QED BY <1>2, <1>3, <2>1, <2>2
<1>5. ASSUME Steps(api)[k + 1] \notin names
      PROVE  ListUpto(api, names, k + 1) = ListUpto(api, names, k)
  <2>1. StepTexts(api, names)[k + 1]
          = IF Steps(api)[k + 1] \in names THEN <<Steps(api)[k + 1]>> ELSE << >>
    BY <1>1, TextAt
  <2>2. StepTexts(api, names)[k + 1] = << >>
    BY <1>5, <2>1
  <2> QED BY <1>2, <1>3, <2>2, ConcatEmptySeq
<1> QED BY <1>4, <1>5

\* Before the last step, the header that may be lost makes no difference.
LEMMA ListWithout ==
  ASSUME NEW api \in ApiNames, NEW names \in SUBSET HeaderNames, NEW k \in 0..Len(Steps(api)) - 1
  PROVE  ListUpto(api, names \ {"encoding"}, k) = ListUpto(api, names, k)
<1> DEFINE a == SubSeq(StepTexts(api, names), 1, k)
           b == SubSeq(StepTexts(api, names \ {"encoding"}), 1, k)
<1>1. names \ {"encoding"} \in SUBSET HeaderNames /\ Len(Steps(api)) \in Nat
  BY TextsType
<1>2. /\ StepTexts(api, names) \in Seq(Seq(Listed)) /\ StepTexts(api, names \ {"encoding"}) \in Seq(Seq(Listed))
      /\ Len(StepTexts(api, names)) = Len(Steps(api))
      /\ Len(StepTexts(api, names \ {"encoding"})) = Len(Steps(api))
  BY <1>1, TextsType
<1>3. /\ a \in Seq(Seq(Listed)) /\ b \in Seq(Seq(Listed)) /\ Len(a) = k /\ Len(b) = k
      /\ \A i \in 1..k : a[i] = StepTexts(api, names)[i]
      /\ \A i \in 1..k : b[i] = StepTexts(api, names \ {"encoding"})[i]
  BY <1>1, <1>2
<1>4. ASSUME NEW i \in 1..k
      PROVE  StepTexts(api, names)[i] = StepTexts(api, names \ {"encoding"})[i]
  <2>1. i \in 1..Len(Steps(api)) /\ i \in 1..Len(Steps(api)) - 1
    BY <1>1
  <2>2. Steps(api)[i] # "encoding"
    BY <2>1, StepsBodyLast DEF BodyLast
  <2>3. StepTexts(api, names)[i]
          = IF Steps(api)[i] \in names THEN <<Steps(api)[i]>> ELSE << >>
    BY <2>1, TextAt
  <2>4. StepTexts(api, names \ {"encoding"})[i]
          = IF Steps(api)[i] \in names \ {"encoding"} THEN <<Steps(api)[i]>> ELSE << >>
    BY <2>1, TextAt
  <2>5. Steps(api)[i] \in names \ {"encoding"} <=> Steps(api)[i] \in names
    BY <2>2
  <2> QED BY <2>3, <2>4, <2>5
<1> HIDE DEF a, b
<1>5. a = b
  BY <1>3, <1>4, SeqEqual
<1> QED BY <1>5 DEF a, b, ListUpto

\* What is left to do is what follows the first k steps.
LEMMA NextOfRest ==
  ASSUME NEW S, NEW s \in Seq(S), NEW k \in 0..Len(s), SubSeq(s, k + 1, Len(s)) # << >>
  PROVE  /\ k \in 0..Len(s) - 1
         /\ Head(SubSeq(s, k + 1, Len(s))) = s[k + 1]
         /\ Tail(SubSeq(s, k + 1, Len(s))) = SubSeq(s, k + 2, Len(s))
         /\ Tail(SubSeq(s, k + 1, Len(s))) = << >> <=> k + 1 = Len(s)
<1> DEFINE t == SubSeq(s, k + 1, Len(s))
<1>1. t \in Seq(S) /\ Len(t) = Len(s) - k /\ \A i \in 1..Len(s) - k : t[i] = s[k + i]
  OBVIOUS
<1>2. k \in 0..Len(s) - 1
  <2>1. Len(t) # 0
    BY <1>1, EmptySeq
  <2> QED BY <1>1, <2>1
<1>3. Head(t) = s[k + 1]
  BY <1>1, <1>2
<1>4. Tail(t) = SubSeq(s, k + 2, Len(s))
  <2> DEFINE u == SubSeq(s, k + 2, Len(s))
             v == Tail(t)
  <2>1. u \in Seq(S) /\ Len(u) = Len(s) - k - 1 /\ \A i \in 1..Len(s) - k - 1 : u[i] = s[k + 1 + i]
    BY <1>2
  <2>2. t # << >>
    OBVIOUS
  <2> HIDE DEF t, u
  <2>3. v \in Seq(S) /\ Len(v) = Len(s) - k - 1 /\ \A i \in 1..Len(s) - k - 1 : v[i] = t[i + 1]
    BY <1>1, <2>2
  <2>4. \A i \in 1..Len(s) - k - 1 : i + 1 \in 1..Len(s) - k /\ t[i + 1] = s[k + (i + 1)] /\ k + (i + 1) = k + 1 + i
    BY <1>1
  <2>5. \A i \in 1..Len(v) : v[i] = u[i]
    BY <2>1, <2>3, <2>4
  <2> HIDE DEF v
  <2>6. v = u
    BY <2>1, <2>3, <2>5, SeqEqual
  <2> QED BY <2>6 DEF v, u
<1>5. Tail(t) = << >> <=> k + 1 = Len(s)
  <2>1. Tail(t) \in Seq(S) /\ Len(Tail(t)) = Len(s) - k - 1
    BY <1>1
  <2>2. Len(s) \in Nat
    OBVIOUS
  <2> HIDE DEF t
  <2>3. Tail(t) = << >> <=> Len(Tail(t)) = 0
    BY <2>1, EmptySeq
  <2>4. Len(s) - k - 1 = 0 <=> k + 1 = Len(s)
    BY <1>2, <2>2
  <2> QED BY <2>1, <2>3, <2>4 DEF t
<1> QED BY <1>2, <1>3, <1>4, <1>5

---------------------------------------------------------------------------
(* The request that is built is that of the call.                          *)

BuiltUpto(k) ==
  /\ k \in 0..Len(Steps(call.api))
  /\ todo = SubSeq(Steps(call.api), k + 1, Len(Steps(call.api)))
  /\ \/ reqHeaders = ListUpto(call.api, OwnHeaders(call), k)
     \/ /\ call.api = "kii_ti_put_state" /\ k = Len(Steps(call.api))
        /\ reqHeaders = ListUpto(call.api, OwnHeaders(call) \ {"encoding"}, k)

BodyOwn ==
  /\ reqSize => todo = << >> /\ rwBuff = "body" /\ HasBody(call.api)
  /\ HasBody(call.api) /\ ~reqSize => todo # << >>

BuildOwn ==
  pc = "build" =>
    /\ call.appended = 0 /\ call.body = FALSE
    /\ \E k \in Nat : BuiltUpto(k)
    /\ BodyOwn
    /\ call.api = "kii_upload_object_body" => cbRead = "app"

StartedOwn ==
  pc = "started" =>
    /\ reqHeaders = HeaderList(call, OwnHeaders(call))
    /\ reqSize <=> call.body
    /\ reqSize => rwBuff = "body"

PathOwn == pc # "idle" => path \in {call.api, "none"}

OwnPlace == BuildOwn /\ StartedOwn /\ PathOwn

\* The headers a call asks for are the same throughout the call.
LEMMA OwnSame ==
  ASSUME call'.api = call.api, call'.asks = call.asks, UNCHANGED author
  PROVE  OwnHeaders(call)' = OwnHeaders(call)
BY DEF OwnHeaders, Carried

LEMMA OwnType == OwnHeaders(call) \in SUBSET HeaderNames
BY DEF OwnHeaders

\* Where a step that goes on stands.
LEMMA AtStep ==
  ASSUME Layer, BuildOwn, NEW s, Building(s)
  PROVE  /\ call.api \in ApiNames /\ call.appended = 0 /\ call.body = FALSE /\ BodyOwn
         /\ call.api = "kii_upload_object_body" => cbRead = "app"
         /\ reqSize = FALSE
         /\ \E k \in 0..Len(Steps(call.api)) - 1 :
              /\ k \in Nat /\ k \in 0..Len(Steps(call.api)) /\ Len(Steps(call.api)) \in Nat
              /\ s = Steps(call.api)[k + 1]
              /\ Tail(todo) = SubSeq(Steps(call.api), (k + 1) + 1, Len(Steps(call.api)))
              /\ Tail(todo) = << >> <=> k + 1 = Len(Steps(call.api))
              /\ reqHeaders = ListUpto(call.api, OwnHeaders(call), k)
<1>1. pc = "build" /\ todo # << >> /\ Head(todo) = s /\ call.api \in ApiNames
  BY DEF Building, Layer, Place
<1>2. PICK k \in Nat : BuiltUpto(k)
  BY <1>1 DEF BuildOwn
<1>3. /\ call.appended = 0 /\ call.body = FALSE /\ BodyOwn
      /\ call.api = "kii_upload_object_body" => cbRead = "app"
  BY <1>1 DEF BuildOwn
<1>4. reqSize = FALSE
  BY <1>1, <1>3 DEF BodyOwn, Layer, KiiTypeOK
<1>5. Steps(call.api) \in Seq(StepNames) /\ Len(Steps(call.api)) \in Nat
  BY <1>1, StepsShape DEF PathLeads
<1>6. k \in 0..Len(Steps(call.api)) /\ todo = SubSeq(Steps(call.api), k + 1, Len(Steps(call.api)))
  BY <1>2 DEF BuiltUpto
<1>7. /\ k \in 0..Len(Steps(call.api)) - 1 /\ s = Steps(call.api)[k + 1]
      /\ Tail(todo) = SubSeq(Steps(call.api), k + 2, Len(Steps(call.api)))
      /\ Tail(todo) = << >> <=> k + 1 = Len(Steps(call.api))
  BY <1>1, <1>5, <1>6, NextOfRest
<1>8. reqHeaders = ListUpto(call.api, OwnHeaders(call), k)
  BY <1>2, <1>5, <1>7 DEF BuiltUpto
<1>9. (k + 1) + 1 = k + 2
  OBVIOUS
<1> QED BY <1>1, <1>3, <1>4, <1>5, <1>6, <1>7, <1>8, <1>9

\* A step that goes on, with the header it was to append.
LEMMA GoesOn ==
  ASSUME Layer, BuildOwn, PathOwn, NEW s, Building(s), Next1, UNCHANGED author,
         path' \in {call.api, "none"},
         \/ s \in OwnHeaders(call) /\ reqHeaders' = Append(reqHeaders, s)
         \/ s \notin OwnHeaders(call) /\ UNCHANGED reqHeaders
         \/ s = "encoding" /\ call.api = "kii_ti_put_state" /\ UNCHANGED reqHeaders,
         \/ s = "body" /\ reqSize' = TRUE /\ rwBuff' = "body"
         \/ s # "body" /\ reqSize' = FALSE
  PROVE  OwnPlace'
<1>1. /\ call.api \in ApiNames /\ call.appended = 0 /\ call.body = FALSE /\ BodyOwn
      /\ call.api = "kii_upload_object_body" => cbRead = "app"
  BY AtStep
<1>2. PICK k \in 0..Len(Steps(call.api)) - 1 :
        /\ k \in Nat /\ k \in 0..Len(Steps(call.api)) /\ Len(Steps(call.api)) \in Nat
        /\ s = Steps(call.api)[k + 1]
        /\ Tail(todo) = SubSeq(Steps(call.api), (k + 1) + 1, Len(Steps(call.api)))
        /\ Tail(todo) = << >> <=> k + 1 = Len(Steps(call.api))
        /\ reqHeaders = ListUpto(call.api, OwnHeaders(call), k)
  BY AtStep
<1>3. /\ todo' = Tail(todo) /\ UNCHANGED <<call, pc, cbRead, cbWrite>> /\ pc' = "build"
  BY DEF Next1, Building
<1>4. OwnHeaders(call)' = OwnHeaders(call) /\ OwnHeaders(call) \in SUBSET HeaderNames
  BY <1>3, OwnSame, OwnType
<1>5. k + 1 \in Nat /\ k + 1 \in 0..Len(Steps(call.api)) /\ k + 1 \in 1..Len(Steps(call.api))
  BY <1>2
<1>6. \/ reqHeaders' = ListUpto(call.api, OwnHeaders(call), k + 1)
      \/ /\ call.api = "kii_ti_put_state" /\ k + 1 = Len(Steps(call.api))
         /\ reqHeaders' = ListUpto(call.api, OwnHeaders(call) \ {"encoding"}, k + 1)
  <2>1. CASE s \in OwnHeaders(call) /\ reqHeaders' = Append(reqHeaders, s)
    BY <1>1, <1>2, <1>4, <2>1, ListNext
  <2>2. CASE s \notin OwnHeaders(call) /\ UNCHANGED reqHeaders
    BY <1>1, <1>2, <1>4, <2>2, ListNext
  <2>3. CASE s = "encoding" /\ call.api = "kii_ti_put_state" /\ UNCHANGED reqHeaders
    <3> DEFINE lost == OwnHeaders(call) \ {"encoding"}
    <3>1. lost \in SUBSET HeaderNames /\ Steps(call.api)[k + 1] \notin lost
      BY <1>2, <1>4, <2>3
    <3>2. ListUpto(call.api, lost, k) = ListUpto(call.api, OwnHeaders(call), k)
      BY <1>1, <1>2, <1>4, ListWithout
    <3> HIDE DEF lost
    <3>3. ListUpto(call.api, lost, k + 1) = ListUpto(call.api, lost, k)
      BY <1>1, <1>2, <3>1, ListNext
    <3>4. k + 1 = Len(Steps(call.api))
      <4>1. BodyLast(Steps(call.api))
        BY <1>1, StepsBodyLast
      <4>2. Steps(call.api)[k + 1] = "encoding"
        BY <1>2, <2>3
      <4> QED BY <1>2, <4>1, <4>2 DEF BodyLast
    <3> QED BY <1>2, <2>3, <3>2, <3>3, <3>4 DEF lost
  <2> QED BY <2>1, <2>2, <2>3
<1>7. BuiltUpto(k + 1)'
  BY <1>2, <1>3, <1>4, <1>5, <1>6 DEF BuiltUpto
<1>8. BodyOwn'
  <2>1. BodyLast(Steps(call.api))
    BY <1>1, StepsBodyLast
  <2>2. CASE s = "body" /\ reqSize' = TRUE /\ rwBuff' = "body"
    <3>1. k + 1 = Len(Steps(call.api))
      <4>1. Steps(call.api)[k + 1] = "body"
        BY <1>2, <2>2
      <4>2. k + 1 \notin 1..Len(Steps(call.api)) - 1
        BY <2>1, <4>1 DEF BodyLast
      <4> QED BY <1>2, <1>5, <4>2
    <3>2. HasBody(call.api)
      BY <1>2, <1>5, <2>2 DEF HasBody
    <3> QED BY <1>2, <1>3, <2>2, <3>1, <3>2 DEF BodyOwn
  <2>3. CASE s # "body" /\ reqSize' = FALSE
    <3>1. ASSUME HasBody(call.api) PROVE k + 1 # Len(Steps(call.api))
      <4>1. PICK i \in 1..Len(Steps(call.api)) : Steps(call.api)[i] = "body"
        BY <3>1 DEF HasBody
      <4>2. i = Len(Steps(call.api))
        BY <1>2, <2>1, <4>1 DEF BodyLast
      <4> QED BY <1>2, <2>3, <4>1, <4>2
    <3> QED BY <1>2, <1>3, <2>3, <3>1 DEF BodyOwn
  <2> QED BY <2>2, <2>3
<1>9. BuildOwn'
  BY <1>1, <1>3, <1>5, <1>7, <1>8 DEF BuildOwn
<1> QED BY <1>3, <1>9 DEF OwnPlace, StartedOwn, PathOwn

LEMMA IdleOwn ==
  ASSUME pc' = "idle" PROVE OwnPlace'
BY DEF OwnPlace, BuildOwn, StartedOwn, PathOwn

LEMMA BeginOwn ==
  ASSUME Layer, HeadersReachable, NEW c \in Calls, Begin(c)
  PROVE  OwnPlace'
<1>1. /\ pc' = "build" /\ call' = c /\ todo' = Steps(c.api) /\ reqSize' = FALSE /\ path' = "none"
      /\ reqHeaders' = << >>
      /\ c.api = "kii_upload_object_body" => cbRead' = "app"
  BY DEF Begin, Reset, HeadersReachable
<1>2. c.api \in ApiNames /\ c.appended = 0 /\ c.body = FALSE
  <2>1. PICK api \in Apis :
          c \in [api : {api}, asks : SUBSET Optional(api),
                 thing : IF api \in AuthCalls \cup {"kii_ti_onboard"}
                         THEN Things ELSE {"none"},
                 appended : {0}, body : {FALSE}]
    BY DEF Calls
  <2>2. c.appended \in {0} /\ c.body \in {FALSE}
    BY <2>1
  <2> QED BY <2>2, CallsTyped
<1>3. Steps(c.api) \in Seq(StepNames) /\ Steps(c.api) # << >> /\ Len(Steps(c.api)) \in Nat
  BY <1>2, StepsShape, StepsBodyLast DEF PathLeads, BodyLast
<1>4. (OwnHeaders(call) \in SUBSET HeaderNames)'
  BY OwnType, PTL
<1>5. ListUpto(c.api, OwnHeaders(c)', 0) = << >>
  BY <1>1, <1>2, <1>4, TextsType
<1>6. SubSeq(Steps(c.api), 0 + 1, Len(Steps(c.api))) = Steps(c.api)
  BY <1>3
<1>7. BuiltUpto(0)'
  BY <1>1, <1>3, <1>5, <1>6 DEF BuiltUpto
<1>8. BodyOwn'
  BY <1>1, <1>3 DEF BodyOwn
<1>9. BuildOwn'
  BY <1>1, <1>2, <1>7, <1>8 DEF BuildOwn
<1> QED BY <1>1, <1>9 DEF OwnPlace, StartedOwn, PathOwn

LEMMA BuildStepOwn ==
  ASSUME UploadTypeFails = FALSE, Layer, OwnPlace, BuildStep
  PROVE  OwnPlace'
<1>1. BuildOwn /\ PathOwn
  BY DEF OwnPlace
<1>2. ASSUME NEW s, Building(s)
      PROVE  pc = "build" /\ reqSize = FALSE /\ path \in {call.api, "none"} /\ call.api \in ApiNames
  <2>1. pc = "build"
    BY <1>2 DEF Building
  <2> QED BY <1>1, <1>2, <2>1, AtStep DEF PathOwn
<1>3. ASSUME NEW code, Return(code) PROVE OwnPlace'
  BY <1>3, IdleOwn DEF Return
<1>4. CASE PathSet
  <2>1. /\ Building("path") /\ Next1 /\ UNCHANGED <<author, reqHeaders, reqSize>>
        /\ path' = call.api /\ "path" \notin OwnHeaders(call)
    BY <1>4 DEF PathSet, OwnHeaders, HeaderNames
  <2> QED BY <1>1, <1>2, <2>1, GoesOn
<1>5. CASE PathTooLarge
  BY <1>3, <1>5 DEF PathTooLarge
<1>6. CASE PathDropped
  <2>1. /\ Building("path") /\ Next1 /\ UNCHANGED <<author, reqHeaders, reqSize, path>>
        /\ "path" \notin OwnHeaders(call)
    BY <1>6 DEF PathDropped, OwnHeaders, HeaderNames
  <2> QED BY <1>1, <1>2, <2>1, GoesOn
<1>7. ASSUME NEW h \in HeaderNames, HeaderAppended(h) PROVE OwnPlace'
  <2>1. /\ Building(h) /\ Next1 /\ UNCHANGED <<author, reqSize, path>> /\ h # "body"
        /\ h \in OwnHeaders(call) /\ reqHeaders' = Append(reqHeaders, h)
    BY <1>7 DEF HeaderAppended, OwnHeaders, HeaderNames
  <2> QED BY <1>1, <1>2, <2>1, GoesOn
<1>8. ASSUME NEW h \in HeaderNames, HeaderSkipped(h) PROVE OwnPlace'
  <2>1. /\ Building(h) /\ Next1 /\ UNCHANGED <<author, reqSize, path, reqHeaders>> /\ h # "body"
        /\ h \notin OwnHeaders(call)
    BY <1>8 DEF HeaderSkipped, OwnHeaders, HeaderNames
  <2> QED BY <1>1, <1>2, <2>1, GoesOn
<1>9. ASSUME NEW h \in HeaderNames, NEW code, HeaderFails(h, code) PROVE OwnPlace'
  <2>1. CASE h \in AllCalls[call.api].flow.ignores
    <3>1. /\ Building(h) /\ Next1 /\ UNCHANGED <<author, reqSize, path, reqHeaders>> /\ h # "body"
      BY <1>9, <2>1 DEF HeaderFails, HeaderNames
    <3>2. h = "encoding" /\ call.api = "kii_ti_put_state"
      BY <1>2, <2>1, <3>1, IgnoredHeader
    <3> QED BY <1>1, <1>2, <3>1, <3>2, GoesOn
  <2>2. CASE h \notin AllCalls[call.api].flow.ignores
    BY <1>3, <1>9, <2>2 DEF HeaderFails
  <2> QED BY <2>1, <2>2
<1>10. CASE BodyBuilt
  <2>1. PICK s \in {"body", "empty"} : Building(s)
    BY <1>10 DEF BodyBuilt
  <2>2. /\ Next1 /\ UNCHANGED <<author, path, reqHeaders>> /\ s \notin OwnHeaders(call)
        /\ s = "body" => reqSize' = TRUE /\ rwBuff' = "body"
        /\ s # "body" => reqSize' = FALSE
    BY <1>10, <2>1 DEF BodyBuilt, Building, OwnHeaders, HeaderNames
  <2> QED BY <1>1, <1>2, <2>1, <2>2, GoesOn
<1>11. CASE BodyTooLarge
  BY <1>3, <1>11 DEF BodyTooLarge
<1> QED BY <1>4, <1>5, <1>6, <1>7, <1>8, <1>9, <1>10, <1>11 DEF BuildStep, HeaderStep

\* The headers that the application adds come behind those of the steps.
LEMMA OneMore ==
  ASSUME NEW c \in CallType, NEW d, d.api = c.api, d.appended = c.appended + 1,
         c.api \in ApiNames, NEW names \in SUBSET HeaderNames
  PROVE  HeaderList(d, names) = Append(HeaderList(c, names), "added")
<1> DEFINE a == FlattenSeq(StepTexts(c.api, names))
           b == [i \in 1..c.appended |-> "added"]
           e == [i \in 1..c.appended + 1 |-> "added"]
<1>1. a \in Seq(Listed)
  BY TextsType, FlattenType
<1>2. c.appended \in Nat
  BY DEF CallType
<1>3. b \in Seq(Listed) /\ Len(b) = c.appended /\ \A i \in 1..c.appended : b[i] = "added"
  <2>1. b \in [1..c.appended -> Listed]
    BY DEF Listed
  <2> QED BY <1>2, <2>1, FunctionSeq
<1>4. e \in Seq(Listed) /\ Len(e) = c.appended + 1 /\ \A i \in 1..c.appended + 1 : e[i] = "added"
  <2>1. e \in [1..c.appended + 1 -> Listed] /\ c.appended + 1 \in Nat
    BY <1>2 DEF Listed
  <2> QED BY <2>1, FunctionSeq
<1>5. HeaderList(c, names) = a \o b /\ HeaderList(d, names) = a \o e
  BY DEF HeaderList
<1> HIDE DEF a, b, e
<1>6. e = Append(b, "added")
  <2>1. /\ Append(b, "added") \in Seq(Listed) /\ Len(Append(b, "added")) = c.appended + 1
        /\ \A i \in 1..c.appended + 1 : Append(b, "added")[i] = "added"
    BY <1>2, <1>3 DEF Listed
  <2> QED BY <1>4, <2>1, SeqEqual
<1>7. a \o Append(b, "added") = Append(a \o b, "added")
  <2>1. /\ a \o b \in Seq(Listed) /\ <<"added">> \in Seq(Listed)
        /\ Append(b, "added") = b \o <<"added">> /\ Append(a \o b, "added") = (a \o b) \o <<"added">>
    BY <1>1, <1>3 DEF Listed
  <2> DEFINE x == <<"added">>
  <2>2. x \in Seq(Listed) /\ Append(b, "added") = b \o x /\ Append(a \o b, "added") = (a \o b) \o x
    BY <2>1
  <2> HIDE DEF x
  <2>3. a \o (b \o x) = (a \o b) \o x
    BY <1>1, <1>3, <2>2, ConcatAssociative, SMTT(30)
  <2> QED BY <2>2, <2>3
<1> QED BY <1>5, <1>6, <1>7

\* A list to which nothing was added.
LEMMA NoneAdded ==
  ASSUME NEW c, c.appended = 0, c.api \in ApiNames, NEW names \in SUBSET HeaderNames
  PROVE  HeaderList(c, names) = ListUpto(c.api, names, Len(Steps(c.api)))
<1> DEFINE a == FlattenSeq(StepTexts(c.api, names))
           b == [i \in 1..c.appended |-> "added"]
<1>1. a \in Seq(Listed)
  BY TextsType, FlattenType
<1>2. b = << >>
  <2>1. b \in [1..0 -> Listed]
    BY DEF Listed
  <2>2. b \in Seq(Listed) /\ Len(b) = 0
    BY <2>1, FunctionSeq
  <2> HIDE DEF b
  <2> QED BY <2>2, EmptySeq
<1>3. HeaderList(c, names) = a \o b
  BY DEF HeaderList
<1>4. a = ListUpto(c.api, names, Len(Steps(c.api)))
  BY TextsType
<1> HIDE DEF a, b
<1> QED BY <1>1, <1>2, <1>3, <1>4, ConcatEmptySeq

\* With nothing left to do, the request is whole, but for the header that
\* kii_ti_put_state may have lost.
LEMMA WholeBuilt ==
  ASSUME Layer, BuildOwn, pc = "build", todo = << >>
  PROVE  \/ reqHeaders = HeaderList(call, OwnHeaders(call))
         \/ /\ call.api = "kii_ti_put_state"
            /\ reqHeaders = HeaderList(call, OwnHeaders(call) \ {"encoding"})
<1>1. call.api \in ApiNames /\ call.appended = 0
  BY DEF BuildOwn, Layer, Place
<1>2. PICK k \in Nat : BuiltUpto(k)
  BY DEF BuildOwn
<1>3. Steps(call.api) \in Seq(StepNames) /\ Len(Steps(call.api)) \in Nat
  BY <1>1, StepsShape DEF PathLeads
<1>4. k = Len(Steps(call.api))
  <2>1. k \in 0..Len(Steps(call.api)) /\ SubSeq(Steps(call.api), k + 1, Len(Steps(call.api))) = << >>
    BY <1>2 DEF BuiltUpto
  <2>2. Len(SubSeq(Steps(call.api), k + 1, Len(Steps(call.api)))) = Len(Steps(call.api)) - k
    BY <1>3, <2>1
  <2>3. Len(<< >>) = 0
    OBVIOUS
  <2>4. Len(Steps(call.api)) - k = 0
    BY <2>1, <2>2, <2>3
  <2> QED BY <1>3, <2>4
<1>5. OwnHeaders(call) \in SUBSET HeaderNames /\ OwnHeaders(call) \ {"encoding"} \in SUBSET HeaderNames
  BY OwnType
<1>6. /\ HeaderList(call, OwnHeaders(call)) = ListUpto(call.api, OwnHeaders(call), k)
      /\ HeaderList(call, OwnHeaders(call) \ {"encoding"}) = ListUpto(call.api, OwnHeaders(call) \ {"encoding"}, k)
  BY <1>1, <1>4, <1>5, NoneAdded
<1> QED BY <1>2, <1>6 DEF BuiltUpto

LEMMA ApiCallStepOwn ==
  ASSUME GivesUp = FALSE, Layer, OwnPlace, ApiCallStep
  PROVE  OwnPlace'
<1>1. call \in CallType /\ (pc # "idle" => call.api \in ApiNames) /\ reqSize \in BOOLEAN
      /\ OwnHeaders(call) \in SUBSET HeaderNames
  BY OwnType DEF Layer, Place, KiiTypeOK
<1>2. CASE Started
  <2>1. /\ pc = "build" /\ todo = << >> /\ call.api = "kii_api_call" /\ pc' = "started"
        /\ UNCHANGED <<call, reqHeaders, rwBuff, reqSize, path, author>>
    BY <1>2 DEF Started
  <2>2. reqHeaders = HeaderList(call, OwnHeaders(call))
    BY <2>1, WholeBuilt DEF OwnPlace
  <2>3. call.body = FALSE /\ BodyOwn
    BY <2>1 DEF OwnPlace, BuildOwn
  <2>4. reqSize = FALSE
    BY <1>1, <2>1, <2>3, NoBodies DEF BodyOwn
  <2>5. OwnHeaders(call)' = OwnHeaders(call)
    BY <2>1, OwnSame
  <2>6. StartedOwn'
    BY <2>1, <2>2, <2>3, <2>4, <2>5 DEF StartedOwn
  <2> QED BY <2>1, <2>6 DEF OwnPlace, BuildOwn, PathOwn
<1>3. CASE AppendHeader
  <2>1. /\ pc = "started" /\ pc' = pc /\ call' = [call EXCEPT !.appended = @ + 1]
        /\ reqHeaders' = Append(reqHeaders, "added")
        /\ UNCHANGED <<rwBuff, reqSize, path, author>>
    BY <1>3 DEF AppendHeader
  <2>2. /\ call'.api = call.api /\ call'.asks = call.asks /\ call'.body = call.body
        /\ call'.appended = call.appended + 1
    BY <1>1, <2>1 DEF CallType
  <2>3. OwnHeaders(call)' = OwnHeaders(call)
    BY <2>1, <2>2, OwnSame
  <2>4. /\ reqHeaders = HeaderList(call, OwnHeaders(call)) /\ (reqSize <=> call.body)
        /\ reqSize => rwBuff = "body"
    BY <2>1 DEF OwnPlace, StartedOwn
  <2>5. HeaderList(call', OwnHeaders(call)) = Append(HeaderList(call, OwnHeaders(call)), "added")
    BY <1>1, <2>1, <2>2, OneMore
  <2>6. StartedOwn'
    BY <2>1, <2>2, <2>3, <2>4, <2>5 DEF StartedOwn
  <2> QED BY <2>1, <2>2, <2>6 DEF OwnPlace, BuildOwn, PathOwn
<1>4. CASE AppendHeaderFails
  <2>1. pc = "started" /\ pc' = pc /\ UNCHANGED <<call, reqHeaders, rwBuff, reqSize, path, author>>
    BY <1>4 DEF AppendHeaderFails
  <2>2. OwnHeaders(call)' = OwnHeaders(call)
    BY <2>1, OwnSame
  <2> QED BY <2>1, <2>2 DEF OwnPlace, BuildOwn, StartedOwn, PathOwn
<1>5. CASE AppendBody
  <2>1. /\ pc = "started" /\ pc' = pc /\ call' = [call EXCEPT !.body = TRUE]
        /\ rwBuff' = "body" /\ reqSize' = TRUE /\ UNCHANGED <<reqHeaders, path, author>>
    BY <1>5 DEF AppendBody
  <2>2. /\ call'.api = call.api /\ call'.asks = call.asks /\ call'.body = TRUE
        /\ call'.appended = call.appended
    BY <1>1, <2>1 DEF CallType
  <2>3. OwnHeaders(call)' = OwnHeaders(call)
    BY <2>1, <2>2, OwnSame
  <2>4. HeaderList(call', OwnHeaders(call)) = HeaderList(call, OwnHeaders(call))
    BY <2>2 DEF HeaderList
  <2>5. StartedOwn'
    BY <2>1, <2>2, <2>3, <2>4 DEF OwnPlace, StartedOwn
  <2> QED BY <2>1, <2>2, <2>5 DEF OwnPlace, BuildOwn, PathOwn
<1>6. CASE AppendBodyFails
  BY <1>6, IdleOwn DEF AppendBodyFails
<1> QED BY <1>2, <1>3, <1>4, <1>5, <1>6 DEF ApiCallStep

\* What khc reads as the body is the body of the call.
LEMMA BodyReadOwn ==
  ASSUME Layer, OwnPlace, CallbackPlace, CallbacksRestored,
         \/ pc = "build" /\ todo = << >> /\ call.api # "kii_api_call"
         \/ pc = "started"
  PROVE  BodyRead = OwnBody(call)
<1>1. cbRead \in {"_cb_read_buff", "app"} /\ call.body \in BOOLEAN /\ reqSize \in BOOLEAN
      /\ call.api \in ApiNames
  BY DEF Layer, KiiTypeOK, Place, CallType
<1>2. OwnBody(call) =
        IF call.api \in {"kii_upload_object_body", "kii_ti_put_state"} THEN "app"
        ELSE IF call.body \/ HasBody(call.api) THEN "body" ELSE "none"
  BY DEF OwnBody, HasBody
<1>3. CASE pc = "started"
  <2>1. /\ call.api = "kii_api_call" /\ cbRead = "_cb_read_buff" /\ (reqSize <=> call.body)
        /\ reqSize => rwBuff = "body"
    BY <1>3 DEF Layer, Place, CallbacksRestored, OwnPlace, StartedOwn
  <2> QED BY <1>1, <1>2, <2>1, NoBodies DEF BodyRead
<1>4. CASE pc = "build" /\ todo = << >>
  <2>1. /\ call.body = FALSE /\ BodyOwn
        /\ call.api = "kii_upload_object_body" => cbRead = "app"
        /\ cbRead = "app" => call.api = "kii_upload_object_body"
    BY <1>4 DEF OwnPlace, BuildOwn, CallbackPlace
  <2>2. (reqSize <=> HasBody(call.api)) /\ (reqSize => rwBuff = "body")
    BY <1>1, <1>4, <2>1 DEF BodyOwn
  <2> QED BY <1>1, <1>2, <2>1, <2>2, NoBodies DEF BodyRead
<1> QED BY <1>3, <1>4

LEMMA PerformOwn ==
  ASSUME Layer, OwnPlace, CallbackPlace, CallbacksRestored,
         NEW code, NEW status, NEW answer, Perform(code, status, answer)
  PROVE  OwnPlace' /\ RequestOwn'
<1>1. /\ \/ pc = "build" /\ todo = << >> /\ call.api # "kii_api_call"
         \/ pc = "started"
      /\ sent' = [call |-> call, own |-> OwnHeaders(call), headers |-> reqHeaders,
                  path |-> path, body |-> BodyRead]
      /\ FreeAll
  BY DEF Perform
<1>2. RequestOwn'
  <2>1. BodyRead = OwnBody(call)
    BY <1>1, BodyReadOwn
  <2>2. path \in {call.api, "none"}
    BY <1>1 DEF OwnPlace, PathOwn
  <2>3. \/ reqHeaders = HeaderList(call, OwnHeaders(call))
        \/ /\ call.api = "kii_ti_put_state"
           /\ reqHeaders = HeaderList(call, OwnHeaders(call) \ {"encoding"})
    BY <1>1, WholeBuilt DEF OwnPlace, StartedOwn
  <2>4. /\ sent'.call = call /\ sent'.own = OwnHeaders(call) /\ sent'.headers = reqHeaders
        /\ sent'.path = path /\ sent'.body = BodyRead
    BY <1>1
  <2> HIDE DEF BodyRead, OwnBody, OwnHeaders, HeaderList
  <2> QED BY <2>1, <2>2, <2>3, <2>4 DEF RequestOwn
<1>3. CASE call.api = "kii_ti_onboard" /\ Verdict(code, status, answer) = "OK"
  <2>1. /\ call' = [call EXCEPT !.api = "_onboard"]
        /\ todo' = Steps("_onboard") /\ reqSize' = FALSE /\ path' = "none"
        /\ UNCHANGED <<pc, cbRead, cbWrite>>
    BY <1>3 DEF Perform, Reset
  <2>2. call \in CallType /\ pc = "build"
    BY <1>1, <1>3 DEF Layer, Place
  <2>3. call'.api = "_onboard" /\ call'.appended = 0 /\ call'.body = FALSE
    BY <2>1, <2>2 DEF CallType, OwnPlace, BuildOwn
  <2>4. "_onboard" \in ApiNames
    BY DEF ApiNames, ThingIfCalls
  <2>5. Steps("_onboard") \in Seq(StepNames) /\ Steps("_onboard") # << >> /\ Len(Steps("_onboard")) \in Nat
    BY <2>4, StepsShape, StepsBodyLast DEF PathLeads, BodyLast
  <2>6. reqHeaders' = << >>
    BY <1>1, FreedLayer
  <2>7. (OwnHeaders(call) \in SUBSET HeaderNames)'
    BY OwnType, PTL
  <2>8. ListUpto("_onboard", OwnHeaders(call)', 0) = << >>
    BY <2>4, <2>7, TextsType
  <2>9. SubSeq(Steps("_onboard"), 0 + 1, Len(Steps("_onboard"))) = Steps("_onboard")
    BY <2>5
  <2>10. BuiltUpto(0)'
    BY <2>1, <2>3, <2>5, <2>6, <2>8, <2>9 DEF BuiltUpto
  <2>11. BodyOwn'
    BY <2>1, <2>5 DEF BodyOwn
  <2>12. BuildOwn'
    BY <2>3, <2>10, <2>11 DEF BuildOwn
  <2> QED BY <1>2, <2>1, <2>2, <2>12 DEF OwnPlace, StartedOwn, PathOwn
<1>4. CASE ~(call.api = "kii_ti_onboard" /\ Verdict(code, status, answer) = "OK")
  <2>1. pc' = "idle"
    BY <1>4 DEF Perform, Return
  <2> QED BY <1>2, <2>1, IdleOwn
<1> QED BY <1>3, <1>4

\* No other step touches what the last khc_perform was given.
LEMMA SentKept ==
  ASSUME RequestOwn, BuildStep \/ ApiCallStep \/ (\E c \in Calls : Begin(c)) \/ UNCHANGED vars
  PROVE  RequestOwn'
<1>1. UNCHANGED sent \/ sent' = << >>
  BY DEF vars, BuildStep, PathSet, PathTooLarge, PathDropped, HeaderStep, HeaderAppended,
     HeaderSkipped, HeaderFails, BodyBuilt, BodyTooLarge, ApiCallStep, Started, AppendHeader,
     AppendHeaderFails, AppendBody, AppendBodyFails, Begin
<1> QED BY <1>1 DEF RequestOwn

\* Whatever calls went before and wherever they failed, khc is given the
\* headers, the path and the body of the call that runs it, although all of
\* them pass through one _rw_buff and the list of headers is never reset.  As
\* for HeadersReachable, the application ends the calls it starts.
THEOREM RequestAlwaysOwn ==
  ASSUME GivesUp = FALSE, UploadTypeFails = FALSE
  PROVE  Spec => []RequestOwn
<1> DEFINE Own == OwnPlace /\ RequestOwn
<1>1. Init => Own
  BY DEF Init, OwnPlace, BuildOwn, StartedOwn, PathOwn, RequestOwn
<1>2. KiiIInv /\ HeadersReachable /\ Own /\ [Next]_vars => Own'
  <2> SUFFICES ASSUME KiiIInv, HeadersReachable, Own, [Next]_vars PROVE Own'
    OBVIOUS
  <2> USE DEF KiiIInv
  <2>1. ASSUME NEW c \in Calls, Begin(c) PROVE Own'
    BY <2>1, BeginOwn, SentKept
  <2>2. CASE BuildStep
    BY <2>2, BuildStepOwn, SentKept
  <2>3. CASE ApiCallStep
    BY <2>3, ApiCallStepOwn, SentKept
  <2>4. CASE PerformStep
    BY <2>4, PerformOwn DEF PerformStep
  <2>5. CASE UNCHANGED vars
    <3>1. OwnHeaders(call)' = OwnHeaders(call)
      BY <2>5, OwnSame DEF vars
    <3>2. OwnPlace'
      BY <2>5, <3>1 DEF vars, OwnPlace, BuildOwn, BuiltUpto, BodyOwn, StartedOwn, PathOwn
    <3> QED BY <2>5, <3>2, SentKept
  <2> QED BY <2>1, <2>2, <2>3, <2>4, <2>5 DEF Next
<1>3. Own => RequestOwn
  OBVIOUS
<1> HIDE DEF Own
<1> QED BY <1>1, <1>2, <1>3, KiiInductive, HeadersAlwaysReachable, PTL DEF Spec
=============================================================================
