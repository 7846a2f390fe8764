--------------------------- MODULE UpdaterProofs ---------------------------
(***************************************************************************)
(* What is proved of the updater, for every update interval: its pace, and *)
(* that the request layer keeps its invariants under it as under an        *)
(* application.                                                            *)
(***************************************************************************)
EXTENDS KiiUsers, KiiProofs

\* What was waited since the end of an upload and what remains make an interval;
\* the interval is whole until the upload has returned.
Pacing ==
    /\ interval \in Nat /\ remain \in Nat
    /\ since \in Nat /\ took \in Nat /\ lasted \in Nat
    /\ since + remain = interval + took
    /\ upc \in {"size", "upload"} => remain = interval /\ took = 0
    /\ apart = interval + lasted

\* The updater makes one call only, which authenticates nothing.
OneCall == user = "updater" => call.api \in {"kii_init", "kii_ti_put_state"}

UsersIInv == KiiIInv /\ Pacing /\ OneCall

LEMMA PutStateCall ==
    /\ PutState \in CallType /\ PutState.api = "kii_ti_put_state"
    /\ "kii_ti_put_state" \in ApiNames \ AuthCalls
BY DEF PutState, CallType, ApiNames, ThingIfCalls, AuthCalls

LEMMA UploadingIsNext == Uploading => Next
BY DEF Uploading, Next

\* Only waiting and the return of an upload move the time.
LEMMA PaceKept ==
  ASSUME Pacing, UpdaterNext \/ UNCHANGED updater
  PROVE  Pacing'
<1> USE DEF Pacing
<1>1. CASE UNCHANGED updater \/ Uploading
  BY <1>1 DEF updater, clock, Uploading
<1>2. CASE UpdaterStart \/ AskStop \/ NoState \/ StartUpload \/ UpdaterExit \/ StopAsked
  BY <1>2 DEF UpdaterStart, AskStop, NoState, StartUpload, UpdaterExit, StopAsked, clock
<1>3. CASE Wait
  BY <1>3 DEF Wait, CheckInterval
<1>4. CASE UploadDue
  BY <1>4 DEF UploadDue, DueAfter
<1>5. CASE Uploaded
  <2>0. PICK t \in Nat : took' = t /\ since' = since + t
    BY <1>5, UpdaterAssumption DEF Uploaded
  <2>1. took = 0
    BY <1>5 DEF Uploaded
  <2>2. /\ upc' = "loop"
        /\ interval' = interval /\ remain' = remain /\ apart' = apart /\ lasted' = lasted
    BY <1>5 DEF Uploaded
  <2>3. since' + remain' = interval' + took'
    BY <2>0, <2>1, <2>2, <1>5 DEF Uploaded
  <2>4. upc' \notin {"size", "upload"}
    BY <2>2
  <2>5. apart' = interval' + lasted'
    BY <2>2
  <2>6. interval' \in Nat /\ remain' \in Nat
    BY <2>2
  <2>7. lasted' \in Nat
    BY <2>2
  <2>8. since' \in Nat /\ took' \in Nat
    BY <2>0
  <2> QED BY <2>3, <2>4, <2>5, <2>6, <2>7, <2>8
<1> QED BY <1>1, <1>2, <1>3, <1>4, <1>5 DEF UpdaterNext, UpdaterTask

LEMMA UploadCallKept ==
  ASSUME KiiIInv, OneCall, user = "updater", user' = user, Uploading
  PROVE  OneCall'
<1>1. call.api \in {"kii_init", "kii_ti_put_state"} /\ call.api # "kii_ti_onboard"
  BY DEF OneCall
<1>2. CASE BuildStep
  BY <1>1, <1>2 DEF OneCall, BuildStep, PathSet, PathTooLarge, PathDropped, HeaderStep,
     HeaderAppended, HeaderSkipped, HeaderFails, BodyBuilt, BodyTooLarge, Next1
<1>3. CASE PerformStep
  BY <1>1, <1>3 DEF OneCall, PerformStep, Perform
<1> QED BY <1>2, <1>3 DEF Uploading

LEMMA UpdaterKept ==
  ASSUME UsersIInv, UpdaterStep, user' = user
  PROVE  UsersIInv'
<1> USE DEF UsersIInv
<1>1. Pacing' /\ user = "updater" /\ UpdaterNext
  BY PaceKept DEF UpdaterStep
<1>2. CASE UpdaterStart
  <2>1. /\ UNCHANGED <<call, pc, todo, reqHeaders, nodes, rwBuff, cbRead, cbWrite, result, reqSize>>
        /\ author' \in [id : Things \cup {"none"}, token : Things \cup {"none"}]
    BY <1>2 DEF UpdaterStart
  <2>2. Layer' /\ CallbackPlace' /\ CallbacksRestored'
    BY <2>1 DEF KiiIInv, Layer, KiiTypeOK, Place, CallbackPlace, CallbacksRestored
  <2>3. OneCall' /\ AuthorWhole'
    BY <1>1, <2>1 DEF OneCall, AuthorWhole, AuthCalls
  <2> QED BY <1>1, <2>2, <2>3 DEF KiiIInv
<1>3. CASE StartUpload
  <2>1. Begin(PutState)
    BY <1>3 DEF StartUpload
  <2>2. OneCall'
    BY <1>1, <2>1, PutStateCall DEF OneCall, Begin
  <2> QED BY <1>1, <2>1, <2>2, PutStateCall, CallBegins
<1>4. CASE Uploading
  BY <1>1, <1>4, UploadingIsNext, LayerInvariantKept, UploadCallKept
<1>5. CASE AskStop \/ Wait \/ UploadDue \/ NoState \/ Uploaded \/ UpdaterExit \/ StopAsked
  <2>1. UNCHANGED vars
    BY <1>5 DEF AskStop, Wait, UploadDue, NoState, Uploaded, UpdaterExit, StopAsked
  <2>2. OneCall'
    BY <2>1 DEF OneCall, vars
  <2> QED BY <1>1, <2>1, <2>2, LayerInvariantKept
<1> QED BY <1>1, <1>2, <1>3, <1>4, <1>5 DEF UpdaterNext, UpdaterTask

\* Every state reached by an application or by the updater satisfies the
\* invariant of the layer and the pace.
THEOREM UsersInductive == UsersSpec => []UsersIInv
<1>1. UsersInit => UsersIInv
  <2> SUFFICES ASSUME UsersInit PROVE UsersIInv
    OBVIOUS
  <2>1. KiiIInv
    BY InitPlace DEF UsersInit, KiiIInv, Layer, Init, CallbackPlace, CallbacksRestored,
       AuthorWhole, AuthCalls
  <2>2. Pacing
    BY UpdaterAssumption DEF UsersInit, UpdaterInit, Pacing
  <2>3. OneCall
    BY DEF UsersInit, Init, OneCall
  <2> QED BY <2>1, <2>2, <2>3 DEF UsersIInv
<1>2. UsersIInv /\ [UsersNext]_userVars => UsersIInv'
  <2> SUFFICES ASSUME UsersIInv, [UsersNext]_userVars PROVE UsersIInv'
    OBVIOUS
  <2>1. CASE AppStep /\ user' = user
    BY <2>1, LayerInvariantKept, PaceKept DEF UsersIInv, AppStep, OneCall
  <2>2. CASE UpdaterStep /\ user' = user
    BY <2>2, UpdaterKept
  <2>3. CASE UNCHANGED userVars
    BY <2>3, LayerInvariantKept, PaceKept DEF UsersIInv, OneCall, userVars, vars
  <2> QED BY <2>1, <2>2, <2>3 DEF UsersNext
<1> QED BY <1>1, <1>2, PTL DEF UsersSpec

(***************************************************************************)
(* For every interval, and however long uploads take, the next upload is   *)
(* due exactly one interval after the return of the one before             *)
(* (tio.c:437-479).                                                        *)
(***************************************************************************)
THEOREM UploadsAlwaysPaced == UsersSpec => []UploadsPaced
<1>1. UsersIInv => UploadsPaced
  BY DEF UsersIInv, Pacing, UploadsPaced
<1> QED BY <1>1, UsersInductive, PTL

(***************************************************************************)
(* Under the updater as under an application, whatever fails: the          *)
(* callbacks of the SDK are back in their place when a call has returned   *)
(* (tio.c:457, kii_ti_impl.c:405-407).                                     *)
(***************************************************************************)
THEOREM UsersRestoreCallbacks == UsersSpec => []CallbacksRestored
<1>1. UsersIInv => CallbacksRestored
  BY DEF UsersIInv, KiiIInv
<1> QED BY <1>1, UsersInductive, PTL

(***************************************************************************)
(* No upload that fails leaves a header to the next one, however many      *)
(* fail, if no call is given up and the Content-Type of a body can be set  *)
(* (tio.c:457, kii_ti_impl.c:389-408).                                     *)
(***************************************************************************)
THEOREM UsersReachHeaders ==
  ASSUME GivesUp = FALSE, UploadTypeFails = FALSE
  PROVE  UsersSpec => []HeadersReachable
<1> DEFINE Reachable == PathFirst /\ HeadersReachable
<1>1. UsersInit => Reachable
  BY DEF UsersInit, Init, PathFirst, HeadersReachable
<1>2. UsersIInv /\ Reachable /\ [UsersNext]_userVars => Reachable'
  <2> SUFFICES ASSUME UsersIInv, Reachable, [UsersNext]_userVars PROVE Reachable'
    OBVIOUS
  <2>1. CASE Next
    BY <2>1, HeadersKept DEF UsersIInv, KiiIInv
  <2>2. CASE UNCHANGED vars \/ UpdaterStart
    BY <2>2 DEF PathFirst, HeadersReachable, vars, UpdaterStart
  <2>3. CASE StartUpload
    <3>1. Begin(PutState)
      BY <2>3 DEF StartUpload
    <3> QED BY <3>1 DEF Begin, PathFirst, HeadersReachable
  <2> QED BY <2>1, <2>2, <2>3, UploadingIsNext
      DEF UsersNext, AppStep, UpdaterStep, UpdaterNext, UpdaterTask, AskStop, Wait, UploadDue,
      NoState, Uploaded, UpdaterExit, StopAsked, userVars
<1>3. Reachable => HeadersReachable
  OBVIOUS
<1> HIDE DEF Reachable
<1> QED BY <1>1, <1>2, <1>3, UsersInductive, PTL DEF UsersSpec
=============================================================================
