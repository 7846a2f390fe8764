---------------------------- MODULE KiiRequest ----------------------------
(***************************************************************************)
(* The request layer of the SDK: what a function of kii.h does with the    *)
(* one kii_t it shares with every other call.  A function resets khc and   *)
(* the positions of _rw_buff, writes the path, each header and the body,   *)
(* one after the other, into the same _rw_buff, collects the headers in    *)
(* the list kii->_req_headers, hands the request to khc_perform, which     *)
(* writes the response into _rw_buff again, frees the list, and reads the  *)
(* answer.  Each of these steps can fail.                                  *)
(*                                                                         *)
(* A header is its name, and _rw_buff is what was written there last.      *)
(* khc_perform is one step that ends with any code Khc can end with.       *)
(***************************************************************************)
EXTENDS Naturals, Sequences, SequencesExt

CONSTANTS
    Apis,       \* the functions the application calls
    Things,     \* the things it onboards or authenticates
    GivesUp,    \* it abandons a started call when a header was not appended
    UploadTypeFails, \* the Content-Type of an object body may not be set
    MaxHeaders  \* bound on the headers it appends to one started call

ASSUME KiiAssumption ==
    /\ GivesUp \in BOOLEAN /\ UploadTypeFails \in BOOLEAN
    /\ MaxHeaders \in Nat
    /\ "none" \notin Things

VARIABLES
    call,       \* the function that runs or ran last, and its arguments
    pc,         \* "idle", "build", "started" (kii_api_call_start returned)
    todo,       \* the steps of the function that are left
    reqHeaders, \* kii->_req_headers
    nodes,      \* nodes of header lists allocated and not freed
    rwBuff,     \* what _rw_buff was last written with
    reqSize,    \* kii->_rw_buff_req_size > 0
    path,       \* khc->_path
    cbRead, cbWrite, \* the callbacks khc has for the bodies
    author,     \* kii->_author: whose id and whose token
    result,     \* the code the last function returned; "none" while one runs
    sent        \* what the last khc_perform was given, and for which call

vars == <<call, pc, todo, reqHeaders, nodes, rwBuff, reqSize, path,
          cbRead, cbWrite, author, result, sent>>

---------------------------------------------------------------------------
(* What each function builds, in its order.  "keeps" are the headers whose *)
(* failure returns without freeing the list, "ignores" those whose failure *)
(* is not looked at, "checked" tells that the code of khc_set_path is.     *)

Flow(steps, checked) ==
    [steps |-> steps, checked |-> checked, keeps |-> {}, ignores |-> {}]

JsonSteps  == <<"path", "appid", "appkey", "auth", "ctype", "body">>
EmptySteps == <<"path", "appid", "appkey", "auth", "empty">>
KeySteps   == <<"path", "appid", "appkey", "ctype", "body">>

PostObject   == Flow(JsonSteps, TRUE)
PutObject    == Flow(<<"path", "appid", "appkey", "auth", "ctype", "ifmatch", "body">>, TRUE)
PatchObject  == Flow(<<"path", "appid", "appkey", "auth", "ifmatch", "body">>, TRUE)
DeleteObject == Flow(EmptySteps, TRUE)
GetObject    == Flow(EmptySteps, TRUE)
UploadBody   == [Flow(<<"path", "appid", "appkey", "auth", "ctype">>, TRUE)
                    EXCEPT !.keeps = {"ctype"}]
DownloadBody == Flow(EmptySteps, TRUE)

InstallPush       == Flow(JsonSteps, FALSE)
GetMqttEndpoint   == Flow(EmptySteps, FALSE)
SubscribeBucket   == Flow(EmptySteps, TRUE)
UnsubscribeBucket == Flow(EmptySteps, TRUE)
SubscribeTopic    == Flow(EmptySteps, TRUE)
UnsubscribeTopic  == Flow(EmptySteps, TRUE)
PutTopic          == Flow(EmptySteps, TRUE)
DeleteTopic       == Flow(EmptySteps, TRUE)

ThingAuth     == Flow(KeySteps, FALSE)
ThingRegister == Flow(KeySteps, FALSE)

AnonymousToken     == Flow(<<"path", "ctype", "body">>, FALSE)
Onboard            == Flow(<<"path", "auth", "ctype", "body">>, FALSE)
PutFirmwareVersion == Flow(<<"path", "auth", "ctype", "body">>, FALSE)
GetFirmwareVersion == Flow(<<"path", "auth">>, FALSE)
UploadState        == [Flow(<<"path", "auth", "ctype", "encoding">>, FALSE)
                          EXCEPT !.ignores = {"encoding"}]

ExecuteServerCode == Flow(JsonSteps, FALSE)
ApiCallStart      == Flow(<<"path", "appid", "appkey", "ctype", "auth">>, FALSE)

(* The status codes a function accepts, and whether it reads the answer.   *)
Success  == {200, 204}
Statuses == Success \cup {409, 500}
Api(flow, accepts, parses) ==
    [flow |-> flow, accepts |-> accepts, parses |-> parses]

ObjectCalls ==
    [kii_post_object          |-> Api(PostObject, Success, TRUE),
     kii_put_object           |-> Api(PutObject, Success, FALSE),
     kii_patch_object         |-> Api(PatchObject, Success, FALSE),
     kii_delete_object        |-> Api(DeleteObject, Success, FALSE),
     kii_get_object           |-> Api(GetObject, Success, FALSE),
     kii_upload_object_body   |-> Api(UploadBody, Success, FALSE),
     kii_download_object_body |-> Api(DownloadBody, Success, FALSE)]

PushCalls ==
    [kii_install_push       |-> Api(InstallPush, Success, TRUE),
     kii_get_mqtt_endpoint  |-> Api(GetMqttEndpoint, Success, TRUE),
     kii_subscribe_bucket   |-> Api(SubscribeBucket, {204, 409}, FALSE),
     kii_unsubscribe_bucket |-> Api(UnsubscribeBucket, Success, FALSE),
     kii_subscribe_topic    |-> Api(SubscribeTopic, {204, 409}, FALSE),
     kii_unsubscribe_topic  |-> Api(UnsubscribeTopic, {204, 409}, FALSE),
     kii_put_topic          |-> Api(PutTopic, {204, 409}, FALSE),
     kii_delete_topic       |-> Api(DeleteTopic, Success, FALSE)]

ThingCalls ==
    [kii_auth_thing     |-> Api(ThingAuth, Success, TRUE),
     kii_register_thing |-> Api(ThingRegister, Success, TRUE)]

(* kii_ti_onboard is two requests: _get_anonymous_token, then _onboard.    *)
ThingIfCalls ==
    [kii_ti_onboard              |-> Api(AnonymousToken, Success, TRUE),
     _onboard                    |-> Api(Onboard, Success, TRUE),
     kii_ti_put_firmware_version |-> Api(PutFirmwareVersion, Success, FALSE),
     kii_ti_get_firmware_version |-> Api(GetFirmwareVersion, Success, TRUE),
     kii_ti_put_state            |-> Api(UploadState, Success, FALSE)]

OtherCalls ==
    [kii_execute_server_code |-> Api(ExecuteServerCode, Success, FALSE),
     kii_api_call            |-> Api(ApiCallStart, Statuses, FALSE)]

ApiNames == DOMAIN ObjectCalls \cup DOMAIN PushCalls \cup DOMAIN ThingCalls
                \cup DOMAIN ThingIfCalls \cup DOMAIN OtherCalls

AllCalls ==
    [api \in ApiNames |->
        IF api \in DOMAIN ObjectCalls THEN ObjectCalls[api]
        ELSE IF api \in DOMAIN PushCalls THEN PushCalls[api]
        ELSE IF api \in DOMAIN ThingCalls THEN ThingCalls[api]
        ELSE IF api \in DOMAIN ThingIfCalls THEN ThingIfCalls[api]
        ELSE OtherCalls[api]]

ASSUME ApisAssumption == Apis \subseteq ApiNames \ {"_onboard"}

HeaderNames == {"appid", "appkey", "auth", "ctype", "ifmatch", "encoding"}

---------------------------------------------------------------------------
(* The calls an application can make: which optional headers it asks for.  *)

Optional(api) ==
    CASE api \in {"kii_put_object", "kii_patch_object"} -> {"ifmatch"}
      [] api = "kii_ti_put_state" -> {"encoding"}
      [] api = "kii_api_call" -> {"ctype", "auth"}
      [] OTHER -> {}

AuthCalls   == {"kii_auth_thing", "kii_register_thing", "_onboard"}

Calls == UNION {[api : {api}, asks : SUBSET Optional(api),
                 thing : IF api \in AuthCalls \cup {"kii_ti_onboard"}
                         THEN Things ELSE {"none"},
                 appended : {0}, body : {FALSE}] : api \in Apis}

(* A header is carried unless it is optional and not asked for; the        *)
(* Authorization header needs a token, which _onboard gets as an argument. *)
Carried(c, h) ==
    /\ h \in HeaderNames
    /\ h \in Optional(c.api) => h \in c.asks
    /\ h = "auth" /\ c.api # "_onboard" => author.token # "none"

Steps(api) == AllCalls[api].flow.steps

(* What a request of the call is meant to carry: which headers, and the    *)
(* list that has them in the order of the steps, with what was appended.   *)
OwnHeaders(c) == {h \in HeaderNames : Carried(c, h)}

StepTexts(api, names) ==
    [i \in DOMAIN Steps(api) |->
        IF Steps(api)[i] \in names THEN <<Steps(api)[i]>> ELSE << >>]

HeaderList(c, names) ==
    FlattenSeq(StepTexts(c.api, names)) \o [i \in 1..c.appended |-> "added"]

OwnBody(c) ==
    IF c.api \in {"kii_upload_object_body", "kii_ti_put_state"} THEN "app"
    ELSE IF c.body \/ \E i \in 1..Len(Steps(c.api)) : Steps(c.api)[i] = "body"
         THEN "body" ELSE "none"

---------------------------------------------------------------------------
Init ==
    /\ call = [api |-> "kii_init", asks |-> {}, thing |-> "none",
               appended |-> 0, body |-> FALSE]
    /\ pc = "idle"
    /\ todo = << >>
    /\ reqHeaders = << >>
    /\ nodes = 0
    /\ rwBuff = "none"
    /\ reqSize = FALSE
    /\ path = "none"
    /\ cbRead = "_cb_read_buff"
    /\ cbWrite = "_cb_write_buff"
    /\ author = [id |-> "none", token |-> "none"]
    /\ result = "OK"
    /\ sent = << >>

\* Mutant: the size of the body is not reset.
ResetPathOnly == path' = "none" /\ UNCHANGED reqSize

(* khc_reset_except_cb and _reset_buff.  The list of headers is not reset. *)
Reset ==
    /\ reqSize' = FALSE
    /\ path' = "none"

\* Mutant: the pointer to the freed list is kept.
FreeAllDangling == nodes' = nodes - Len(reqHeaders) /\ UNCHANGED reqHeaders

FreeAll ==
    /\ nodes' = nodes - Len(reqHeaders)
    /\ reqHeaders' = << >>

\* Mutant: the error paths return before the callback is put back.
ReturnRestoringOnOk(code) ==
    /\ pc' = "idle"
    /\ todo' = << >>
    /\ result' = code
    /\ cbRead' = IF code = "OK" THEN "_cb_read_buff" ELSE cbRead
    /\ cbWrite' = IF code = "OK" THEN "_cb_write_buff" ELSE cbWrite

(* A function returns: the two that replace a callback put it back.        *)
Return(code) ==
    /\ pc' = "idle"
    /\ todo' = << >>
    /\ result' = code
    /\ cbRead' = IF call.api = "kii_upload_object_body"
                 THEN "_cb_read_buff" ELSE cbRead
    /\ cbWrite' = IF call.api = "kii_download_object_body"
                  THEN "_cb_write_buff" ELSE cbWrite

Begin(c) ==
    /\ pc = "idle"
    /\ pc' = "build"
    /\ call' = c
    /\ todo' = Steps(c.api)
    /\ Reset
    /\ cbRead' = IF c.api = "kii_upload_object_body" THEN "app" ELSE cbRead
    /\ cbWrite' = IF c.api = "kii_download_object_body" THEN "app" ELSE cbWrite
    /\ result' = "none"
    /\ sent' = << >>
    /\ UNCHANGED <<reqHeaders, nodes, rwBuff, author>>

Building(s) == pc = "build" /\ todo # << >> /\ Head(todo) = s
Next1 == todo' = Tail(todo) /\ UNCHANGED <<call, pc, cbRead, cbWrite, result>>

---------------------------------------------------------------------------
(* The path: kii_api_call_start is given it, the others write it into      *)
(* _rw_buff.  A path khc has no room for leaves khc without one, and only  *)
(* some of the functions look at the code that says so.                    *)

BuildsPath == rwBuff' = IF call.api = "kii_api_call" THEN rwBuff ELSE "path"

PathSet ==
    /\ Building("path")
    /\ BuildsPath
    /\ path' = call.api
    /\ Next1
    /\ UNCHANGED <<reqHeaders, nodes, reqSize, author, sent>>

PathTooLarge ==
    /\ Building("path")
    /\ call.api # "kii_api_call"
    /\ BuildsPath
    /\ Return("TOO_LARGE_DATA")
    /\ UNCHANGED <<call, reqHeaders, nodes, reqSize, path, author, sent>>

PathDropped ==
    /\ Building("path")
    /\ ~AllCalls[call.api].flow.checked
    /\ BuildsPath
    /\ Next1
    /\ UNCHANGED <<reqHeaders, nodes, reqSize, path, author, sent>>

---------------------------------------------------------------------------
(* One header: formatted in _rw_buff, copied into a node of the list.      *)

HeaderAppended(h) ==
    /\ Building(h)
    /\ Carried(call, h)
    /\ rwBuff' = h
    /\ reqHeaders' = Append(reqHeaders, h)
    /\ nodes' = nodes + 1
    /\ Next1
    /\ UNCHANGED <<reqSize, path, author, sent>>

HeaderSkipped(h) ==
    /\ Building(h)
    /\ h \in HeaderNames /\ ~Carried(call, h)
    /\ Next1
    /\ UNCHANGED <<reqHeaders, nodes, rwBuff, reqSize, path, author, sent>>

\* Mutant: the list is overwritten with the NULL that tells the failure.
HeaderFailsLosingList(h, code) ==
    /\ Building(h)
    /\ Carried(call, h)
    /\ rwBuff' = h
    /\ reqHeaders' = << >>
    /\ Return(code)
    /\ UNCHANGED <<call, nodes, reqSize, path, author, sent>>

(* The header does not fit _rw_buff, or there is no memory for its node.   *)
HeaderFails(h, code) ==
    LET flow == AllCalls[call.api].flow IN
    /\ Building(h)
    /\ Carried(call, h)
    /\ rwBuff' = h
    /\ h \in flow.keeps => UploadTypeFails
    /\ IF h \in flow.keeps \cup flow.ignores
       THEN UNCHANGED <<reqHeaders, nodes>> ELSE FreeAll
    /\ IF h \in flow.ignores THEN Next1 ELSE Return(code) /\ UNCHANGED call
    /\ UNCHANGED <<reqSize, path, author, sent>>

---------------------------------------------------------------------------
(* The body goes where the path and the headers were formatted.            *)

BodyBuilt ==
    /\ Building("body") \/ Building("empty")
    /\ rwBuff' = IF Head(todo) = "body" THEN "body" ELSE "none"
    /\ reqSize' = (Head(todo) = "body")
    /\ Next1
    /\ UNCHANGED <<reqHeaders, nodes, path, author, sent>>

BodyTooLarge ==
    /\ Building("body")
    /\ rwBuff' \in {rwBuff, "body"}
    /\ FreeAll
    /\ Return("TOO_LARGE_DATA")
    /\ UNCHANGED <<call, reqSize, path, author, sent>>

---------------------------------------------------------------------------
(* kii_api_call_start has returned; the application appends parts and runs *)
(* the request.                                                            *)

Started ==
    /\ pc = "build" /\ todo = << >> /\ call.api = "kii_api_call"
    /\ pc' = "started"
    /\ result' = "OK"
    /\ UNCHANGED <<call, todo, reqHeaders, nodes, rwBuff, reqSize, path, cbRead,
                   cbWrite, author, sent>>

(* Formatted in an array of its own, which is always large enough.         *)
AppendHeader ==
    /\ pc = "started"
    /\ call.appended < MaxHeaders
    /\ call' = [call EXCEPT !.appended = @ + 1]
    /\ reqHeaders' = Append(reqHeaders, "added")
    /\ nodes' = nodes + 1
    /\ result' = "OK"
    /\ UNCHANGED <<pc, todo, rwBuff, reqSize, path, cbRead, cbWrite, author, sent>>

(* Without memory for the node the list stays; the application goes on     *)
(* without that header or abandons the call.                               *)
AppendHeaderFails ==
    /\ pc = "started"
    /\ result' = "ALLOCATION"
    /\ pc' \in IF GivesUp THEN {"started", "idle"} ELSE {"started"}
    /\ UNCHANGED <<call, todo, reqHeaders, nodes, rwBuff, reqSize, path, cbRead,
                   cbWrite, author, sent>>

AppendBody ==
    /\ pc = "started"
    /\ call' = [call EXCEPT !.body = TRUE]
    /\ rwBuff' = "body"
    /\ reqSize' = TRUE
    /\ result' = "OK"
    /\ UNCHANGED <<pc, todo, reqHeaders, nodes, path, cbRead, cbWrite, author, sent>>

(* The list is freed, so the application has to start again.               *)
AppendBodyFails ==
    /\ pc = "started"
    /\ FreeAll
    /\ pc' = "idle"
    /\ result' = "TOO_LARGE_DATA"
    /\ UNCHANGED <<call, todo, rwBuff, reqSize, path, cbRead, cbWrite, author, sent>>

---------------------------------------------------------------------------
(* khc_perform with the request as built, and what is done with its end.   *)

KhcCodes == {"OK", "SOCK_CONNECT", "SOCK_CLOSE", "SOCK_SEND", "SOCK_RECV",
             "WRITE_CALLBACK", "ALLOCATION", "TOO_LARGE_DATA", "FAIL"}

ConvertCode(code) == IF code = "SOCK_CLOSE" THEN "SOCK_CONNECT" ELSE code

(* _cb_read_buff gives what _rw_buff holds, up to _rw_buff_req_size.       *)
BodyRead ==
    IF cbRead = "app" \/ call.api = "kii_ti_put_state" THEN "app"
    ELSE IF reqSize THEN rwBuff ELSE "none"

(* What the body of a response has of the fields the function reads.       *)
Answers == {"none", "id", "token", "whole"}

\* Mutant: an answer that lacks a field is accepted.
VerdictPartial(code, status, answer) ==
    IF code # "OK" THEN ConvertCode(code)
    ELSE IF status \notin AllCalls[call.api].accepts THEN "RESP_STATUS"
    ELSE IF AllCalls[call.api].parses /\ answer = "none" THEN "PARSE_JSON"
    ELSE "OK"

(* The code a function returns for a response.                            *)
Verdict(code, status, answer) ==
    IF code # "OK" THEN ConvertCode(code)
    ELSE IF status \notin AllCalls[call.api].accepts THEN "RESP_STATUS"
    ELSE IF AllCalls[call.api].parses /\ answer # "whole" THEN "PARSE_JSON"
    ELSE "OK"

(* The parser copies every field it finds before it tells that one is      *)
(* missing.                                                                *)
Answered(code, status, answer) ==
    IF /\ code = "OK" /\ status \in AllCalls[call.api].accepts
       /\ call.api \in AuthCalls
    THEN [id |-> IF answer \in {"id", "whole"} THEN call.thing ELSE author.id,
          token |-> IF answer \in {"token", "whole"}
                    THEN call.thing ELSE author.token]
    ELSE author

Perform(code, status, answer) ==
    /\ \/ pc = "build" /\ todo = << >> /\ call.api # "kii_api_call"
       \/ pc = "started"
    /\ sent' = [call |-> call, own |-> OwnHeaders(call), headers |-> reqHeaders,
                path |-> path, body |-> BodyRead]
    /\ FreeAll
    /\ rwBuff' \in IF cbWrite = "app" \/ answer = "none"
                   THEN {rwBuff} ELSE {"response"}
    /\ author' = Answered(code, status, answer)
    /\ LET verdict == Verdict(code, status, answer) IN
       IF call.api = "kii_ti_onboard" /\ verdict = "OK"
       THEN /\ call' = [call EXCEPT !.api = "_onboard"]
            /\ todo' = Steps("_onboard")
            /\ Reset
            /\ UNCHANGED <<pc, cbRead, cbWrite, result>>
       ELSE /\ Return(verdict)
            /\ UNCHANGED <<call, reqSize, path>>

---------------------------------------------------------------------------
HeaderStep ==
    \E h \in HeaderNames :
        \/ HeaderAppended(h)
        \/ HeaderSkipped(h)
        \/ \E code \in {"TOO_LARGE_DATA", "ALLOCATION"} : HeaderFails(h, code)

BuildStep ==
    \/ PathSet \/ PathTooLarge \/ PathDropped
    \/ HeaderStep
    \/ BodyBuilt \/ BodyTooLarge

ApiCallStep ==
    \/ Started
    \/ AppendHeader \/ AppendHeaderFails
    \/ AppendBody \/ AppendBodyFails

PerformStep ==
    \/ \E status \in Statuses, answer \in Answers : Perform("OK", status, answer)
    \/ \E code \in KhcCodes \ {"OK"}, answer \in {"none", "whole"} :
           Perform(code, 0, answer)

Next ==
    \/ \E c \in Calls : Begin(c)
    \/ BuildStep
    \/ ApiCallStep
    \/ PerformStep

Spec == Init /\ [][Next]_vars

---------------------------------------------------------------------------
Codes == KhcCodes \cup {"RESP_STATUS", "PARSE_JSON"}

KiiTypeOK ==
    /\ pc \in {"idle", "build", "started"}
    /\ reqHeaders \in Seq(HeaderNames \cup {"added"})
    /\ nodes \in Nat
    /\ rwBuff \in HeaderNames \cup {"none", "path", "body", "response"}
    /\ reqSize \in BOOLEAN
    /\ cbRead \in {"_cb_read_buff", "app"}
    /\ cbWrite \in {"_cb_write_buff", "app"}
    /\ author \in [id : Things \cup {"none"}, token : Things \cup {"none"}]
    /\ result \in Codes \cup {"none"}

(* Whatever calls went before and wherever they failed, khc is given the   *)
(* headers, the path and the body of this call alone, although all of them *)
(* pass through _rw_buff and the list of headers is never reset: the body  *)
(* is not what a header, the path or an earlier response left in the       *)
(* buffer.  Two requests may be poorer than asked: a path khc has no room  *)
(* for is left out by most functions, and _upload_state goes on without    *)
(* Content-Encoding when that header fails (kii_ti_impl.c:401).            *)
RequestOwn ==
    sent # << >> =>
        /\ \/ sent.headers = HeaderList(sent.call, sent.own)
           \/ /\ sent.call.api = "kii_ti_put_state"
              /\ sent.headers = HeaderList(sent.call, sent.own \ {"encoding"})
        /\ sent.path \in {sent.call.api, "none"}
        /\ sent.body = OwnBody(sent.call)

(* Every node of a header list that was allocated is in kii->_req_headers, *)
(* and none is left when no call is running: nothing leaks on any of the   *)
(* many error paths, and nothing is freed twice.                           *)
HeadersReachable ==
    /\ nodes = Len(reqHeaders)
    /\ pc = "idle" => reqHeaders = << >>

(* kii_upload_object_body and kii_download_object_body put the application *)
(* 's callback in the place of the SDK's: it is gone again when they       *)
(* return, however they return, so that the next call reads and writes     *)
(* _rw_buff.                                                               *)
CallbacksRestored ==
    pc \in {"idle", "started"} =>
        cbRead = "_cb_read_buff" /\ cbWrite = "_cb_write_buff"

(* A registration, authentication or onboarding that returned OK left the  *)
(* id and the token of the same thing in kii->_author, whatever an earlier *)
(* one that failed half-way had left there.                                *)
AuthorWhole ==
    pc = "idle" /\ result = "OK" /\ call.api \in AuthCalls =>
        author = [id |-> call.thing, token |-> call.thing]

(* kii.h:745 says of the last argument of kii_api_call_start "A flag       *)
(* determines whether to send authentication header."                      *)
AuthOnlyAsked ==
    sent # << >> /\ sent.call.api = "kii_api_call" /\ "auth" \notin sent.call.asks
        => \A i \in 1..Len(sent.headers) : sent.headers[i] # "auth"
===========================================================================
