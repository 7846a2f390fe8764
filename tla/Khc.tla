-------------------------------- MODULE Khc ---------------------------------
(***************************************************************************)
(* The HTTP client khc: khc_perform runs the handler of _state until it is *)
(* KHC_STATE_FINISHED.  An application performs one session after another, *)
(* each begun with khc_reset_except_cb as every function of kii does; what *)
(* survives from one session to the next is the heap.                      *)
(***************************************************************************)
EXTENDS KhcRequest, KhcResponse

\* The pairs of a request and the response to it that the sessions draw on.
CONSTANT Exchanges
ASSUME ExchangesAssumption == Exchanges \subseteq Requests \X Responses

\* Everything khc_init and khc_reset_except_cb set, and the histories of the
\* properties.  A block that is still allocated is forgotten with its pointer.
ResetExceptCb ==
  /\ state' = "IDLE" /\ result' = "OK"
  /\ headerIdx' = 0 /\ sentLength' = 0 /\ pieceIdx' = 0 /\ readReqEnd' = FALSE
  /\ hdrBuff' = "null" /\ strBuff' = "null"
  /\ hbuf' = <<>> /\ sbuf' = <<>>
  /\ status' = "none" /\ chunkedResp' = FALSE
  /\ chunkSize' = 0 /\ chunkWritten' = 0 /\ readEnd' = FALSE
  /\ sock' = "none" /\ wire' = <<>> /\ out' = <<>> /\ hdrs' = <<>> /\ got' = <<>>

\* How much of a response the server sends before it closes the connection.
Cuts(r) == (IF TruncatedHead THEN 0 ELSE Len(HeadWire(r)))..Len(ResponseWire(r))

\* The application sets the request and, if it likes, its own buffers, and
\* calls khc_perform.
Perform ==
  /\ app = "idle"
  /\ app' = "performing"
  /\ \E e \in Exchanges : req' = e[1] /\ resp' = e[2]
  /\ \E n \in Cuts(resp') : wire' = SubSeq(ResponseWire(resp'), 1, n)
  /\ hdrBuff' \in {"null", "user"}
  /\ strBuff' \in {"null", "user"}
  /\ UNCHANGED <<state, result, heapLive, sock, reqVars, hbuf, sbuf,
                 status, chunkedResp, chunkSize, chunkWritten, readEnd, hdrs, got>>

\* khc_perform returns to the application, which resets khc before it prepares
\* the next request.
Return ==
  /\ app = "performing" /\ state = "FINISHED"
  /\ app' = "idle"
  /\ ResetExceptCb
  /\ UNCHANGED <<req, resp, heapLive>>

\* What malloc answers: a block as long as there is one, or NULL at any time.
Malloc(live) == (IF live < HeapBlocks THEN {"heap"} ELSE {}) \cup {"null"}

\* The buffer of a session: the application's, or a block of the heap.
Provide(buff, live) == IF buff = "user" THEN {"user"} ELSE Malloc(live)
Taken(before, after) == IF before = "null" /\ after = "heap" THEN 1 ELSE 0

\* Mutant: only the header buffer is checked for NULL.
IdleUnchecked ==
  /\ app = "performing" /\ state = "IDLE"
  /\ \E h \in Provide(hdrBuff, heapLive) :
       /\ hdrBuff' = h
       /\ \E s \in Provide(strBuff, heapLive + Taken(hdrBuff, h)) :
            /\ strBuff' = s
            /\ heapLive' = heapLive + Taken(hdrBuff, h) + Taken(strBuff, s)
            /\ IF h = "null"
                 THEN state' = "FINISHED" /\ result' = "ALLOCATION"
                 ELSE Goto("CONNECT")
  /\ UNCHANGED <<ownVars, sock, reqVars, sbuf, respVars>>

Idle ==
  /\ app = "performing" /\ state = "IDLE"
  /\ \E h \in Provide(hdrBuff, heapLive) :
       LET live == heapLive + Taken(hdrBuff, h) IN
       /\ hdrBuff' = h
       /\ \E s \in (IF h = "null" THEN {strBuff} ELSE Provide(strBuff, live)) :
            /\ strBuff' = s
            /\ heapLive' = live + Taken(strBuff, s)
            /\ IF h = "null" \/ s = "null"
                 THEN state' = "FINISHED" /\ result' = "ALLOCATION"
                 ELSE Goto("CONNECT")
  /\ UNCHANGED <<ownVars, sock, reqVars, sbuf, respVars>>

\* Mutant: a failed connection goes the way of all other failures.
ConnectOrClose ==
  /\ state = "CONNECT"
  /\ \/ Goto("REQ_LINE") /\ sock' = "open" /\ sentLength' = 0
     \/ Abort("SOCK_CONNECT") /\ UNCHANGED <<sock, sentLength>>
  /\ UNCHANGED <<ownVars, buffVars, headerIdx, pieceIdx, readReqEnd, out, sbuf, respVars>>

Connect ==
  /\ state = "CONNECT"
  /\ \/ /\ Goto("REQ_LINE")
        /\ sock' = "open"
        /\ sentLength' = 0
        /\ UNCHANGED <<headerIdx, pieceIdx, readReqEnd, out>>
     \/ /\ state' = "FINISHED" /\ result' = "SOCK_CONNECT"
        /\ UNCHANGED <<sock, reqVars>>
     \/ UNCHANGED <<state, result, sock, reqVars>>   \* AGAIN
  /\ UNCHANGED <<ownVars, buffVars, sbuf, respVars>>

\* The blocks that khc has from malloc, as its _allocated flags count them.
Held == (IF hdrBuff = "heap" THEN 1 ELSE 0) + (IF strBuff = "heap" THEN 1 ELSE 0)

\* Mutant: the flag of a freed buffer is not cleared.
FreedAndKept(buff) == buff

Freed(buff) == IF buff = "heap" THEN "null" ELSE buff

\* Frees what khc allocated and closes the connection; called again until
\* cb_sock_close is done.  A connection that cannot be closed is given up.
Close ==
  /\ state = "CLOSE"
  /\ hdrBuff' = Freed(hdrBuff)
  /\ strBuff' = Freed(strBuff)
  /\ heapLive' = heapLive - Held
  /\ \/ state' = "FINISHED" /\ sock' = "closed" /\ UNCHANGED result
     \/ state' = "FINISHED" /\ sock' = "closed" /\ result' = "SOCK_CLOSE"
     \/ UNCHANGED <<state, sock, result>>            \* AGAIN
  /\ UNCHANGED <<ownVars, reqVars, sbuf, respVars>>

Init ==
  /\ app = "idle"
  /\ req \in Requests /\ resp \in Responses
  /\ state = "IDLE" /\ result = "OK"
  /\ hdrBuff = "null" /\ strBuff = "null" /\ heapLive = 0
  /\ sock = "none"
  /\ headerIdx = 0 /\ sentLength = 0 /\ pieceIdx = 0 /\ readReqEnd = FALSE
  /\ hbuf = <<>> /\ sbuf = <<>>
  /\ status = "none" /\ chunkedResp = FALSE
  /\ chunkSize = 0 /\ chunkWritten = 0 /\ readEnd = FALSE
  /\ wire = <<>> /\ out = <<>> /\ hdrs = <<>> /\ got = <<>>

Handler == Idle \/ Connect \/ RequestStep \/ ResponseStep \/ Close

Next == Perform \/ Return \/ Handler

Spec == Init /\ [][Next]_vars

(***************************************************************************)
(* khc_perform is a loop of one thread: it keeps calling handlers, and a   *)
(* socket that answers AGAIN, or accepts nothing, does not do so for ever. *)
(* Nothing makes the application begin a session.                          *)
(***************************************************************************)
FairSpec == Spec /\ WF_vars(Handler \/ Return)

-----------------------------------------------------------------------------
(* Safety.                                                                 *)

\* Where the request handlers stand in the header list and in the upload.
RequestPlace ==
  /\ state \in {"REQ_HEADER", "REQ_HEADER_SEND", "REQ_HEADER_SEND_CRLF"} => headerIdx >= 1
  /\ state \in {"REQ_HEADER_SEND", "REQ_HEADER_SEND_CRLF"} => headerIdx <= Len(req.headers)
  /\ state = "REQ_BODY_SEND_SIZE" => Len(sbuf) \in Sizes

\* Outside khc_perform the state is that of a new session; until it connects, a
\* session has no connection, and then it has its buffers.
NotYetConnected ==
  /\ app = "idle" => state = "IDLE"
  /\ state = "IDLE" => sock = "none"
  /\ state = "CONNECT" => sock = "none" /\ hdrBuff # "null" /\ strBuff # "null"

(***************************************************************************)
(* _chunk_size_written never passes _chunk_size, so that the size_t        *)
(* subtraction by which khc_state_resp_body_parse_chunk_body finds what is *)
(* left of a chunk does not wrap.                                          *)
(***************************************************************************)
WrittenWithinChunk == chunkWritten <= chunkSize

\* The states in which a connection is up.
Connected == ReqStates \cup RespStates \cup {"CLOSE"}

(***************************************************************************)
(* The connection is open in exactly the states of a session in progress:  *)
(* every one of the ways out of the handlers, errors included, goes by     *)
(* khc_state_close, and none of them goes there without a connection.      *)
(***************************************************************************)
ConnectionPaired == sock = "open" <=> state \in Connected

(***************************************************************************)
(* The buffers are there as long as a handler may use them, freed blocks   *)
(* are never counted twice, and a session that had a connection ends with  *)
(* none of the blocks khc took for it.                                     *)
(***************************************************************************)
BuffersSafe ==
  /\ state \in (ReqStates \cup RespStates) => hdrBuff # "null" /\ strBuff # "null"
  /\ heapLive >= Held
  /\ sock = "closed" => Held = 0

(***************************************************************************)
(* Whatever the socket delivers, no handler stores past the end of a       *)
(* buffer: the header buffer keeps a slot for its NUL.                     *)
(***************************************************************************)
NoOverflow == Len(hbuf) < RespHeaderBuffSize /\ Len(sbuf) <= StreamBuffSize

(***************************************************************************)
(* What the socket accepted is at all times the beginning of the one       *)
(* encoding of the request, however the sends were cut up: nothing twice,  *)
(* nothing skipped.  The response is not read before all of it is out.     *)
(***************************************************************************)
RequestFaithful ==
  /\ IsPrefix(out, RequestWire(req))
  /\ state \in RespStates => out = RequestWire(req)

(***************************************************************************)
(* The body that cb_write sees is the beginning of the body that was sent, *)
(* without framing, in order; and a session with a chunked response that   *)
(* ends well has delivered all of it.                                      *)
(***************************************************************************)
BodyFaithful ==
  /\ IsPrefix(got, Payload(resp))
  /\ (state = "FINISHED" /\ result = "OK" /\ resp.chunked) => got = Payload(resp)

\* The lines of a response that, with their CRLF, fit in the header buffer.
FittingLine(l) == IF Len(l) + 2 < RespHeaderBuffSize THEN <<l>> ELSE <<>>
Fitting(ls) == [i \in DOMAIN ls |-> FittingLine(ls[i])]
FittingHeads(r) == [i \in DOMAIN r.heads |-> FlattenSeq(Fitting(r.heads[i]))]
FittingLines(r) == FlattenSeq(FittingHeads(r))

(***************************************************************************)
(* cb_header is called once for each header line that fits in the buffer,  *)
(* in order, with the whole line, and never for a longer one               *)
(* (khc.h:395); a body is read only after the last of them.                *)
(***************************************************************************)
HeadersFaithful ==
  /\ IsPrefix(hdrs, FittingLines(resp))
  /\ got # <<>> => hdrs = FittingLines(resp)

-----------------------------------------------------------------------------
(* Liveness.                                                               *)

\* khc_perform returns (khc.h:346 "This method blocks until the HTTP session ends").
PerformReturns == app = "performing" ~> app = "idle"

\* A session has begun in which the server sends its header sections whole.
WholeHeadBegun ==
  /\ app = "performing" /\ state = "IDLE"
  /\ Len(wire) >= Len(HeadWire(resp))

(***************************************************************************)
(* khc_perform returns from every session in which the header sections     *)
(* come whole, wherever the body ends and whatever fails on the way.       *)
(***************************************************************************)
WholeHeadReturns == WholeHeadBegun ~> app = "idle"

=============================================================================
