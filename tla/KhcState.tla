------------------------------ MODULE KhcState ------------------------------
(***************************************************************************)
(* The state of one khc instance (struct khc, khc.h) with the socket and   *)
(* the application callbacks around it, and the steps its handlers share.  *)
(*                                                                         *)
(* A length field and the buffer it counts are one variable: hbuf is the   *)
(* first _resp_header_read_size slots of _resp_header_buff, and sbuf the   *)
(* valid slots of _stream_buff (its first _read_size while the request is  *)
(* sent, its first _body_read_size while the response is read; the code    *)
(* never has both in use).  _resp_content_length is stored by the code and *)
(* never read, so it is left out, as are the host, path and method texts.  *)
(***************************************************************************)
EXTENDS HttpWire

CONSTANTS
  RespHeaderBuffSize,  \* _resp_header_buff_size; one slot is for the NUL.
  StreamBuffSize,      \* _stream_buff_size.
  HeapBlocks,          \* Blocks malloc can have outstanding.
  TruncatedHead        \* May the server close before its headers are out?

ASSUME RespHeaderBuffSizeAssumption == RespHeaderBuffSize \in Nat /\ RespHeaderBuffSize >= 2
ASSUME StreamBuffSizeAssumption == StreamBuffSize \in Nat \ {0}
ASSUME HeapBlocksAssumption == HeapBlocks \in Nat
\* cb_read respects the size of the buffer it fills; SizeSlots is long enough.
ASSUME PiecesFit ==
  \A r \in Requests : \A i \in DOMAIN r.pieces :
    Len(r.pieces[i]) <= StreamBuffSize /\ Len(r.pieces[i]) \in Sizes
ASSUME TruncatedHeadAssumption == TruncatedHead \in BOOLEAN

VARIABLES
  app,           \* Is the application inside khc_perform?
  req, resp,     \* The request of this session and the response to it.
  state, result, \* _state, _result.
  hdrBuff,       \* _resp_header_buff: "null", the "user"'s or khc's own "heap".
  strBuff,       \* _stream_buff, likewise.
  heapLive,      \* Blocks got from malloc and not given to free.
  sock,          \* The connection: "none", "open" or "closed".
  headerIdx,     \* Position of _current_req_header in the list; 0 is unset.
  sentLength,    \* _sent_length.
  pieceIdx,      \* The calls of cb_read so far.
  readReqEnd,    \* _read_req_end.
  hbuf, sbuf,    \* Valid contents of the two buffers.
  status,        \* _status_code: "none", "1xx" or "final".
  chunkedResp,   \* _chunked_resp.
  chunkSize, chunkWritten, \* _chunk_size, _chunk_size_written.
  readEnd,       \* _read_end.
  wire,          \* What the server has sent or will send, not yet received.
  out,           \* All that the socket accepted from khc.
  hdrs,          \* The lines given to cb_header.
  got            \* The body given to cb_write.

ownVars == <<app, req, resp>>
buffVars == <<hdrBuff, strBuff, heapLive>>
reqVars == <<headerIdx, sentLength, pieceIdx, readReqEnd, out>>
parseVars == <<status, chunkedResp, chunkSize, chunkWritten, readEnd, wire, hdrs, got>>
respVars == <<hbuf, parseVars>>
vars == <<ownVars, state, result, buffVars, sock, reqVars, sbuf, respVars>>

ReqStates == {"REQ_LINE", "REQ_HOST_HEADER", "REQ_HEADER", "REQ_HEADER_SEND",
  "REQ_HEADER_SEND_CRLF", "REQ_HEADER_END", "REQ_BODY_READ", "REQ_BODY_SEND_SIZE",
  "REQ_BODY_SEND", "REQ_BODY_SEND_CRLF"}

RespStates == {"RESP_STATUS_READ", "RESP_STATUS_PARSE", "RESP_HEADER_CALLBACK",
  "RESP_HEADER_READ", "RESP_HEADER_SKIP", "RESP_BODY_FRAGMENT",
  "READ_CHUNK_SIZE_FROM_HEADER_BUFF", "READ_CHUNK_BODY_FROM_HEADER_BUFF",
  "RESP_BODY_READ", "RESP_BODY_CALLBACK", "RESP_BODY_PARSE_CHUNK_SIZE",
  "RESP_BODY_READ_CHUNK_SIZE", "RESP_BODY_PARSE_CHUNK_BODY",
  "RESP_BODY_READ_CHUNK_BODY", "RESP_BODY_SKIP_CHUNK_BODY_CRLF",
  "RESP_BODY_SKIP_TRAILERS"}

States == {"IDLE", "CONNECT", "CLOSE", "FINISHED"} \cup ReqStates \cup RespStates

Codes == {"OK", "SOCK_CONNECT", "SOCK_CLOSE", "SOCK_SEND", "SOCK_RECV", "HEADER_CALLBACK",
  "WRITE_CALLBACK", "ALLOCATION", "TOO_LARGE_DATA", "FAIL"}

Buffers == {"null", "user", "heap"}

TypeOK ==
  /\ app \in {"idle", "performing"}
  /\ req \in Requests
  /\ resp \in Responses
  /\ state \in States
  /\ result \in Codes
  /\ hdrBuff \in Buffers /\ strBuff \in Buffers
  /\ heapLive \in 0..HeapBlocks
  /\ sock \in {"none", "open", "closed"}
  /\ headerIdx \in Nat /\ sentLength \in Nat /\ pieceIdx \in Nat
  /\ readReqEnd \in BOOLEAN
  /\ hbuf \in Seq(Slots) /\ sbuf \in Seq(Slots)
  /\ status \in {"none", "1xx", "final"}
  /\ chunkedResp \in BOOLEAN
  /\ chunkSize \in Nat /\ chunkWritten \in Nat
  /\ readEnd \in BOOLEAN
  /\ wire \in Seq(Slots) /\ out \in Seq(Slots) /\ got \in Seq(Slots)
  /\ hdrs \in Seq(Seq(Slots))

-----------------------------------------------------------------------------
(* Steps that many handlers take.                                          *)

Goto(s) == state' = s /\ UNCHANGED result
Abort(code) == state' = "CLOSE" /\ result' = code

\* A callback that answers KHC_SOCK_AGAIN: the loop of khc_perform calls the
\* same handler again.
Again == UNCHANGED vars

\* Mutant: a second partial send forgets what the first one sent.
SendTextForgetful(text, Done) ==
  /\ UNCHANGED <<ownVars, buffVars, sock, parseVars>>
  /\ \E k \in 0..Len(text) - sentLength :
       /\ out' = out \o SubSeq(text, sentLength + 1, sentLength + k)
       /\ IF sentLength + k < Len(text)
            THEN /\ sentLength' = k
                 /\ UNCHANGED <<state, result, headerIdx, pieceIdx, readReqEnd, sbuf, hbuf>>
            ELSE sentLength' = 0 /\ Done

(***************************************************************************)
(* One call of cb_sock_send on what remains of a text: it accepts any part *)
(* of it, has to be called again, or fails.  Done is what the handler does *)
(* once the text is out, apart from sending.                               *)
(***************************************************************************)
SendText(text, Done) ==
  /\ UNCHANGED <<ownVars, buffVars, sock, parseVars>>
  /\ \/ \E k \in 0..Len(text) - sentLength :
          /\ out' = out \o SubSeq(text, sentLength + 1, sentLength + k)
          /\ IF sentLength + k < Len(text)
               THEN /\ sentLength' = sentLength + k
                    /\ UNCHANGED <<state, result, headerIdx, pieceIdx, readReqEnd, sbuf, hbuf>>
               ELSE sentLength' = 0 /\ Done
     \/ /\ Abort("SOCK_SEND")
        /\ UNCHANGED <<reqVars, sbuf, hbuf>>

(***************************************************************************)
(* What cb_sock_recv may deliver into room for n slots: any part of what   *)
(* the server has still to deliver, nothing only when there is no more, or *)
(* when it was asked for nothing.                                          *)
(***************************************************************************)
Received(n) ==
  IF n = 0 \/ wire = <<>>
    THEN {<<>>}
    ELSE {SubSeq(wire, 1, k) : k \in 1..(IF n < Len(wire) THEN n ELSE Len(wire))}

Consume(data) == wire' = SubSeq(wire, Len(data) + 1, Len(wire))

\* cb_sock_recv answers KHC_SOCK_FAIL.
RecvFails ==
  /\ Abort("SOCK_RECV")
  /\ UNCHANGED <<sbuf, respVars>>

RespUnchanged == UNCHANGED <<ownVars, buffVars, sock, reqVars>>

=============================================================================
