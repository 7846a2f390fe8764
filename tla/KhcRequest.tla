----------------------------- MODULE KhcRequest -----------------------------
(***************************************************************************)
(* The handlers of khc that write the request: khc_state_impl.c from       *)
(* khc_state_req_line to khc_state_req_body_send_crlf.  Each text goes out *)
(* in as many calls of cb_sock_send as the socket likes, and _sent_length  *)
(* is what connects one call with the next.                                *)
(***************************************************************************)
EXTENDS KhcState

\* The data of _current_req_header, and whether the list has come to its end.
HeaderData == req.headers[headerIdx]
NoMoreHeaders == headerIdx > Len(req.headers)

ReqLineSent ==
  /\ Goto("REQ_HOST_HEADER")
  /\ UNCHANGED <<headerIdx, pieceIdx, readReqEnd, sbuf, hbuf>>

SendReqLine == state = "REQ_LINE" /\ (SendText(ReqLine, ReqLineSent) \/ Again)

HostHeaderSent ==
  /\ Goto("REQ_HEADER")
  /\ headerIdx' = 1
  /\ UNCHANGED <<pieceIdx, readReqEnd, sbuf, hbuf>>

SendHostHeader ==
  state = "REQ_HOST_HEADER" /\ (SendText(HostLine, HostHeaderSent) \/ Again)

\* Chooses the next header to send; nodes without data are passed over.
ReqHeader ==
  /\ state = "REQ_HEADER"
  /\ \/ /\ NoMoreHeaders
        /\ Goto("REQ_HEADER_END")
        /\ UNCHANGED headerIdx
     \/ /\ ~NoMoreHeaders /\ HeaderData = <<>>
        /\ headerIdx' = headerIdx + 1
        /\ UNCHANGED <<state, result>>
     \/ /\ ~NoMoreHeaders /\ HeaderData # <<>>
        /\ Goto("REQ_HEADER_SEND")
        /\ UNCHANGED headerIdx
  /\ UNCHANGED <<ownVars, buffVars, sock, sentLength, pieceIdx, readReqEnd, out, sbuf, respVars>>

HeaderSent ==
  /\ Goto("REQ_HEADER_SEND_CRLF")
  /\ UNCHANGED <<headerIdx, pieceIdx, readReqEnd, sbuf, hbuf>>

SendHeader == state = "REQ_HEADER_SEND" /\ (SendText(HeaderData, HeaderSent) \/ Again)

HeaderCRLFSent ==
  /\ headerIdx' = headerIdx + 1
  /\ Goto("REQ_HEADER")
  /\ UNCHANGED <<pieceIdx, readReqEnd, sbuf, hbuf>>

SendHeaderCRLF ==
  state = "REQ_HEADER_SEND_CRLF" /\ (SendText(CRLF, HeaderCRLFSent) \/ Again)

\* Without a body the response comes next, into an empty header buffer.
HeaderEndSent ==
  /\ Goto(IF req.upload THEN "REQ_BODY_READ" ELSE "RESP_STATUS_READ")
  /\ readReqEnd' = FALSE
  /\ hbuf' = IF req.upload THEN hbuf ELSE <<>>
  /\ UNCHANGED <<headerIdx, pieceIdx, sbuf>>

SendHeaderEnd ==
  state = "REQ_HEADER_END" /\ (SendText(ReqEnd(req.upload), HeaderEndSent) \/ Again)

\* One call of cb_read: it fills the stream buffer, or says that it is done.
ReqBodyRead ==
  /\ state = "REQ_BODY_READ"
  /\ pieceIdx' = pieceIdx + 1
  /\ sbuf' = IF pieceIdx' <= Len(req.pieces) THEN req.pieces[pieceIdx'] ELSE <<>>
  /\ readReqEnd' = (sbuf' = <<>> \/ readReqEnd)
  /\ Goto("REQ_BODY_SEND_SIZE")
  /\ UNCHANGED <<ownVars, buffVars, sock, headerIdx, sentLength, out, respVars>>

BodySizeSent ==
  /\ Goto(IF readReqEnd THEN "REQ_BODY_SEND_CRLF" ELSE "REQ_BODY_SEND")
  /\ UNCHANGED <<headerIdx, pieceIdx, readReqEnd, sbuf, hbuf>>

\* A size is at most StreamBuffSize: its text never reaches the 15 characters
\* above which the handler gives up.
SendBodySize ==
  /\ state = "REQ_BODY_SEND_SIZE"
  /\ SendText(<<SizeSlot(Len(sbuf))>> \o CRLF, BodySizeSent) \/ Again

BodySent ==
  /\ Goto("REQ_BODY_SEND_CRLF")
  /\ UNCHANGED <<headerIdx, pieceIdx, readReqEnd, sbuf, hbuf>>

SendBody == state = "REQ_BODY_SEND" /\ (SendText(sbuf, BodySent) \/ Again)

\* After the CRLF of the last, empty chunk the response is read.
BodyCRLFSent ==
  /\ Goto(IF readReqEnd THEN "RESP_STATUS_READ" ELSE "REQ_BODY_READ")
  /\ hbuf' = IF readReqEnd THEN <<>> ELSE hbuf
  /\ UNCHANGED <<headerIdx, pieceIdx, readReqEnd, sbuf>>

SendBodyCRLF ==
  state = "REQ_BODY_SEND_CRLF" /\ (SendText(CRLF, BodyCRLFSent) \/ Again)

RequestStep ==
  \/ SendReqLine \/ SendHostHeader
  \/ ReqHeader \/ SendHeader \/ SendHeaderCRLF \/ SendHeaderEnd
  \/ ReqBodyRead \/ SendBodySize \/ SendBody \/ SendBodyCRLF

=============================================================================
