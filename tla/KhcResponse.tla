---------------------------- MODULE KhcResponse -----------------------------
(***************************************************************************)
(* The handlers of khc that read the response: khc_state_impl.c from       *)
(* khc_state_resp_status_read to khc_state_resp_body_skip_trailers.  The   *)
(* header buffer is read ahead: what follows the headers in it is the      *)
(* start of the body, and is used up before the socket is read again.      *)
(***************************************************************************)
EXTENDS KhcState

\* Mutant: no room is left for the NUL.
HeaderRoomWithoutNul == RespHeaderBuffSize - Len(hbuf)

\* Room in the header buffer, whose last slot is for the NUL, and in the stream buffer.
HeaderRoom == RespHeaderBuffSize - Len(hbuf) - 1

StreamRoom == StreamBuffSize - Len(sbuf)

RespStatusRead ==
  /\ state = "RESP_STATUS_READ"
  /\ \/ /\ \E data \in Received(HeaderRoom) :
             /\ Consume(data)
             /\ hbuf' = hbuf \o data
             /\ readEnd' = (data = <<>> \/ readEnd)
             /\ IF HasCRLF(hbuf') THEN Goto("RESP_STATUS_PARSE") ELSE Abort("TOO_LARGE_DATA")
        /\ UNCHANGED <<sbuf, status, chunkedResp, chunkSize, chunkWritten, hdrs, got>>
        /\ RespUnchanged
     \/ RecvFails /\ RespUnchanged
     \/ Again

\* "s1xx" and "s200" begin a status line with three digits where they belong.
RespStatusParse ==
  /\ state = "RESP_STATUS_PARSE"
  /\ \/ /\ hbuf[1] \in {"s1xx", "s200"}
        /\ status' = IF hbuf[1] = "s1xx" THEN "1xx" ELSE "final"
        /\ Goto("RESP_HEADER_CALLBACK")
     \/ /\ hbuf[1] \notin {"s1xx", "s200"}
        /\ Abort("FAIL")
        /\ UNCHANGED status
  /\ UNCHANGED <<sbuf, hbuf, chunkedResp, chunkSize, chunkWritten, readEnd, wire, hdrs, got>>
  /\ RespUnchanged

\* No whole line in the buffer: read more of it, or give it up as too long.
HeaderIncomplete ==
  /\ ~HasCRLF(hbuf)
  /\ Goto(IF HeaderRoom = 0 THEN "RESP_HEADER_SKIP" ELSE "RESP_HEADER_READ")
  /\ UNCHANGED <<sbuf, respVars>>

\* A line goes to cb_header (the status line too), which accepts it.
HeaderLine ==
  /\ HasCRLF(hbuf) /\ LineOf(hbuf) # <<>>
  /\ hdrs' = Append(hdrs, LineOf(hbuf))
  /\ chunkedResp' = (LineOf(hbuf)[1] = "TE" \/ chunkedResp)
  /\ hbuf' = AfterLine(hbuf)
  /\ UNCHANGED <<state, result, sbuf, status, chunkSize, chunkWritten, readEnd, wire, got>>

HeaderRefused ==
  /\ HasCRLF(hbuf) /\ LineOf(hbuf) # <<>>
  /\ hdrs' = Append(hdrs, LineOf(hbuf))
  /\ Abort("HEADER_CALLBACK")
  /\ UNCHANGED <<sbuf, hbuf, status, chunkedResp, chunkSize, chunkWritten, readEnd, wire, got>>

\* The empty line.  After an interim response the next status line is read.
HeadersEnd ==
  /\ HasCRLF(hbuf) /\ LineOf(hbuf) = <<>>
  /\ hbuf' = AfterLine(hbuf)
  /\ \/ /\ status = "1xx"
        /\ Goto("RESP_STATUS_READ")
        /\ UNCHANGED sbuf
     \/ /\ status # "1xx" /\ chunkedResp
        /\ Goto("RESP_BODY_PARSE_CHUNK_SIZE")
        /\ sbuf' = <<>>
     \/ /\ status # "1xx" /\ ~chunkedResp
        /\ Goto("RESP_BODY_FRAGMENT")
        /\ UNCHANGED sbuf
  /\ UNCHANGED parseVars

RespHeaderCallback ==
  /\ state = "RESP_HEADER_CALLBACK"
  /\ HeaderIncomplete \/ HeaderLine \/ HeaderRefused \/ HeadersEnd
  /\ RespUnchanged

RespHeaderRead ==
  /\ state = "RESP_HEADER_READ"
  /\ \/ /\ \E data \in Received(HeaderRoom) :
             /\ Consume(data)
             /\ hbuf' = hbuf \o data
             /\ readEnd' = (data = <<>> \/ readEnd)
        /\ Goto("RESP_HEADER_CALLBACK")
        /\ UNCHANGED <<sbuf, status, chunkedResp, chunkSize, chunkWritten, hdrs, got>>
        /\ RespUnchanged
     \/ RecvFails /\ RespUnchanged
     \/ Again

\* Mutant: a CR at the end of the buffer is dropped with the rest.
SkipKeepsNothing == {<<>>}

\* What the handler keeps of a line it skips: a CR at the end, which may be
\* half of the CRLF it looks for.  With nothing in the buffer the code reads
\* the byte before the buffer, which may be anything.
SkipKeeps ==
  IF hbuf = <<>> THEN {<<>>, <<"CR">>}
  ELSE IF Last(hbuf) = "CR" THEN {<<"CR">>} ELSE {<<>>}

RespHeaderSkip ==
  /\ state = "RESP_HEADER_SKIP"
  /\ IF hbuf # <<>> /\ hbuf[1] \in {"CL", "TE"}
       THEN Abort("HEADER_CALLBACK") /\ UNCHANGED <<sbuf, respVars>>
       ELSE \E kept \in SkipKeeps :
         \/ \E data \in Received(RespHeaderBuffSize - Len(kept) - 1) :
              /\ Consume(data)
              /\ readEnd' = (data = <<>> \/ readEnd)
              /\ IF HasCRLF(kept \o data)
                   THEN hbuf' = AfterLine(kept \o data) /\ Goto("RESP_HEADER_CALLBACK")
                   ELSE hbuf' = kept \o data /\ UNCHANGED <<state, result>>
              /\ UNCHANGED <<sbuf, status, chunkedResp, chunkSize, chunkWritten, hdrs, got>>
         \/ hbuf' = kept /\ Abort("SOCK_RECV") /\ UNCHANGED <<sbuf, parseVars>>
         \/ hbuf' = kept /\ UNCHANGED <<state, result, sbuf, parseVars>>  \* AGAIN
  /\ RespUnchanged

-----------------------------------------------------------------------------
(* A body that ends with the connection.                                   *)

\* cb_write takes the data and goes on to next, or refuses it.
WriteBody(data, next) ==
  \/ got' = got \o data /\ Goto(next)
  \/ data # <<>> /\ got' = got /\ Abort("WRITE_CALLBACK")

AfterBody == IF readEnd THEN "CLOSE" ELSE "RESP_BODY_READ"

RespBodyFragment ==
  /\ state = "RESP_BODY_FRAGMENT"
  /\ WriteBody(hbuf, AfterBody)
  /\ UNCHANGED <<sbuf, hbuf, status, chunkedResp, chunkSize, chunkWritten, readEnd, wire, hdrs>>
  /\ RespUnchanged

RespBodyRead ==
  /\ state = "RESP_BODY_READ"
  /\ \/ /\ \E data \in Received(StreamBuffSize) :
             /\ Consume(data)
             /\ sbuf' = data
             /\ readEnd' = (data = <<>> \/ readEnd)
             /\ Goto(IF data = <<>> THEN "CLOSE" ELSE "RESP_BODY_CALLBACK")
        /\ UNCHANGED <<hbuf, status, chunkedResp, chunkSize, chunkWritten, hdrs, got>>
        /\ RespUnchanged
     \/ RecvFails /\ RespUnchanged
     \/ Again

RespBodyCallback ==
  /\ state = "RESP_BODY_CALLBACK"
  /\ WriteBody(sbuf, AfterBody)
  /\ UNCHANGED <<sbuf, hbuf, status, chunkedResp, chunkSize, chunkWritten, readEnd, wire, hdrs>>
  /\ RespUnchanged

-----------------------------------------------------------------------------
(* A chunked body.                                                         *)

\* strtol(buff, NULL, 16) passes over leading white space, and reads any
\* number if it is followed by nothing.
LeadingBlanks(n) == \A i \in 1..n - 1 : sbuf[i] \in {"CR", "LF"}
ParsedSizes ==
  {size \in Sizes : \A n \in DOMAIN sbuf :
     sbuf[n] \notin {"CR", "LF"} /\ LeadingBlanks(n) => size \in SizesOf(sbuf[n])}

\* Mutant: _chunk_size_written is not set to zero for the next chunk.
ParseChunkSizeOnly ==
  /\ state = "RESP_BODY_PARSE_CHUNK_SIZE"
  /\ \/ /\ HasCRLF(sbuf)
        /\ chunkSize' \in ParsedSizes
        /\ sbuf' = AfterLine(sbuf)
        /\ Goto(IF chunkSize' > 0 THEN "RESP_BODY_PARSE_CHUNK_BODY" ELSE "RESP_BODY_SKIP_TRAILERS")
     \/ /\ ~HasCRLF(sbuf)
        /\ Goto(IF hbuf # <<>> THEN "READ_CHUNK_SIZE_FROM_HEADER_BUFF" ELSE "RESP_BODY_READ_CHUNK_SIZE")
        /\ UNCHANGED <<chunkSize, sbuf>>
  /\ UNCHANGED <<chunkWritten, hbuf, status, chunkedResp, readEnd, wire, hdrs, got>>
  /\ RespUnchanged

RespBodyParseChunkSize ==
  /\ state = "RESP_BODY_PARSE_CHUNK_SIZE"
  /\ \/ /\ HasCRLF(sbuf)
        /\ chunkSize' \in ParsedSizes
        /\ chunkWritten' = 0
        /\ sbuf' = AfterLine(sbuf)
        /\ Goto(IF chunkSize' > 0 THEN "RESP_BODY_PARSE_CHUNK_BODY" ELSE "RESP_BODY_SKIP_TRAILERS")
     \/ /\ ~HasCRLF(sbuf)
        /\ Goto(IF hbuf # <<>> THEN "READ_CHUNK_SIZE_FROM_HEADER_BUFF" ELSE "RESP_BODY_READ_CHUNK_SIZE")
        /\ UNCHANGED <<chunkSize, chunkWritten, sbuf>>
  /\ UNCHANGED <<hbuf, status, chunkedResp, readEnd, wire, hdrs, got>>
  /\ RespUnchanged

\* Mutant: what was moved also stays in the header buffer.
CopyHeaderToStream(next) ==
  /\ IF StreamRoom = 0
       THEN Abort("TOO_LARGE_DATA") /\ UNCHANGED sbuf
       ELSE LET n == IF StreamRoom > Len(hbuf) THEN Len(hbuf) ELSE StreamRoom
            IN sbuf' = sbuf \o SubSeq(hbuf, 1, n) /\ Goto(next)
  /\ UNCHANGED respVars
  /\ RespUnchanged

\* _move_resp_header_to_stream, and its two callers.
MoveHeaderToStream(next) ==
  /\ IF StreamRoom = 0
       THEN Abort("TOO_LARGE_DATA") /\ UNCHANGED <<sbuf, hbuf>>
       ELSE LET n == IF StreamRoom > Len(hbuf) THEN Len(hbuf) ELSE StreamRoom
            IN /\ sbuf' = sbuf \o SubSeq(hbuf, 1, n)
               /\ hbuf' = SubSeq(hbuf, n + 1, Len(hbuf))
               /\ Goto(next)
  /\ UNCHANGED parseVars
  /\ RespUnchanged

ReadChunkSizeFromHeaderBuff ==
  /\ state = "READ_CHUNK_SIZE_FROM_HEADER_BUFF"
  /\ MoveHeaderToStream("RESP_BODY_PARSE_CHUNK_SIZE")

ReadChunkBodyFromHeaderBuff ==
  /\ state = "READ_CHUNK_BODY_FROM_HEADER_BUFF"
  /\ MoveHeaderToStream("RESP_BODY_PARSE_CHUNK_BODY")

\* Mutant: the end of the connection is taken for the end of the body.
ReadChunkOrEnd(kept, room, next) ==
  \/ /\ \E data \in Received(room) :
          /\ Consume(data)
          /\ Goto(IF data = <<>> THEN "CLOSE" ELSE next)
          /\ sbuf' = kept \o data
     /\ UNCHANGED <<hbuf, status, chunkedResp, chunkSize, chunkWritten, readEnd, hdrs, got>>
     /\ RespUnchanged
  \/ RecvFails /\ RespUnchanged

\* A read into the stream buffer after the first `kept' slots: the end of the
\* connection is an error.
ReadChunk(kept, room, next) ==
  \/ /\ \E data \in Received(room) :
          /\ Consume(data)
          /\ IF data = <<>> THEN Abort("FAIL") ELSE Goto(next)
          /\ sbuf' = IF data = <<>> THEN sbuf ELSE kept \o data
     /\ UNCHANGED <<hbuf, status, chunkedResp, chunkSize, chunkWritten, readEnd, hdrs, got>>
     /\ RespUnchanged
  \/ RecvFails /\ RespUnchanged
  \/ Again

RespBodyReadChunkSize ==
  /\ state = "RESP_BODY_READ_CHUNK_SIZE"
  /\ IF StreamRoom = 0
       THEN Abort("TOO_LARGE_DATA") /\ UNCHANGED <<sbuf, respVars>> /\ RespUnchanged
       ELSE ReadChunk(sbuf, StreamRoom, "RESP_BODY_PARSE_CHUNK_SIZE")

\* The part of the stream buffer that belongs to the current chunk.
ChunkPart ==
  IF chunkSize > Len(sbuf) + chunkWritten THEN Len(sbuf) ELSE chunkSize - chunkWritten

ChunkContinues == chunkSize > chunkWritten + ChunkPart

RespBodyParseChunkBody ==
  /\ state = "RESP_BODY_PARSE_CHUNK_BODY"
  /\ \/ /\ got' = got \o SubSeq(sbuf, 1, ChunkPart)
        /\ chunkWritten' = chunkWritten + ChunkPart
        /\ Goto(IF ~ChunkContinues THEN "RESP_BODY_SKIP_CHUNK_BODY_CRLF"
                ELSE IF hbuf # <<>> THEN "READ_CHUNK_BODY_FROM_HEADER_BUFF"
                ELSE "RESP_BODY_READ_CHUNK_BODY")
        /\ sbuf' = IF ~ChunkContinues THEN SubSeq(sbuf, ChunkPart + 1, Len(sbuf))
                   ELSE IF hbuf # <<>> THEN <<>> ELSE sbuf
     \/ /\ ChunkPart > 0
        /\ Abort("WRITE_CALLBACK")
        /\ UNCHANGED <<got, chunkWritten, sbuf>>
  /\ UNCHANGED <<hbuf, status, chunkedResp, chunkSize, readEnd, wire, hdrs>>
  /\ RespUnchanged

RespBodyReadChunkBody ==
  /\ state = "RESP_BODY_READ_CHUNK_BODY"
  /\ ReadChunk(<<>>, StreamBuffSize, "RESP_BODY_PARSE_CHUNK_BODY")

\* The CRLF after a chunk: what the stream buffer lacks of it is read from the
\* socket into a scratch array, in one call, and dropped.
RespBodySkipChunkBodyCRLF ==
  /\ state = "RESP_BODY_SKIP_CHUNK_BODY_CRLF"
  /\ \/ /\ Len(sbuf) < 2
        /\ \E data \in Received(2 - Len(sbuf)) :
             /\ Consume(data)
             /\ IF data = <<>> THEN Abort("FAIL") ELSE Goto("RESP_BODY_PARSE_CHUNK_SIZE")
             /\ sbuf' = IF data = <<>> THEN sbuf ELSE <<>>
        /\ UNCHANGED <<hbuf, status, chunkedResp, chunkSize, chunkWritten, readEnd, hdrs, got>>
        /\ RespUnchanged
     \/ Len(sbuf) < 2 /\ RecvFails /\ RespUnchanged
     \/ Len(sbuf) < 2 /\ Again
     \/ /\ Len(sbuf) >= 2
        /\ sbuf' = SubSeq(sbuf, 3, Len(sbuf))
        /\ Goto("RESP_BODY_PARSE_CHUNK_SIZE")
        /\ UNCHANGED respVars
        /\ RespUnchanged

\* Mutant: the end of the connection does not end the trailers.
SkipTrailersForever ==
  /\ state = "RESP_BODY_SKIP_TRAILERS"
  /\ \E data \in Received(StreamBuffSize) : Consume(data)
  /\ UNCHANGED <<state, result, sbuf, hbuf, status, chunkedResp, chunkSize, chunkWritten,
       readEnd, hdrs, got>>
  /\ RespUnchanged

\* Everything after the last chunk is read and dropped; the stream buffer is
\* overwritten and not used again.
RespBodySkipTrailers ==
  /\ state = "RESP_BODY_SKIP_TRAILERS"
  /\ \/ /\ \E data \in Received(StreamBuffSize) :
             /\ Consume(data)
             /\ Goto(IF data = <<>> THEN "CLOSE" ELSE state)
        /\ UNCHANGED <<sbuf, hbuf, status, chunkedResp, chunkSize, chunkWritten, readEnd, hdrs, got>>
        /\ RespUnchanged
     \/ RecvFails /\ RespUnchanged
     \/ Again

ResponseStep ==
  \/ RespStatusRead \/ RespStatusParse
  \/ RespHeaderCallback \/ RespHeaderRead \/ RespHeaderSkip
  \/ RespBodyFragment \/ RespBodyRead \/ RespBodyCallback
  \/ RespBodyParseChunkSize \/ ReadChunkSizeFromHeaderBuff \/ ReadChunkBodyFromHeaderBuff
  \/ RespBodyReadChunkSize \/ RespBodyParseChunkBody \/ RespBodyReadChunkBody
  \/ RespBodySkipChunkBodyCRLF \/ RespBodySkipTrailers

=============================================================================
