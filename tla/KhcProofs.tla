------------------------------ MODULE KhcProofs -----------------------------
(***************************************************************************)
(* What is proved of Khc, for every set of requests and responses and      *)
(* every size of the buffers and of the heap.  Most of it follows from one *)
(* inductive invariant, IInv: the types and bounds need to know where in   *)
(* the header list and the chunk the handlers stand, and the pairing of    *)
(* connection and buffers needs to know that neither exists too early.     *)
(* That what is out is the request takes a second one, RequestOut, which   *)
(* says for every state which text is being sent and what is out before it. *)
(* That what is read is the response takes two: HeadInv follows the bytes   *)
(* read through the status line and the headers, BodyInv follows them      *)
(* through the body.  All of it together makes every step of khc_perform a *)
(* step of the HttpSession it promises, or none.                           *)
(***************************************************************************)
EXTENDS KhcSession, FlattenTheorems

\* A part of a buffer is a buffer of the length one expects.
LEMMA PartOfSeq ==
  ASSUME NEW S, NEW s \in Seq(S), NEW m \in Nat \ {0}, NEW n \in Nat, n <= Len(s)
  PROVE  /\ SubSeq(s, m, n) \in Seq(S)
         /\ Len(SubSeq(s, m, n)) = IF m <= n THEN n - m + 1 ELSE 0
<1>1. \A i \in m..n : s[i] \in S
  OBVIOUS
<1> QED BY <1>1, SubSeqProperties

\* How texts are put together does not matter.
Associates(a, b, c) == (a \o b) \o c = a \o (b \o c)
LEMMA Associative ==
  ASSUME NEW S, NEW a \in Seq(S), NEW b \in Seq(S), NEW c \in Seq(S)
  PROVE  Associates(a, b, c)
BY ConcatAssociative, SMTT(30) DEF Associates

\* What cb_sock_recv delivers fits the room it was offered.
LEMMA ReceivedPart ==
  ASSUME wire \in Seq(Slots), NEW n \in Nat, NEW data \in Received(n)
  PROVE  /\ data \in Seq(Slots)
         /\ Len(data) <= n /\ Len(data) <= Len(wire)
         /\ Consume(data) => wire' \in Seq(Slots)
<1>1. CASE data = <<>>
  <2>1. SubSeq(wire, Len(data) + 1, Len(wire)) \in Seq(Slots)
    BY <1>1, PartOfSeq
  <2> QED BY <1>1, <2>1 DEF Consume
<1>2. CASE data # <<>>
  <2>1. PICK k \in 1..Len(wire) : k <= n /\ data = SubSeq(wire, 1, k)
    BY <1>2 DEF Received
  <2>2. data \in Seq(Slots) /\ Len(data) = k
    BY <2>1, PartOfSeq
  <2>3. SubSeq(wire, Len(data) + 1, Len(wire)) \in Seq(Slots)
    BY <2>2, PartOfSeq
  <2>4. Len(data) <= n /\ Len(data) <= Len(wire)
    BY <2>1, <2>2
  <2>5. Consume(data) => wire' \in Seq(Slots)
    BY <2>3 DEF Consume
  <2> QED BY <2>2, <2>4, <2>5
<1> QED BY <1>1, <1>2

\* strstr finds the first CRLF inside the buffer; line and rest lie in it.
LEMMA LineFound ==
  ASSUME NEW s \in Seq(Slots), HasCRLF(s)
  PROVE  /\ FirstCRLF(s) \in 1..Len(s) - 1
         /\ LineOf(s) \in Seq(Slots)
         /\ AfterLine(s) \in Seq(Slots)
         /\ Len(AfterLine(s)) <= Len(s)
<1>1. CRLFAt(s) \subseteq Nat /\ CRLFAt(s) # {} /\ CRLFAt(s) \subseteq 1..Len(s) - 1
  BY DEF HasCRLF, CRLFAt
<1> DEFINE Less == {p \in Nat \X Nat : p[1] < p[2]}
<1>2. PICK i \in CRLFAt(s) : \A j \in CRLFAt(s) : ~(<<j, i>> \in Less)
  <2>1. IsWellFoundedOn(Less, Nat)
    BY NatLessThanWellFounded, Zenon DEF OpToRel
  <2> QED BY <1>1, <2>1, WFMin
<1>3. \A j \in CRLFAt(s) : i <= j
  <2> SUFFICES ASSUME NEW j \in CRLFAt(s), j < i PROVE FALSE
    BY <1>1
  <2>1. <<j, i>> \in Nat \X Nat /\ <<j, i>>[1] < <<j, i>>[2]
    BY <1>1
  <2> QED BY <1>2, <2>1
<1>4. FirstCRLF(s) \in CRLFAt(s)
  BY <1>3 DEF FirstCRLF
<1>5. FirstCRLF(s) \in 1..Len(s) - 1
  BY <1>1, <1>4
<1>6. LineOf(s) \in Seq(Slots)
  BY <1>5, PartOfSeq DEF LineOf
<1>7. AfterLine(s) \in Seq(Slots) /\ Len(AfterLine(s)) <= Len(s)
  BY <1>5, PartOfSeq DEF AfterLine
<1> QED BY <1>5, <1>6, <1>7

-----------------------------------------------------------------------------
(* Type correctness.                                                       *)

\* The texts of the request that khc composes consist of slots.
LEMMA TextTypes ==
  /\ CRLF \in Seq(Slots) /\ ReqLine \in Seq(Slots) /\ HostLine \in Seq(Slots)
  /\ ReqEnd(req.upload) \in Seq(Slots)
  /\ \A n \in Sizes : <<SizeSlot(n)>> \o CRLF \in Seq(Slots)
<1>1. \A n \in Sizes : SizeSlot(n) \in Slots
  BY SizeSlotsAssumption DEF SizeSlotsAssumption, Sizes, SizeSlot
<1>2. CRLF \in Seq(Slots)
  BY SlotsAssumption DEF SlotsAssumption, CRLF
<1>3. \A n \in Sizes : <<SizeSlot(n)>> \o CRLF \in Seq(Slots)
  BY <1>1, <1>2
<1>4. ReqEnd(req.upload) \in Seq(Slots)
  BY <1>2, SlotsAssumption DEF SlotsAssumption, ReqEnd
<1>5. ReqLine \in Seq(Slots) /\ HostLine \in Seq(Slots)
  BY SlotsAssumption DEF SlotsAssumption, ReqLine, HostLine
<1> QED BY <1>2, <1>3, <1>4, <1>5

\* The part of a text that one call of cb_sock_send takes.
LEMMA SentPart ==
  ASSUME TypeOK, NEW text \in Seq(Slots), NEW k \in 0..Len(text) - sentLength
  PROVE  /\ out \o SubSeq(text, sentLength + 1, sentLength + k) \in Seq(Slots)
         /\ sentLength + k \in Nat
<1>1. sentLength \in Nat /\ out \in Seq(Slots) /\ k \in Nat /\ sentLength + k <= Len(text)
  BY DEF TypeOK
<1>2. SubSeq(text, sentLength + 1, sentLength + k) \in Seq(Slots)
  BY <1>1, PartOfSeq
<1> QED BY <1>1, <1>2

\* What a call of cb_sock_send does to the text being sent.
Progress(text) ==
  \/ \E k \in 0..Len(text) - sentLength :
       /\ out' = out \o SubSeq(text, sentLength + 1, sentLength + k)
       /\ sentLength' \in {0, sentLength + k}
  \/ UNCHANGED <<out, sentLength>>

\* Sending any part of a text keeps _sent_length and the output well-formed.
LEMMA Progressed ==
  ASSUME TypeOK, NEW text \in Seq(Slots), Progress(text)
  PROVE  out' \in Seq(Slots) /\ sentLength' \in Nat
<1>1. CASE UNCHANGED <<out, sentLength>>
  BY <1>1 DEF TypeOK
<1>2. ASSUME NEW k \in 0..Len(text) - sentLength,
             out' = out \o SubSeq(text, sentLength + 1, sentLength + k),
             sentLength' \in {0, sentLength + k}
      PROVE  out' \in Seq(Slots) /\ sentLength' \in Nat
  <2>1. /\ out \o SubSeq(text, sentLength + 1, sentLength + k) \in Seq(Slots)
        /\ sentLength + k \in Nat
    BY SentPart
  <2> QED BY <1>2, <2>1
<1> QED BY <1>1, <1>2 DEF Progress

\* Every request handler keeps the types.
LEMMA RequestTypeStep ==
  ASSUME TypeOK, RequestPlace, RequestStep
  PROVE  TypeOK'
<1> USE DEF vars, ownVars, buffVars, reqVars, respVars, parseVars, Goto, Abort, Again, States, ReqStates,
            RespStates, Codes
<1>1. CASE SendReqLine
  <2>1. CASE SendText(ReqLine, ReqLineSent)
    <3>1. Progress(ReqLine)
      BY <2>1 DEF SendText, Progress
    <3>2. out' \in Seq(Slots) /\ sentLength' \in Nat
      BY <3>1, TextTypes, Progressed
    <3>3. state' \in States /\ result' \in Codes
      BY <2>1 DEF SendText, ReqLineSent, TypeOK
    <3> HIDE DEF States, Codes
    <3> QED BY <2>1, <3>2, <3>3 DEF SendText, ReqLineSent, TypeOK
  <2> QED BY <1>1, <2>1 DEF SendReqLine, TypeOK
<1>2. CASE SendHostHeader
  <2>1. CASE SendText(HostLine, HostHeaderSent)
    <3>1. Progress(HostLine)
      BY <2>1 DEF SendText, Progress
    <3>2. out' \in Seq(Slots) /\ sentLength' \in Nat
      BY <3>1, TextTypes, Progressed
    <3>3. state' \in States /\ result' \in Codes
      BY <2>1 DEF SendText, HostHeaderSent, TypeOK
    <3>4. headerIdx' \in Nat
      BY <2>1 DEF SendText, HostHeaderSent, TypeOK
    <3> HIDE DEF States, Codes
    <3> QED BY <2>1, <3>2, <3>3, <3>4 DEF SendText, HostHeaderSent, TypeOK
  <2> QED BY <1>2, <2>1 DEF SendHostHeader, TypeOK
<1>3. CASE ReqHeader
  BY <1>3 DEF ReqHeader, TypeOK
<1>4. CASE SendHeader
  <2>0. HeaderData \in Seq(Slots)
    BY <1>4, RequestsAssumption DEF SendHeader, RequestsAssumption, IsRequest, HeaderData, RequestPlace, TypeOK
  <2>1. CASE SendText(HeaderData, HeaderSent)
    <3>1. Progress(HeaderData)
      BY <2>1 DEF SendText, Progress
    <3>2. out' \in Seq(Slots) /\ sentLength' \in Nat
      BY <3>1, <2>0, Progressed
    <3>3. state' \in States /\ result' \in Codes
      BY <2>1 DEF SendText, HeaderSent, TypeOK
    <3> HIDE DEF States, Codes
    <3> QED BY <2>1, <3>2, <3>3 DEF SendText, HeaderSent, TypeOK
  <2> QED BY <1>4, <2>1 DEF SendHeader, TypeOK
<1>5. CASE SendHeaderCRLF
  <2>1. CASE SendText(CRLF, HeaderCRLFSent)
    <3>1. Progress(CRLF)
      BY <2>1 DEF SendText, Progress
    <3>2. out' \in Seq(Slots) /\ sentLength' \in Nat
      BY <3>1, TextTypes, Progressed
    <3>3. headerIdx' \in Nat
      BY <2>1 DEF SendText, HeaderCRLFSent, TypeOK
    <3> HIDE DEF States, Codes
    <3>4. state' \in States /\ result' \in Codes
      BY <2>1 DEF SendText, HeaderCRLFSent, TypeOK, States, ReqStates, Codes
    <3> QED BY <2>1, <3>2, <3>3, <3>4 DEF SendText, HeaderCRLFSent, TypeOK
  <2> QED BY <1>5, <2>1 DEF SendHeaderCRLF, TypeOK
<1>7. CASE SendHeaderEnd
  <2>1. CASE SendText(ReqEnd(req.upload), HeaderEndSent)
    <3>1. Progress(ReqEnd(req.upload))
      BY <2>1 DEF SendText, Progress
    <3>2. out' \in Seq(Slots) /\ sentLength' \in Nat
      BY <3>1, TextTypes, Progressed
    <3>3. hbuf' \in Seq(Slots)
      <4>1. hbuf' = hbuf \/ hbuf' = <<>>
        BY <2>1 DEF SendText, HeaderEndSent
      <4> QED BY <4>1, EmptySeq DEF TypeOK
    <3>4. state' \in States /\ result' \in Codes
      BY <2>1 DEF SendText, HeaderEndSent, TypeOK
    <3>5. readReqEnd' \in BOOLEAN
      BY <2>1 DEF SendText, HeaderEndSent, TypeOK
    <3> HIDE DEF States, Codes
    <3> QED BY <2>1, <3>2, <3>3, <3>4, <3>5 DEF SendText, HeaderEndSent, TypeOK
  <2> QED BY <1>7, <2>1 DEF SendHeaderEnd, TypeOK
<1>8. CASE ReqBodyRead
  <2>1. sbuf' \in Seq(Slots)
    BY <1>8, RequestsAssumption DEF ReqBodyRead, RequestsAssumption, IsRequest, TypeOK
  <2> QED BY <1>8, <2>1 DEF ReqBodyRead, TypeOK
<1>9. CASE SendBodySize
  <2>0. <<SizeSlot(Len(sbuf))>> \o CRLF \in Seq(Slots)
    BY <1>9, TextTypes DEF SendBodySize, RequestPlace
  <2>1. CASE SendText(<<SizeSlot(Len(sbuf))>> \o CRLF, BodySizeSent)
    <3>1. Progress(<<SizeSlot(Len(sbuf))>> \o CRLF)
      BY <2>1 DEF SendText, Progress
    <3>2. out' \in Seq(Slots) /\ sentLength' \in Nat
      BY <3>1, <2>0, Progressed
    <3>3. state' \in States /\ result' \in Codes
      BY <2>1 DEF SendText, BodySizeSent, TypeOK
    <3> HIDE DEF States, Codes
    <3> QED BY <2>1, <3>2, <3>3 DEF SendText, BodySizeSent, TypeOK
  <2> QED BY <1>9, <2>1 DEF SendBodySize, TypeOK
<1>10. CASE SendBody
  <2>0. sbuf \in Seq(Slots)
    BY DEF TypeOK
  <2>1. CASE SendText(sbuf, BodySent)
    <3>1. Progress(sbuf)
      BY <2>1 DEF SendText, Progress
    <3>2. out' \in Seq(Slots) /\ sentLength' \in Nat
      BY <3>1, <2>0, Progressed
    <3>3. state' \in States /\ result' \in Codes
      BY <2>1 DEF SendText, BodySent, TypeOK
    <3> HIDE DEF States, Codes
    <3> QED BY <2>1, <3>2, <3>3 DEF SendText, BodySent, TypeOK
  <2> QED BY <1>10, <2>1 DEF SendBody, TypeOK
<1>11. CASE SendBodyCRLF
  <2>1. CASE SendText(CRLF, BodyCRLFSent)
    <3>1. Progress(CRLF)
      BY <2>1 DEF SendText, Progress
    <3>2. out' \in Seq(Slots) /\ sentLength' \in Nat
      BY <3>1, TextTypes, Progressed
    <3>3. hbuf' \in Seq(Slots)
      <4>1. hbuf' = hbuf \/ hbuf' = <<>>
        BY <2>1 DEF SendText, BodyCRLFSent
      <4> QED BY <4>1, EmptySeq DEF TypeOK
    <3>4. state' \in States /\ result' \in Codes
      BY <2>1 DEF SendText, BodyCRLFSent, TypeOK
    <3> HIDE DEF States, Codes
    <3> QED BY <2>1, <3>2, <3>3, <3>4 DEF SendText, BodyCRLFSent, TypeOK
  <2> QED BY <1>11, <2>1 DEF SendBodyCRLF, TypeOK
<1> QED
  BY <1>1, <1>2, <1>3, <1>4, <1>5, <1>7, <1>8, <1>9, <1>10, <1>11 DEF RequestStep

-----------------------------------------------------------------------------
(* What the response handlers store, and that it fits.                     *)

\* A read into the header buffer leaves a slot for the NUL.
LEMMA HeaderReceived ==
  ASSUME TypeOK, NEW kept \in Seq(Slots), Len(kept) < RespHeaderBuffSize,
         NEW data \in Received(RespHeaderBuffSize - Len(kept) - 1), Consume(data)
  PROVE  /\ kept \o data \in Seq(Slots) /\ Len(kept \o data) < RespHeaderBuffSize
         /\ wire' \in Seq(Slots)
<1>1. RespHeaderBuffSize - Len(kept) - 1 \in Nat
  BY RespHeaderBuffSizeAssumption DEF RespHeaderBuffSizeAssumption
<1>2. wire \in Seq(Slots)
  BY DEF TypeOK
<1>3. /\ data \in Seq(Slots) /\ Len(data) <= RespHeaderBuffSize - Len(kept) - 1
      /\ wire' \in Seq(Slots)
  BY <1>1, <1>2, ReceivedPart
<1>4. Len(kept \o data) = Len(kept) + Len(data) /\ kept \o data \in Seq(Slots)
  BY <1>3
<1> QED
  BY <1>3, <1>4, RespHeaderBuffSizeAssumption DEF RespHeaderBuffSizeAssumption

\* A read into the rest of the stream buffer stays inside it.
LEMMA StreamReceived ==
  ASSUME TypeOK, NEW kept \in Seq(Slots), Len(kept) <= StreamBuffSize,
         NEW data \in Received(StreamBuffSize - Len(kept)), Consume(data)
  PROVE  /\ kept \o data \in Seq(Slots) /\ Len(kept \o data) <= StreamBuffSize
         /\ wire' \in Seq(Slots)
<1>1. StreamBuffSize - Len(kept) \in Nat
  BY StreamBuffSizeAssumption DEF StreamBuffSizeAssumption
<1>2. wire \in Seq(Slots)
  BY DEF TypeOK
<1>3. /\ data \in Seq(Slots) /\ Len(data) <= StreamBuffSize - Len(kept)
      /\ wire' \in Seq(Slots)
  BY <1>1, <1>2, ReceivedPart
<1>4. Len(kept \o data) = Len(kept) + Len(data) /\ kept \o data \in Seq(Slots)
  BY <1>3
<1> QED
  BY <1>3, <1>4, StreamBuffSizeAssumption DEF StreamBuffSizeAssumption

(* The variables the response handlers change, with their types and bounds. *)
RespTyped ==
  /\ state \in States /\ result \in Codes
  /\ hbuf \in Seq(Slots) /\ Len(hbuf) < RespHeaderBuffSize
  /\ sbuf \in Seq(Slots) /\ Len(sbuf) <= StreamBuffSize
  /\ status \in {"none", "1xx", "final"}
  /\ chunkedResp \in BOOLEAN
  /\ chunkSize \in Nat /\ chunkWritten \in Nat
  /\ readEnd \in BOOLEAN
  /\ wire \in Seq(Slots) /\ got \in Seq(Slots)
  /\ hdrs \in Seq(Seq(Slots))

\* RespTyped is all of TypeOK and NoOverflow that a response handler can disturb.
LEMMA RespTypedEnough ==
  ASSUME TypeOK, NoOverflow
  PROVE  /\ RespTyped
         /\ (RespUnchanged /\ RespTyped') => (TypeOK' /\ NoOverflow')
<1> USE DEF TypeOK, NoOverflow, RespTyped
<1>1. RespTyped
  OBVIOUS
<1>2. (RespUnchanged /\ RespTyped') => (TypeOK' /\ NoOverflow')
  BY DEF RespUnchanged, ownVars, buffVars, reqVars
<1> QED BY <1>1, <1>2

\* The states and codes that the response handlers assign exist.
LEMMA StatesAndCodes ==
  /\ {"CLOSE", "FINISHED", "IDLE", "CONNECT"} \cup RespStates \subseteq States
  /\ Codes = {"OK", "SOCK_CONNECT", "SOCK_CLOSE", "SOCK_SEND", "SOCK_RECV",
       "HEADER_CALLBACK", "WRITE_CALLBACK", "ALLOCATION", "TOO_LARGE_DATA", "FAIL"}
  BY DEF States, Codes

\* An empty buffer is within every bound.
LEMMA EmptyFits ==
  ASSUME NEW s, s = <<>>
  PROVE  s \in Seq(Slots) /\ Len(s) <= StreamBuffSize /\ Len(s) < RespHeaderBuffSize
  BY EmptySeq, StreamBuffSizeAssumption, RespHeaderBuffSizeAssumption
  DEF StreamBuffSizeAssumption, RespHeaderBuffSizeAssumption

\* A call that is to be repeated, and a failed one, keep the types.
LEMMA RespStepsTyped ==
  ASSUME RespTyped
  PROVE  /\ Again => RespTyped'
         /\ RecvFails => RespTyped'
<1>1. Again => RespTyped'
  BY DEF Again, RespTyped, vars, respVars, parseVars
<1>2. RecvFails => RespTyped'
  BY StatesAndCodes DEF RecvFails, RespTyped, respVars, parseVars, Abort
<1> QED BY <1>1, <1>2

\* Reading and parsing the head keeps types and bounds.
LEMMA StatusTypeStep ==
  ASSUME RespTyped, RespStatusRead \/ RespStatusParse \/ RespHeaderRead,
         \A data \in Received(HeaderRoom) : Consume(data) =>
           /\ hbuf \o data \in Seq(Slots) /\ Len(hbuf \o data) < RespHeaderBuffSize
           /\ wire' \in Seq(Slots)
  PROVE  RespTyped'
<1> USE StatesAndCodes DEF Goto, Abort, RespStates
<1>1. CASE RespStatusRead
  <2>1. CASE Again \/ RecvFails
    BY <2>1, RespStepsTyped
  <2>2. ASSUME NEW data \in Received(HeaderRoom), Consume(data), hbuf' = hbuf \o data,
               readEnd' = (data = <<>> \/ readEnd),
               IF HasCRLF(hbuf') THEN Goto("RESP_STATUS_PARSE") ELSE Abort("TOO_LARGE_DATA"),
               UNCHANGED <<sbuf, status, chunkedResp, chunkSize, chunkWritten, hdrs, got>>
        PROVE  RespTyped'
    <3>1. state' \in States /\ result' \in Codes
      BY <2>2 DEF RespTyped
    <3>2. readEnd' \in BOOLEAN
      BY <2>2 DEF RespTyped
    <3> QED BY <2>2, <3>1, <3>2 DEF RespTyped
  <2> QED BY <1>1, <2>1, <2>2 DEF RespStatusRead
<1>2. CASE RespStatusParse
  BY <1>2 DEF RespStatusParse, RespTyped
<1>3. CASE RespHeaderRead
  <2>1. CASE Again \/ RecvFails
    BY <2>1, RespStepsTyped
  <2>2. ASSUME NEW data \in Received(HeaderRoom), Consume(data), hbuf' = hbuf \o data,
               readEnd' = (data = <<>> \/ readEnd),
               Goto("RESP_HEADER_CALLBACK"),
               UNCHANGED <<sbuf, status, chunkedResp, chunkSize, chunkWritten, hdrs, got>>
        PROVE  RespTyped'
    <3>1. state' \in States /\ result' \in Codes
      BY <2>2 DEF RespTyped
    <3>2. readEnd' \in BOOLEAN
      BY <2>2 DEF RespTyped
    <3> QED BY <2>2, <3>1, <3>2 DEF RespTyped
  <2> QED BY <1>3, <2>1, <2>2 DEF RespHeaderRead
<1> QED BY <1>1, <1>2, <1>3

\* Taking a line, or the end of the headers, from the buffer keeps them.
LEMMA CallbackTypeStep ==
  ASSUME RespTyped, RespHeaderCallback
  PROVE  RespTyped'
<1> USE StatesAndCodes DEF Goto, Abort, RespStates
<1>1. CASE HeaderIncomplete
  BY <1>1 DEF HeaderIncomplete, RespTyped, respVars, parseVars
<1>2. CASE HeaderLine
  <2>1. hbuf' \in Seq(Slots) /\ Len(hbuf') < RespHeaderBuffSize
    BY <1>2, LineFound, RespHeaderBuffSizeAssumption
    DEF HeaderLine, RespTyped, RespHeaderBuffSizeAssumption
  <2>2. hdrs' \in Seq(Seq(Slots))
    BY <1>2, LineFound DEF HeaderLine, RespTyped
  <2>3. chunkedResp' \in BOOLEAN
    BY <1>2 DEF HeaderLine, RespTyped
  <2> QED BY <1>2, <2>1, <2>2, <2>3 DEF HeaderLine, RespTyped
<1>3. CASE HeaderRefused
  <2>1. hdrs' \in Seq(Seq(Slots))
    BY <1>3, LineFound DEF HeaderRefused, RespTyped
  <2> QED BY <1>3, <2>1 DEF HeaderRefused, RespTyped
<1>4. CASE HeadersEnd
  <2>1. hbuf' \in Seq(Slots) /\ Len(hbuf') < RespHeaderBuffSize
    BY <1>4, LineFound, RespHeaderBuffSizeAssumption
    DEF HeadersEnd, RespTyped, RespHeaderBuffSizeAssumption
  <2>2. sbuf' \in Seq(Slots) /\ Len(sbuf') <= StreamBuffSize
    <3>1. sbuf' = sbuf \/ sbuf' = <<>>
      BY <1>4 DEF HeadersEnd
    <3> QED BY <3>1, EmptyFits DEF RespTyped
  <2>3. state' \in States /\ result' \in Codes
    BY <1>4 DEF HeadersEnd, RespTyped
  <2> QED BY <1>4, <2>1, <2>2, <2>3 DEF HeadersEnd, RespTyped, parseVars
<1> QED BY <1>1, <1>2, <1>3, <1>4 DEF RespHeaderCallback

\* Skipping a line that is too long keeps them.
LEMMA SkipTypeStep ==
  ASSUME TypeOK, RespTyped, RespHeaderSkip
  PROVE  RespTyped'
<1> USE StatesAndCodes DEF Goto, Abort, RespStates
<1>1. CASE Abort("HEADER_CALLBACK") /\ UNCHANGED <<sbuf, respVars>>
  BY <1>1 DEF RespTyped, respVars, parseVars
<1>2. ASSUME NEW kept \in SkipKeeps
      PROVE  kept \in Seq(Slots) /\ Len(kept) < RespHeaderBuffSize
  <2>1. kept = <<>> \/ kept = <<"CR">>
    BY DEF SkipKeeps
  <2>2. <<"CR">> \in Seq(Slots) /\ Len(<<"CR">>) = 1
    BY SlotsAssumption DEF SlotsAssumption
  <2>3. CASE kept = <<>>
    BY <2>3, EmptyFits
  <2>4. CASE kept = <<"CR">>
    BY <2>2, <2>4, RespHeaderBuffSizeAssumption DEF RespHeaderBuffSizeAssumption
  <2> QED BY <2>1, <2>3, <2>4
<1>3. ASSUME NEW kept \in SkipKeeps,
             NEW data \in Received(RespHeaderBuffSize - Len(kept) - 1), Consume(data),
             readEnd' = (data = <<>> \/ readEnd),
             IF HasCRLF(kept \o data)
               THEN hbuf' = AfterLine(kept \o data) /\ Goto("RESP_HEADER_CALLBACK")
               ELSE hbuf' = kept \o data /\ UNCHANGED <<state, result>>,
             UNCHANGED <<sbuf, status, chunkedResp, chunkSize, chunkWritten, hdrs, got>>
      PROVE  RespTyped'
  <2>1. /\ kept \o data \in Seq(Slots) /\ Len(kept \o data) < RespHeaderBuffSize
        /\ wire' \in Seq(Slots)
    BY <1>2, <1>3, HeaderReceived
  <2>2. hbuf' \in Seq(Slots) /\ Len(hbuf') < RespHeaderBuffSize
    <3> DEFINE line == kept \o data
    <3>1. hbuf' = line \/ (HasCRLF(line) /\ hbuf' = AfterLine(line))
      BY <1>3
    <3>2. line \in Seq(Slots) /\ Len(line) < RespHeaderBuffSize
      BY <2>1
    <3> HIDE DEF line
    <3>3. HasCRLF(line) =>
            AfterLine(line) \in Seq(Slots) /\ Len(AfterLine(line)) < RespHeaderBuffSize
      BY <3>2, LineFound, RespHeaderBuffSizeAssumption DEF RespHeaderBuffSizeAssumption
    <3> QED BY <3>1, <3>2, <3>3
  <2>3. state' \in States /\ result' \in Codes
    BY <1>3 DEF RespTyped
  <2>4. readEnd' \in BOOLEAN
    BY <1>3 DEF RespTyped
  <2> QED BY <1>3, <2>1, <2>2, <2>3, <2>4 DEF RespTyped
<1>4. ASSUME NEW kept \in SkipKeeps, hbuf' = kept, UNCHANGED <<sbuf, parseVars>>,
             Abort("SOCK_RECV") \/ UNCHANGED <<state, result>>
      PROVE  RespTyped'
  BY <1>2, <1>4 DEF RespTyped, parseVars
<1> QED BY <1>1, <1>3, <1>4 DEF RespHeaderSkip

\* A read into the whole stream buffer stays inside it.
LEMMA WholeStreamReceived ==
  ASSUME TypeOK, NEW data \in Received(StreamBuffSize), Consume(data)
  PROVE  data \in Seq(Slots) /\ Len(data) <= StreamBuffSize /\ wire' \in Seq(Slots)
<1>1. StreamBuffSize \in Nat
  BY StreamBuffSizeAssumption DEF StreamBuffSizeAssumption
<1> QED BY <1>1, ReceivedPart DEF TypeOK

\* The handlers of a body that ends with the connection keep them.
LEMMA PlainBodyTypeStep ==
  ASSUME TypeOK, RespTyped, RespBodyFragment \/ RespBodyRead \/ RespBodyCallback
  PROVE  RespTyped'
<1> USE StatesAndCodes DEF Goto, Abort, RespStates
<1>1. CASE RespBodyFragment
  <2>1. got' \in Seq(Slots)
    <3>1. got' = got \o hbuf \/ got' = got
      BY <1>1 DEF RespBodyFragment, WriteBody
    <3>2. got \in Seq(Slots) /\ got \o hbuf \in Seq(Slots)
      BY DEF RespTyped
    <3> QED BY <3>1, <3>2
  <2>2. state' \in States /\ result' \in Codes
    BY <1>1 DEF RespBodyFragment, WriteBody, AfterBody, RespTyped
  <2> QED BY <1>1, <2>1, <2>2 DEF RespBodyFragment, RespTyped
<1>2. CASE RespBodyCallback
  <2>1. got' \in Seq(Slots)
    <3>1. got' = got \o sbuf \/ got' = got
      BY <1>2 DEF RespBodyCallback, WriteBody
    <3>2. got \in Seq(Slots) /\ got \o sbuf \in Seq(Slots)
      BY DEF RespTyped
    <3> QED BY <3>1, <3>2
  <2>2. state' \in States /\ result' \in Codes
    BY <1>2 DEF RespBodyCallback, WriteBody, AfterBody, RespTyped
  <2> QED BY <1>2, <2>1, <2>2 DEF RespBodyCallback, RespTyped
<1>3. CASE RespBodyRead
  <2>1. CASE Again \/ RecvFails
    BY <2>1, RespStepsTyped
  <2>2. ASSUME NEW data \in Received(StreamBuffSize), Consume(data), sbuf' = data,
               readEnd' = (data = <<>> \/ readEnd),
               Goto(IF data = <<>> THEN "CLOSE" ELSE "RESP_BODY_CALLBACK"),
               UNCHANGED <<hbuf, status, chunkedResp, chunkSize, chunkWritten, hdrs, got>>
        PROVE  RespTyped'
    <3>1. sbuf' \in Seq(Slots) /\ Len(sbuf') <= StreamBuffSize /\ wire' \in Seq(Slots)
      BY <2>2, WholeStreamReceived
    <3>2. state' \in States /\ result' \in Codes
      BY <2>2 DEF RespTyped
    <3>3. readEnd' \in BOOLEAN
      BY <2>2 DEF RespTyped
    <3> QED BY <2>2, <3>1, <3>2, <3>3 DEF RespTyped
  <2> QED BY <1>3, <2>1, <2>2 DEF RespBodyRead
<1> QED BY <1>1, <1>2, <1>3

\* _move_resp_header_to_stream moves no more than there is, and than fits.
LEMMA MoveTypeStep ==
  ASSUME RespTyped, NEW next \in RespStates, MoveHeaderToStream(next)
  PROVE  RespTyped'
<1> USE StatesAndCodes DEF Goto, Abort
<1>1. CASE StreamRoom = 0
  BY <1>1 DEF MoveHeaderToStream, RespTyped, parseVars
<1>2. CASE StreamRoom # 0
  <2> DEFINE n == IF StreamRoom > Len(hbuf) THEN Len(hbuf) ELSE StreamRoom
  <2>1. StreamRoom \in Nat /\ StreamBuffSize \in Nat /\ Len(sbuf) \in Nat
        /\ StreamBuffSize = Len(sbuf) + StreamRoom
    BY StreamBuffSizeAssumption DEF StreamBuffSizeAssumption, StreamRoom, RespTyped
  <2>2. n \in Nat /\ n <= Len(hbuf) /\ n <= StreamRoom
    BY <2>1 DEF RespTyped
  <2>3. sbuf' = sbuf \o SubSeq(hbuf, 1, n) /\ hbuf' = SubSeq(hbuf, n + 1, Len(hbuf))
        /\ Goto(next)
    BY <1>2 DEF MoveHeaderToStream
  <2> HIDE DEF n
  <2>4. SubSeq(hbuf, 1, n) \in Seq(Slots) /\ Len(SubSeq(hbuf, 1, n)) = n
    BY <2>2, PartOfSeq DEF RespTyped
  <2>5. hbuf' \in Seq(Slots) /\ Len(hbuf') <= Len(hbuf)
    BY <2>2, <2>3, PartOfSeq DEF RespTyped
  <2>6. sbuf' \in Seq(Slots) /\ Len(sbuf') = Len(sbuf) + n
    BY <2>3, <2>4 DEF RespTyped
  <2>7. Len(sbuf') <= StreamBuffSize
    BY <2>1, <2>2, <2>6
  <2>8. Len(hbuf') < RespHeaderBuffSize
    BY <2>5, RespHeaderBuffSizeAssumption DEF RespHeaderBuffSizeAssumption, RespTyped
  <2>9. state' \in States /\ result' \in Codes
    BY <2>3 DEF RespTyped
  <2> QED BY <2>5, <2>6, <2>7, <2>8, <2>9 DEF MoveHeaderToStream, RespTyped, parseVars
<1> QED BY <1>1, <1>2

\* The reads of a chunked body keep types and bounds.
LEMMA ReadChunkTypeStep ==
  ASSUME TypeOK, RespTyped, NEW kept \in Seq(Slots), Len(kept) <= StreamBuffSize,
         NEW next \in RespStates, ReadChunk(kept, StreamBuffSize - Len(kept), next)
  PROVE  RespTyped'
<1> USE StatesAndCodes DEF Goto, Abort
<1>1. CASE Again \/ RecvFails
  BY <1>1, RespStepsTyped
<1>2. ASSUME NEW data \in Received(StreamBuffSize - Len(kept)), Consume(data),
             IF data = <<>> THEN Abort("FAIL") ELSE Goto(next),
             sbuf' = IF data = <<>> THEN sbuf ELSE kept \o data,
             UNCHANGED <<hbuf, status, chunkedResp, chunkSize, chunkWritten, readEnd, hdrs, got>>
      PROVE  RespTyped'
  <2>1. /\ kept \o data \in Seq(Slots) /\ Len(kept \o data) <= StreamBuffSize
        /\ wire' \in Seq(Slots)
    BY <1>2, StreamReceived
  <2>2. sbuf' \in Seq(Slots) /\ Len(sbuf') <= StreamBuffSize
    <3>1. sbuf' = sbuf \/ sbuf' = kept \o data
      BY <1>2
    <3>2. CASE sbuf' = sbuf
      BY <3>2 DEF RespTyped
    <3>3. CASE sbuf' = kept \o data
      BY <2>1, <3>3
    <3> QED BY <3>1, <3>2, <3>3
  <2>3. state' \in States /\ result' \in Codes
    BY <1>2 DEF RespTyped
  <2> QED BY <1>2, <2>1, <2>2, <2>3 DEF RespTyped
<1> QED BY <1>1, <1>2 DEF ReadChunk

\* The handlers of the size line keep them.
LEMMA ChunkSizeTypeStep ==
  ASSUME TypeOK, RespTyped, RespBodyParseChunkSize \/ RespBodyReadChunkSize \/ RespBodyReadChunkBody
  PROVE  RespTyped'
<1> USE StatesAndCodes DEF Goto, Abort, RespStates
<1>1. CASE RespBodyParseChunkSize
  <2>1. CASE /\ HasCRLF(sbuf)
             /\ chunkSize' \in ParsedSizes
             /\ chunkWritten' = 0
             /\ sbuf' = AfterLine(sbuf)
             /\ Goto(IF chunkSize' > 0 THEN "RESP_BODY_PARSE_CHUNK_BODY"
                     ELSE "RESP_BODY_SKIP_TRAILERS")
    <3>1. chunkSize' \in Nat /\ chunkWritten' \in Nat
      BY <2>1, SizeSlotsAssumption DEF ParsedSizes, SizesOf, Sizes, SizeSlotsAssumption
    <3>2. sbuf' \in Seq(Slots) /\ Len(sbuf') <= StreamBuffSize
      BY <2>1, LineFound, StreamBuffSizeAssumption DEF RespTyped, StreamBuffSizeAssumption
    <3>3. state' \in States /\ result' \in Codes
      BY <2>1 DEF RespTyped
    <3> QED BY <1>1, <3>1, <3>2, <3>3 DEF RespBodyParseChunkSize, RespTyped
  <2>2. CASE /\ ~HasCRLF(sbuf)
             /\ Goto(IF hbuf # <<>> THEN "READ_CHUNK_SIZE_FROM_HEADER_BUFF"
                     ELSE "RESP_BODY_READ_CHUNK_SIZE")
             /\ UNCHANGED <<chunkSize, chunkWritten, sbuf>>
    BY <1>1, <2>2 DEF RespBodyParseChunkSize, RespTyped
  <2> QED BY <1>1, <2>1, <2>2 DEF RespBodyParseChunkSize
<1>2. CASE RespBodyReadChunkSize
  <2>1. CASE Abort("TOO_LARGE_DATA") /\ UNCHANGED <<sbuf, respVars>>
    BY <2>1 DEF RespTyped, respVars, parseVars
  <2>2. CASE ReadChunk(sbuf, StreamRoom, "RESP_BODY_PARSE_CHUNK_SIZE")
    BY <2>2, ReadChunkTypeStep DEF StreamRoom, RespTyped
  <2> QED BY <1>2, <2>1, <2>2 DEF RespBodyReadChunkSize
<1>3. CASE RespBodyReadChunkBody
  <2>1. StreamBuffSize - Len(<<>>) = StreamBuffSize
    BY EmptySeq, StreamBuffSizeAssumption DEF StreamBuffSizeAssumption
  <2>2. ReadChunk(<<>>, StreamBuffSize - Len(<<>>), "RESP_BODY_PARSE_CHUNK_BODY")
    BY <1>3, <2>1 DEF RespBodyReadChunkBody
  <2>3. <<>> \in Seq(Slots) /\ Len(<<>>) <= StreamBuffSize
    BY EmptyFits
  <2> QED BY <2>2, <2>3, ReadChunkTypeStep
<1> QED BY <1>1, <1>2, <1>3

\* What belongs to the current chunk is part of the stream buffer.
LEMMA ChunkPartFits ==
  ASSUME RespTyped, WrittenWithinChunk
  PROVE  /\ ChunkPart \in Nat /\ ChunkPart <= Len(sbuf)
         /\ chunkWritten + ChunkPart <= chunkSize
  BY DEF RespTyped, WrittenWithinChunk, ChunkPart

\* Passing a part of a chunk to cb_write keeps them.
LEMMA ChunkBodyTypeStep ==
  ASSUME RespTyped, WrittenWithinChunk, RespBodyParseChunkBody
  PROVE  RespTyped'
<1> USE StatesAndCodes DEF Goto, Abort, RespStates
<1>1. ChunkPart \in Nat /\ ChunkPart <= Len(sbuf)
  BY ChunkPartFits
<1>2. got' \in Seq(Slots)
  <2>1. SubSeq(sbuf, 1, ChunkPart) \in Seq(Slots)
    BY <1>1, PartOfSeq DEF RespTyped
  <2>2. got' = got \/ got' = got \o SubSeq(sbuf, 1, ChunkPart)
    BY DEF RespBodyParseChunkBody
  <2>3. got \in Seq(Slots) /\ got \o SubSeq(sbuf, 1, ChunkPart) \in Seq(Slots)
    BY <2>1 DEF RespTyped
  <2> QED BY <2>2, <2>3
<1>3. sbuf' \in Seq(Slots) /\ Len(sbuf') <= StreamBuffSize
  <2>1. \/ sbuf' = SubSeq(sbuf, ChunkPart + 1, Len(sbuf))
        \/ sbuf' = <<>>
        \/ sbuf' = sbuf
    BY DEF RespBodyParseChunkBody
  <2>2. CASE sbuf' = SubSeq(sbuf, ChunkPart + 1, Len(sbuf))
    BY <1>1, <2>2, PartOfSeq, StreamBuffSizeAssumption DEF RespTyped, StreamBuffSizeAssumption
  <2>3. CASE sbuf' = <<>>
    BY <2>3, EmptyFits
  <2>4. CASE sbuf' = sbuf
    BY <2>4 DEF RespTyped
  <2> QED BY <2>1, <2>2, <2>3, <2>4
<1>4. chunkWritten' \in Nat
  BY <1>1 DEF RespBodyParseChunkBody, RespTyped
<1>5. state' \in States /\ result' \in Codes
  BY DEF RespBodyParseChunkBody, RespTyped
<1> QED BY <1>2, <1>3, <1>4, <1>5 DEF RespBodyParseChunkBody, RespTyped

\* Skipping the CRLF after a chunk keeps them.
LEMMA SkipCRLFTypeStep ==
  ASSUME TypeOK, RespTyped, RespBodySkipChunkBodyCRLF
  PROVE  RespTyped'
<1> USE StatesAndCodes DEF Goto, Abort, RespStates
<1>1. CASE Again \/ RecvFails
  BY <1>1, RespStepsTyped
<1>2. ASSUME Len(sbuf) < 2, NEW data \in Received(2 - Len(sbuf)), Consume(data),
             IF data = <<>> THEN Abort("FAIL") ELSE Goto("RESP_BODY_PARSE_CHUNK_SIZE"),
             sbuf' = IF data = <<>> THEN sbuf ELSE <<>>,
             UNCHANGED <<hbuf, status, chunkedResp, chunkSize, chunkWritten, readEnd, hdrs, got>>
      PROVE  RespTyped'
  <2>1. 2 - Len(sbuf) \in Nat
    BY <1>2 DEF RespTyped
  <2>2. wire' \in Seq(Slots)
    BY <1>2, <2>1, ReceivedPart DEF TypeOK
  <2>3. sbuf' \in Seq(Slots) /\ Len(sbuf') <= StreamBuffSize
    BY <1>2, EmptyFits DEF RespTyped
  <2>4. state' \in States /\ result' \in Codes
    BY <1>2 DEF RespTyped
  <2> QED BY <1>2, <2>2, <2>3, <2>4 DEF RespTyped
<1>3. ASSUME Len(sbuf) >= 2, sbuf' = SubSeq(sbuf, 3, Len(sbuf)),
             Goto("RESP_BODY_PARSE_CHUNK_SIZE"), UNCHANGED respVars
      PROVE  RespTyped'
  <2>1. sbuf' \in Seq(Slots) /\ Len(sbuf') <= StreamBuffSize
    BY <1>3, PartOfSeq, StreamBuffSizeAssumption DEF RespTyped, StreamBuffSizeAssumption
  <2> QED BY <1>3, <2>1 DEF RespTyped, respVars, parseVars
<1> QED BY <1>1, <1>2, <1>3 DEF RespBodySkipChunkBodyCRLF

\* Skipping the trailers keeps them.
LEMMA TrailersTypeStep ==
  ASSUME TypeOK, RespTyped, RespBodySkipTrailers
  PROVE  RespTyped'
<1> USE StatesAndCodes DEF Goto, Abort, RespStates
<1>1. CASE Again \/ RecvFails
  BY <1>1, RespStepsTyped
<1>2. ASSUME NEW data \in Received(StreamBuffSize), Consume(data),
             Goto(IF data = <<>> THEN "CLOSE" ELSE state),
             UNCHANGED <<sbuf, hbuf, status, chunkedResp, chunkSize, chunkWritten, readEnd, hdrs, got>>
      PROVE  RespTyped'
  <2>1. wire' \in Seq(Slots)
    BY <1>2, WholeStreamReceived
  <2>2. state' \in States /\ result' \in Codes
    BY <1>2 DEF RespTyped
  <2> QED BY <1>2, <2>1, <2>2 DEF RespTyped
<1> QED BY <1>1, <1>2 DEF RespBodySkipTrailers

\* Every response handler keeps the types and the bounds.
LEMMA ResponseTypeStep ==
  ASSUME TypeOK, NoOverflow, WrittenWithinChunk, ResponseStep
  PROVE  TypeOK' /\ NoOverflow'
<1>1. RespTyped
  BY RespTypedEnough
<1>2. RespTyped'
  <2>1. CASE RespStatusRead \/ RespStatusParse \/ RespHeaderRead
    <3>1. ASSUME NEW data \in Received(HeaderRoom), Consume(data)
          PROVE  /\ hbuf \o data \in Seq(Slots) /\ Len(hbuf \o data) < RespHeaderBuffSize
                 /\ wire' \in Seq(Slots)
      BY <1>1, <3>1, HeaderReceived DEF HeaderRoom, RespTyped
    <3> QED BY <1>1, <2>1, <3>1, StatusTypeStep
  <2>2. CASE RespHeaderCallback
    BY <1>1, <2>2, CallbackTypeStep
  <2>3. CASE RespHeaderSkip
    BY <1>1, <2>3, SkipTypeStep
  <2>4. CASE RespBodyFragment \/ RespBodyRead \/ RespBodyCallback
    BY <1>1, <2>4, PlainBodyTypeStep
  <2>5. CASE ReadChunkSizeFromHeaderBuff \/ ReadChunkBodyFromHeaderBuff
    BY <1>1, <2>5, MoveTypeStep
    DEF ReadChunkSizeFromHeaderBuff, ReadChunkBodyFromHeaderBuff, RespStates
  <2>6. CASE RespBodyParseChunkSize \/ RespBodyReadChunkSize \/ RespBodyReadChunkBody
    BY <1>1, <2>6, ChunkSizeTypeStep
  <2>7. CASE RespBodyParseChunkBody
    BY <1>1, <2>7, ChunkBodyTypeStep
  <2>8. CASE RespBodySkipChunkBodyCRLF
    BY <1>1, <2>8, SkipCRLFTypeStep
  <2>9. CASE RespBodySkipTrailers
    BY <1>1, <2>9, TrailersTypeStep
  <2> QED
    BY <2>1, <2>2, <2>3, <2>4, <2>5, <2>6, <2>7, <2>8, <2>9 DEF ResponseStep
<1>3. RespUnchanged
  BY DEF ResponseStep, RespUnchanged, Again, vars, ownVars, buffVars, reqVars,
    RespStatusRead, RespStatusParse, RespHeaderCallback, RespHeaderRead, RespHeaderSkip,
    RespBodyFragment, RespBodyRead, RespBodyCallback, RespBodyParseChunkSize,
    ReadChunkSizeFromHeaderBuff, ReadChunkBodyFromHeaderBuff, MoveHeaderToStream,
    RespBodyReadChunkSize, ReadChunk, RespBodyParseChunkBody, RespBodyReadChunkBody,
    RespBodySkipChunkBodyCRLF, RespBodySkipTrailers
<1> QED BY <1>1, <1>2, <1>3, RespTypedEnough

-----------------------------------------------------------------------------
(* The inductive invariant.                                                *)

IInv ==
  /\ TypeOK
  /\ NoOverflow
  /\ WrittenWithinChunk
  /\ RequestPlace
  /\ NotYetConnected
  /\ ConnectionPaired
  /\ BuffersSafe

\* No response handler counts more of a chunk than the chunk has.
LEMMA ResponseWritten ==
  ASSUME TypeOK, WrittenWithinChunk, NoOverflow, ResponseStep
  PROVE  WrittenWithinChunk'
<1>1. CASE UNCHANGED <<chunkSize, chunkWritten>>
  BY <1>1 DEF WrittenWithinChunk
<1>2. CASE RespBodyParseChunkSize /\ chunkSize' \in ParsedSizes /\ chunkWritten' = 0
  BY <1>2, SizeSlotsAssumption
  DEF WrittenWithinChunk, ParsedSizes, SizesOf, Sizes, SizeSlotsAssumption
<1>3. CASE RespBodyParseChunkBody /\ chunkWritten' = chunkWritten + ChunkPart
  BY <1>3, RespTypedEnough, ChunkPartFits DEF RespBodyParseChunkBody, WrittenWithinChunk
<1>4. \/ UNCHANGED <<chunkSize, chunkWritten>>
      \/ RespBodyParseChunkSize /\ chunkSize' \in ParsedSizes /\ chunkWritten' = 0
      \/ RespBodyParseChunkBody /\ chunkWritten' = chunkWritten + ChunkPart
  BY DEF ResponseStep, Again, RecvFails, vars, respVars, parseVars,
    RespStatusRead, RespStatusParse, RespHeaderCallback, HeaderIncomplete, HeaderLine,
    HeaderRefused, HeadersEnd, RespHeaderRead, RespHeaderSkip,
    RespBodyFragment, RespBodyRead, RespBodyCallback, RespBodyParseChunkSize,
    ReadChunkSizeFromHeaderBuff, ReadChunkBodyFromHeaderBuff, MoveHeaderToStream,
    RespBodyReadChunkSize, ReadChunk, RespBodyParseChunkBody, RespBodyReadChunkBody,
    RespBodySkipChunkBodyCRLF, RespBodySkipTrailers
<1> QED BY <1>1, <1>2, <1>3, <1>4

\* What every step of a session in progress does to its resources: nothing.
Progressing ==
  /\ state \in ReqStates \cup RespStates
  /\ state' \in ReqStates \cup RespStates \cup {"CLOSE"}
  /\ UNCHANGED <<ownVars, buffVars, sock>>

\* A request handler has no way out but the next state or CLOSE.
LEMMA RequestProgresses ==
  ASSUME RequestStep
  PROVE  Progressing
<1> USE DEF Progressing, SendText, Goto, Abort, Again, vars, ReqStates, RespStates
<1>1. CASE SendReqLine
  BY <1>1 DEF SendReqLine, ReqLineSent
<1>2. CASE SendHostHeader
  BY <1>2 DEF SendHostHeader, HostHeaderSent
<1>3. CASE ReqHeader
  BY <1>3 DEF ReqHeader
<1>4. CASE SendHeader
  BY <1>4 DEF SendHeader, HeaderSent
<1>5. CASE SendHeaderCRLF
  BY <1>5 DEF SendHeaderCRLF, HeaderCRLFSent
<1>6. CASE SendHeaderEnd
  BY <1>6 DEF SendHeaderEnd, HeaderEndSent
<1>7. CASE ReqBodyRead
  BY <1>7 DEF ReqBodyRead
<1>8. CASE SendBodySize
  BY <1>8 DEF SendBodySize, BodySizeSent
<1>9. CASE SendBody
  BY <1>9 DEF SendBody, BodySent
<1>10. CASE SendBodyCRLF
  BY <1>10 DEF SendBodyCRLF, BodyCRLFSent
<1> QED
  BY <1>1, <1>2, <1>3, <1>4, <1>5, <1>6, <1>7, <1>8, <1>9, <1>10 DEF RequestStep

\* Neither has a response handler, and it never returns to the request.
LEMMA ResponseProgresses ==
  ASSUME ResponseStep
  PROVE  Progressing /\ state' \in RespStates \cup {"CLOSE"}
<1> USE DEF Progressing, RespUnchanged, Goto, Abort, Again, RecvFails, vars, RespStates
<1>1. CASE RespStatusRead \/ RespStatusParse \/ RespHeaderRead
  BY <1>1 DEF RespStatusRead, RespStatusParse, RespHeaderRead
<1>2. CASE RespHeaderCallback
  BY <1>2 DEF RespHeaderCallback, HeaderIncomplete, HeaderLine, HeaderRefused, HeadersEnd
<1>3. CASE RespHeaderSkip
  BY <1>3 DEF RespHeaderSkip
<1>4. CASE RespBodyFragment \/ RespBodyRead \/ RespBodyCallback
  BY <1>4 DEF RespBodyFragment, RespBodyRead, RespBodyCallback, WriteBody, AfterBody
<1>5. CASE RespBodyParseChunkSize \/ RespBodyReadChunkSize \/ RespBodyReadChunkBody
  BY <1>5 DEF RespBodyParseChunkSize, RespBodyReadChunkSize, RespBodyReadChunkBody, ReadChunk
<1>6. CASE ReadChunkSizeFromHeaderBuff \/ ReadChunkBodyFromHeaderBuff
  BY <1>6 DEF ReadChunkSizeFromHeaderBuff, ReadChunkBodyFromHeaderBuff, MoveHeaderToStream
<1>7. CASE RespBodyParseChunkBody \/ RespBodySkipChunkBodyCRLF \/ RespBodySkipTrailers
  BY <1>7 DEF RespBodyParseChunkBody, RespBodySkipChunkBodyCRLF, RespBodySkipTrailers
<1> QED
  BY <1>1, <1>2, <1>3, <1>4, <1>5, <1>6, <1>7 DEF ResponseStep

\* A session in progress keeps its connection and its buffers.
LEMMA ProgressKeepsResources ==
  ASSUME NotYetConnected, ConnectionPaired, BuffersSafe, Progressing
  PROVE  NotYetConnected' /\ ConnectionPaired' /\ BuffersSafe'
<1> USE DEF Progressing, ReqStates, RespStates, ownVars, buffVars
<1>1. NotYetConnected'
  BY DEF NotYetConnected
<1>2. ConnectionPaired'
  BY DEF ConnectionPaired, Connected
<1>3. BuffersSafe'
  BY DEF BuffersSafe, Held
<1> QED BY <1>1, <1>2, <1>3

\* Every request handler keeps the bounds and its place in the header list.
LEMMA RequestKeeps ==
  ASSUME TypeOK, NoOverflow, WrittenWithinChunk, RequestPlace, RequestStep
  PROVE  NoOverflow' /\ WrittenWithinChunk' /\ RequestPlace'
<1> USE DEF SendText, Goto, Abort, Again, vars, reqVars, respVars, parseVars
<1>1. WrittenWithinChunk'
  BY DEF RequestStep, WrittenWithinChunk, SendReqLine, SendHostHeader, ReqHeader, SendHeader,
    SendHeaderCRLF, SendHeaderEnd, ReqBodyRead, SendBodySize, SendBody, SendBodyCRLF
<1>2. \/ UNCHANGED sbuf
      \/ /\ ReqBodyRead
         /\ \/ sbuf' = <<>>
            \/ \E i \in DOMAIN req.pieces : sbuf' = req.pieces[i]
  <2>1. ReqBodyRead => \/ sbuf' = <<>>
                       \/ \E i \in DOMAIN req.pieces : sbuf' = req.pieces[i]
    <3> SUFFICES ASSUME ReqBodyRead, pieceIdx + 1 <= Len(req.pieces), sbuf' # <<>>
                 PROVE  \E i \in DOMAIN req.pieces : sbuf' = req.pieces[i]
      BY DEF ReqBodyRead
    <3>1. pieceIdx + 1 \in DOMAIN req.pieces
      BY RequestsAssumption DEF RequestsAssumption, IsRequest, TypeOK
    <3> QED BY <3>1 DEF ReqBodyRead
  <2> QED
    BY <2>1 DEF RequestStep, SendReqLine, ReqLineSent, SendHostHeader, HostHeaderSent, ReqHeader,
      SendHeader, HeaderSent, SendHeaderCRLF, HeaderCRLFSent, SendHeaderEnd, HeaderEndSent,
      SendBodySize, BodySizeSent, SendBody, BodySent, SendBodyCRLF, BodyCRLFSent
<1>3. ASSUME ReqBodyRead
      PROVE  Len(sbuf') <= StreamBuffSize /\ Len(sbuf') \in Sizes
  <2>1. CASE sbuf' = <<>>
    BY <2>1, EmptyFits, SizeSlotsAssumption DEF SizeSlotsAssumption, Sizes
  <2>2. ASSUME NEW i \in DOMAIN req.pieces, sbuf' = req.pieces[i]
        PROVE  Len(sbuf') <= StreamBuffSize /\ Len(sbuf') \in Sizes
    BY <2>2, PiecesFit DEF PiecesFit, TypeOK
  <2>3. sbuf' = sbuf => sbuf' = <<>> \/ \E i \in DOMAIN req.pieces : sbuf' = req.pieces[i]
    <3>1. CASE pieceIdx + 1 <= Len(req.pieces)
      <4>1. pieceIdx + 1 \in DOMAIN req.pieces
        BY <3>1, RequestsAssumption DEF RequestsAssumption, IsRequest, TypeOK
      <4> QED BY <1>3, <3>1, <4>1 DEF ReqBodyRead
    <3>2. CASE ~(pieceIdx + 1 <= Len(req.pieces))
      BY <1>3, <3>2 DEF ReqBodyRead
    <3> QED BY <3>1, <3>2
  <2> QED BY <1>2, <2>1, <2>2, <2>3
<1>4. \/ UNCHANGED hbuf
      \/ hbuf' = <<>>
  BY DEF RequestStep, SendReqLine, ReqLineSent, SendHostHeader, HostHeaderSent, ReqHeader,
      SendHeader, HeaderSent, SendHeaderCRLF, HeaderCRLFSent, SendHeaderEnd, HeaderEndSent,
      ReqBodyRead, SendBodySize, BodySizeSent, SendBody, BodySent, SendBodyCRLF, BodyCRLFSent
<1>5. NoOverflow'
  <2>1. Len(sbuf') <= StreamBuffSize
    BY <1>2, <1>3 DEF NoOverflow
  <2>2. Len(hbuf') < RespHeaderBuffSize
    BY <1>4, EmptyFits DEF NoOverflow
  <2> QED BY <2>1, <2>2 DEF NoOverflow
<1>6. RequestPlace'
  <2>1. CASE Again
    BY <2>1 DEF RequestPlace, ownVars
  <2>2. CASE ReqBodyRead
    BY <1>3, <2>2 DEF ReqBodyRead, RequestPlace
  <2>3. CASE ReqHeader
    <3>1. state' = "REQ_HEADER_SEND" => headerIdx' = headerIdx /\ headerIdx <= Len(req.headers)
      BY <2>3, RequestsAssumption
      DEF ReqHeader, NoMoreHeaders, TypeOK, RequestsAssumption, IsRequest
    <3>2. headerIdx' >= 1
      BY <2>3 DEF ReqHeader, RequestPlace, TypeOK
    <3> QED BY <2>3, <3>1, <3>2 DEF ReqHeader, RequestPlace, ownVars
  <2>4. CASE SendHostHeader
    BY <2>4 DEF SendHostHeader, HostHeaderSent, RequestPlace, TypeOK, ownVars
  <2>6. CASE SendHeader
    BY <2>6 DEF SendHeader, HeaderSent, RequestPlace, TypeOK, ownVars
  <2>7. CASE SendHeaderCRLF
    BY <2>7, SMTT(30) DEF SendHeaderCRLF, HeaderCRLFSent, RequestPlace, TypeOK, ownVars
  <2>5. CASE SendReqLine \/ SendHeaderEnd \/ SendBodySize \/ SendBody \/ SendBodyCRLF
    BY <2>5 DEF SendReqLine, ReqLineSent, SendHeaderEnd, HeaderEndSent, SendBodySize, BodySizeSent,
      SendBody, BodySent, SendBodyCRLF, BodyCRLFSent, RequestPlace
  <2> QED BY <2>2, <2>3, <2>4, <2>5, <2>6, <2>7 DEF RequestStep
<1> QED BY <1>1, <1>5, <1>6

\* The request handlers preserve the inductive invariant.
LEMMA RequestInvariant ==
  ASSUME IInv, RequestStep
  PROVE  IInv'
<1> USE DEF IInv
<1>1. TypeOK'
  BY RequestTypeStep
<1>2. NoOverflow' /\ WrittenWithinChunk' /\ RequestPlace'
  BY RequestKeeps
<1>3. NotYetConnected' /\ ConnectionPaired' /\ BuffersSafe'
  BY RequestProgresses, ProgressKeepsResources
<1> QED BY <1>1, <1>2, <1>3

\* So do the response handlers.
LEMMA ResponseInvariant ==
  ASSUME IInv, ResponseStep
  PROVE  IInv'
<1> USE DEF IInv
<1>1. TypeOK' /\ NoOverflow'
  BY ResponseTypeStep
<1>2. WrittenWithinChunk'
  BY ResponseWritten
<1>3. RequestPlace'
  BY ResponseProgresses DEF RequestPlace, RespStates
<1>4. NotYetConnected' /\ ConnectionPaired' /\ BuffersSafe'
  BY ResponseProgresses, ProgressKeepsResources
<1> QED BY <1>1, <1>2, <1>3, <1>4

-----------------------------------------------------------------------------
(* The ends of a session.                                                  *)

\* It holds initially.
LEMMA InitInvariant ==
  ASSUME Init
  PROVE  IInv
<1> USE DEF Init
<1>1. TypeOK
  <2>1. state \in States /\ result \in Codes /\ hdrBuff \in Buffers /\ strBuff \in Buffers
    BY DEF States, Codes, Buffers
  <2>2. heapLive \in 0..HeapBlocks
    BY HeapBlocksAssumption DEF HeapBlocksAssumption
  <2> QED BY <2>1, <2>2, EmptySeq DEF TypeOK
<1>2. NoOverflow
  BY EmptyFits DEF NoOverflow
<1>3. WrittenWithinChunk /\ RequestPlace /\ NotYetConnected /\ ConnectionPaired /\ BuffersSafe
  BY DEF WrittenWithinChunk, RequestPlace, NotYetConnected, ConnectionPaired, Connected,
    BuffersSafe, Held, ReqStates, RespStates
<1> QED BY <1>1, <1>2, <1>3 DEF IInv

\* What is on the wire is made of slots.
LEMMA CRLFType == CRLF \in Seq(Slots)
BY SlotsAssumption DEF SlotsAssumption, CRLF

\* Header lines, each with its end, are text.
LEMMA LinesType ==
  ASSUME NEW ls \in Seq(Seq(Slots))
  PROVE  Lines(ls) \in Seq(Slots)
<1> DEFINE texts == [i \in DOMAIN ls |-> ls[i] \o CRLF]
<1>1. \A i \in 1..Len(ls) : ls[i] \o CRLF \in Seq(Slots)
  BY CRLFType, ConcatProperties
<1>2. texts \in [1..Len(ls) -> Seq(Slots)] /\ Len(ls) \in Nat
  BY <1>1
<1>3. texts \in Seq(Seq(Slots))
  BY <1>2, FunctionSeq
<1> QED BY <1>3, FlattenType DEF Lines

SizedPieces(pieces) == \A i \in DOMAIN pieces : Len(pieces[i]) \in Sizes

Chunks(pieces) == [i \in DOMAIN pieces |-> <<SizeSlot(Len(pieces[i]))>> \o CRLF \o pieces[i] \o CRLF]

\* The size of a chunk is written in one slot.
LEMMA SizeSlotType ==
  /\ \A n \in Sizes : <<SizeSlot(n)>> \in Seq(Slots)
  /\ 0 \in Sizes
<1>1. Len(SizeSlots) \in Nat \ {0}
  BY SizeSlotsAssumption, EmptySeq DEF SizeSlotsAssumption
<1>2. ASSUME NEW n \in Sizes PROVE <<SizeSlot(n)>> \in Seq(Slots)
  <2>1. n + 1 \in 1..Len(SizeSlots)
    BY <1>1 DEF Sizes
  <2>2. SizeSlots[n + 1] \in Slots
    BY <2>1, SizeSlotsAssumption DEF SizeSlotsAssumption
  <2> QED BY <2>2 DEF SizeSlot
<1> QED BY <1>1, <1>2 DEF Sizes

\* A chunked body is the chunks one after the other and the last one.
LEMMA ChunksType ==
  ASSUME NEW pieces \in Seq(Seq(Slots)), SizedPieces(pieces)
  PROVE  /\ Chunks(pieces) \in Seq(Seq(Slots)) /\ Len(Chunks(pieces)) = Len(pieces)
         /\ ChunkedBody(pieces) = FlattenSeq(Chunks(pieces)) \o <<SizeSlot(0)>> \o CRLF \o CRLF
         /\ ChunkedBody(pieces) \in Seq(Slots)
<1>1. ASSUME NEW i \in 1..Len(pieces)
      PROVE  <<SizeSlot(Len(pieces[i]))>> \o CRLF \o pieces[i] \o CRLF \in Seq(Slots)
  <2>1. <<SizeSlot(Len(pieces[i]))>> \in Seq(Slots) /\ pieces[i] \in Seq(Slots)
    BY SizeSlotType DEF SizedPieces
  <2> QED BY <2>1, CRLFType, ConcatProperties
<1>2. Chunks(pieces) \in Seq(Seq(Slots)) /\ Len(Chunks(pieces)) = Len(pieces)
  <2>1. Chunks(pieces) \in [1..Len(pieces) -> Seq(Slots)] /\ Len(pieces) \in Nat
    BY <1>1 DEF Chunks
  <2> QED BY <2>1, FunctionSeq
<1>3. ChunkedBody(pieces) = FlattenSeq(Chunks(pieces)) \o <<SizeSlot(0)>> \o CRLF \o CRLF
  BY DEF ChunkedBody, Chunks
<1>4. FlattenSeq(Chunks(pieces)) \in Seq(Slots) /\ <<SizeSlot(0)>> \in Seq(Slots)
  BY <1>2, FlattenType, SizeSlotType
<1>5. ChunkedBody(pieces) \in Seq(Slots)
  BY <1>3, <1>4, CRLFType, ConcatProperties
<1> QED BY <1>2, <1>3, <1>5

\* What the server sends is text.
LEMMA ResponseWireType ==
  ASSUME NEW r \in Responses
  PROVE  HeadWire(r) \in Seq(Slots) /\ ResponseWire(r) \in Seq(Slots)
<1>1. /\ r.heads \in Seq(Seq(Seq(Slots) \ {<<>>}) \ {<<>>}) /\ r.chunked \in BOOLEAN
      /\ r.pieces \in Seq(Seq(Slots) \ {<<>>})
  BY ResponsesAssumption DEF ResponsesAssumption, IsResponse
<1>2. r.heads \in Seq(Seq(Seq(Slots))) /\ r.pieces \in Seq(Seq(Slots))
  <2>1. \A i \in 1..Len(r.heads) : r.heads[i] \in Seq(Seq(Slots) \ {<<>>})
    BY <1>1
  <2>2. \A s \in Seq(Seq(Slots) \ {<<>>}) : s \in Seq(Seq(Slots))
    OBVIOUS
  <2>3. \A i \in 1..Len(r.heads) : r.heads[i] \in Seq(Seq(Slots))
    BY <2>1, <2>2
  <2> QED BY <1>1, <2>2, <2>3
<1>3. HeadWire(r) \in Seq(Slots)
  <2> DEFINE texts == [i \in DOMAIN r.heads |-> Lines(r.heads[i]) \o CRLF]
  <2>1. ASSUME NEW i \in 1..Len(r.heads) PROVE Lines(r.heads[i]) \o CRLF \in Seq(Slots)
    <3>1. r.heads[i] \in Seq(Seq(Slots))
      BY <1>2
    <3>2. Lines(r.heads[i]) \in Seq(Slots)
      BY <3>1, LinesType
    <3> QED BY <3>2, CRLFType, ConcatProperties
  <2>2. texts \in [1..Len(r.heads) -> Seq(Slots)] /\ Len(r.heads) \in Nat
    BY <1>2, <2>1
  <2>3. texts \in Seq(Seq(Slots))
    BY <2>2, FunctionSeq
  <2> QED BY <2>3, FlattenType DEF HeadWire
<1>4. Payload(r) \in Seq(Slots)
  BY <1>2, FlattenType DEF Payload
<1>5. r.chunked => ChunkedBody(r.pieces) \in Seq(Slots)
  BY <1>2, ChunksType, ChunksAssumption DEF ChunksAssumption, SizedPieces
<1> QED BY <1>3, <1>4, <1>5, ConcatProperties DEF ResponseWire

\* A new request and a new response leave everything else as the reset left it.
LEMMA PerformInvariant ==
  ASSUME IInv, Perform
  PROVE  IInv'
<1> USE DEF Perform, reqVars
<1>1. req' \in Requests /\ resp' \in Responses
  BY ExchangesAssumption DEF ExchangesAssumption
<1>2. wire' \in Seq(Slots)
  <2>1. PICK n \in Cuts(resp') : wire' = SubSeq(ResponseWire(resp'), 1, n)
    BY DEF Perform
  <2>2. ResponseWire(resp') \in Seq(Slots)
    BY <1>1, ResponseWireType
  <2>3. n \in Nat /\ n <= Len(ResponseWire(resp'))
    BY <1>1, <2>2, ResponseWireType DEF Cuts
  <2> QED BY <2>1, <2>2, <2>3, PartOfSeq
<1>3. TypeOK'
  <2>1. app' \in {"idle", "performing"} /\ hdrBuff' \in Buffers /\ strBuff' \in Buffers
    BY DEF Buffers
  <2> QED BY <1>1, <1>2, <2>1 DEF IInv, TypeOK
<1>4. NoOverflow' /\ WrittenWithinChunk'
  BY DEF IInv, NoOverflow, WrittenWithinChunk
<1>5. state = "IDLE" /\ sock = "none"
  BY DEF IInv, NotYetConnected
<1>6. RequestPlace' /\ NotYetConnected' /\ ConnectionPaired'
  BY <1>5 DEF IInv, RequestPlace, NotYetConnected, ConnectionPaired, Connected, ReqStates, RespStates
<1>7. BuffersSafe'
  BY <1>5 DEF IInv, TypeOK, BuffersSafe, Held, ReqStates, RespStates
<1> QED BY <1>3, <1>4, <1>6, <1>7 DEF IInv

\* The reset after a session establishes it again.
LEMMA ReturnInvariant ==
  ASSUME IInv, Return
  PROVE  IInv'
<1> USE DEF Return, ResetExceptCb
<1>1. TypeOK'
  <2>1. state' \in States /\ result' \in Codes /\ hdrBuff' \in Buffers /\ strBuff' \in Buffers
    BY DEF States, Codes, Buffers
  <2>2. heapLive' \in 0..HeapBlocks /\ req' \in Requests /\ resp' \in Responses
    BY DEF IInv, TypeOK
  <2> QED BY <2>1, <2>2, EmptySeq DEF TypeOK
<1>2. NoOverflow'
  BY EmptyFits DEF NoOverflow
<1>3. WrittenWithinChunk' /\ RequestPlace' /\ NotYetConnected' /\ ConnectionPaired' /\ BuffersSafe'
  BY DEF IInv, TypeOK, WrittenWithinChunk, RequestPlace, NotYetConnected, ConnectionPaired,
    Connected, BuffersSafe, Held, ReqStates, RespStates
<1> QED BY <1>1, <1>2, <1>3 DEF IInv

\* Providing the buffers preserves it, whichever malloc fails.
LEMMA IdleInvariant ==
  ASSUME IInv, Idle
  PROVE  IInv'
<1> USE DEF Idle, IInv, ownVars, buffVars, reqVars, respVars, parseVars, Goto
<1>1. PICK h \in Provide(hdrBuff, heapLive) :
        LET live == heapLive + Taken(hdrBuff, h) IN
        /\ hdrBuff' = h
        /\ \E s \in (IF h = "null" THEN {strBuff} ELSE Provide(strBuff, live)) :
             /\ strBuff' = s
             /\ heapLive' = live + Taken(strBuff, s)
             /\ IF h = "null" \/ s = "null"
                  THEN state' = "FINISHED" /\ result' = "ALLOCATION"
                  ELSE Goto("CONNECT")
  BY DEF Idle
<1> DEFINE live == heapLive + Taken(hdrBuff, h)
<1>2. /\ live \in 0..HeapBlocks
      /\ h \in Buffers
      /\ live >= (IF h = "heap" THEN 1 ELSE 0) + (IF strBuff = "heap" THEN 1 ELSE 0)
      /\ h = "null" => live = heapLive
  BY HeapBlocksAssumption
  DEF Provide, Malloc, Taken, TypeOK, BuffersSafe, Held, Buffers, HeapBlocksAssumption
<1> HIDE DEF live
<1>3. PICK s \in (IF h = "null" THEN {strBuff} ELSE Provide(strBuff, live)) :
        /\ strBuff' = s
        /\ heapLive' = live + Taken(strBuff, s)
        /\ IF h = "null" \/ s = "null"
             THEN state' = "FINISHED" /\ result' = "ALLOCATION"
             ELSE Goto("CONNECT")
  BY <1>1 DEF live
<1>4. /\ heapLive' \in 0..HeapBlocks
      /\ s \in Buffers
      /\ heapLive' >= (IF h = "heap" THEN 1 ELSE 0) + (IF s = "heap" THEN 1 ELSE 0)
  BY <1>2, <1>3, HeapBlocksAssumption
  DEF Provide, Malloc, Taken, TypeOK, Buffers, HeapBlocksAssumption
<1>5. hdrBuff' = h /\ strBuff' = s /\ state' \in {"FINISHED", "CONNECT"} /\ result' \in Codes
      /\ (state' = "CONNECT" => h # "null" /\ s # "null")
  BY <1>1, <1>3 DEF Codes, TypeOK
<1>6. TypeOK'
  <2>1. state' \in States
    BY <1>5 DEF States
  <2> QED BY <1>2, <1>4, <1>5, <2>1 DEF TypeOK
<1>7. NoOverflow' /\ WrittenWithinChunk' /\ RequestPlace'
  BY <1>5 DEF NoOverflow, WrittenWithinChunk, RequestPlace
<1>8. sock = "none"
  BY DEF NotYetConnected
<1>9. NotYetConnected' /\ ConnectionPaired' /\ BuffersSafe'
  BY <1>4, <1>5, <1>8
  DEF NotYetConnected, ConnectionPaired, Connected, BuffersSafe, Held, ReqStates, RespStates
<1> QED BY <1>6, <1>7, <1>9

\* Connecting preserves it.
LEMMA ConnectInvariant ==
  ASSUME IInv, Connect
  PROVE  IInv'
<1> USE DEF Connect, IInv, ownVars, buffVars, reqVars, respVars, parseVars, Goto
<1>1. TypeOK'
  BY DEF TypeOK, States, ReqStates, Codes
<1>2. NoOverflow' /\ WrittenWithinChunk' /\ RequestPlace'
  BY DEF NoOverflow, WrittenWithinChunk, RequestPlace
<1>3. state' \in {"REQ_LINE", "FINISHED", "CONNECT"}
      /\ (state' = "REQ_LINE" <=> sock' = "open") /\ sock' # "closed"
      /\ (state' = "CONNECT" => sock' = sock)
  BY DEF ConnectionPaired, Connected, ReqStates, RespStates, BuffersSafe, NotYetConnected, Held
<1>4. NotYetConnected' /\ ConnectionPaired' /\ BuffersSafe'
  BY <1>3
  DEF NotYetConnected, ConnectionPaired, Connected, BuffersSafe, Held, ReqStates, RespStates
<1> QED BY <1>1, <1>2, <1>4

\* Closing preserves it: free is called for what malloc gave, once.
LEMMA CloseInvariant ==
  ASSUME IInv, Close
  PROVE  IInv'
<1> USE DEF Close, IInv, ownVars, reqVars, respVars, parseVars, Freed
<1>1. heapLive' \in 0..HeapBlocks
  BY HeapBlocksAssumption DEF HeapBlocksAssumption, TypeOK, BuffersSafe, Held
<1>2. TypeOK'
  <2>1. state' \in States /\ result' \in Codes /\ hdrBuff' \in Buffers /\ strBuff' \in Buffers
    BY DEF TypeOK, States, Codes, Buffers
  <2> QED BY <1>1, <2>1 DEF TypeOK
<1>3. NoOverflow' /\ WrittenWithinChunk' /\ RequestPlace'
  BY DEF NoOverflow, WrittenWithinChunk, RequestPlace
<1>4. NotYetConnected' /\ ConnectionPaired' /\ BuffersSafe'
  BY <1>1
  DEF NotYetConnected, ConnectionPaired, Connected, BuffersSafe, Held, ReqStates, RespStates
<1> QED BY <1>2, <1>3, <1>4

\* Nothing happening preserves it.
LEMMA StutterInvariant ==
  ASSUME IInv, UNCHANGED vars
  PROVE  IInv'
<1> USE DEF vars, ownVars, buffVars, reqVars, respVars, parseVars, IInv
<1>1. TypeOK' /\ NoOverflow' /\ WrittenWithinChunk'
  BY DEF TypeOK, NoOverflow, WrittenWithinChunk
<1>2. RequestPlace' /\ NotYetConnected' /\ ConnectionPaired' /\ BuffersSafe'
  BY DEF RequestPlace, NotYetConnected, ConnectionPaired, BuffersSafe, Held
<1> QED BY <1>1, <1>2

\* Every reachable state of khc satisfies the inductive invariant.
THEOREM Inductive == Spec => []IInv
<1>1. Init => IInv
  BY InitInvariant
<1>2. IInv /\ [Next]_vars => IInv'
  BY PerformInvariant, ReturnInvariant, IdleInvariant, ConnectInvariant, RequestInvariant,
    ResponseInvariant, CloseInvariant, StutterInvariant DEF Next, Handler
<1> QED BY <1>1, <1>2, PTL DEF Spec

\* Every field of struct khc keeps its type, for all messages and buffer sizes.
THEOREM TypeCorrect == Spec => []TypeOK
<1>1. IInv => TypeOK
  BY DEF IInv
<1> QED BY <1>1, Inductive, PTL

(***************************************************************************)
(* However the response is cut up and wherever it ends, no handler stores  *)
(* past the end of the header or the stream buffer.                        *)
(***************************************************************************)
THEOREM BuffersNeverOverflow == Spec => []NoOverflow
<1>1. IInv => NoOverflow
  BY DEF IInv
<1> QED BY <1>1, Inductive, PTL

(***************************************************************************)
(* The size_t subtraction by which the body handler finds the rest of a    *)
(* chunk never wraps around.                                               *)
(***************************************************************************)
THEOREM ChunkNeverOverrun == Spec => []WrittenWithinChunk
<1>1. IInv => WrittenWithinChunk
  BY DEF IInv
<1> QED BY <1>1, Inductive, PTL

(***************************************************************************)
(* A connection is open exactly in the states of a session in progress:    *)
(* each of the error paths of the handlers closes it.                      *)
(***************************************************************************)
THEOREM ConnectionAlwaysPaired == Spec => []ConnectionPaired
<1>1. IInv => ConnectionPaired
  BY DEF IInv
<1> QED BY <1>1, Inductive, PTL

(***************************************************************************)
(* The handlers never run without their buffers, no block is freed twice,  *)
(* and a session that had a connection leaves no block behind.             *)
(***************************************************************************)
THEOREM BuffersAlwaysSafe == Spec => []BuffersSafe
<1>1. IInv => BuffersSafe
  BY DEF IInv
<1> QED BY <1>1, Inductive, PTL

-----------------------------------------------------------------------------
(* The request on the wire, part by part.                                  *)

HeaderTexts(r) == [i \in DOMAIN r.headers |-> HeaderText(r.headers[i])]

\* The request up to header i, up to the end of its head, and up to chunk i.
HeadUpto(r, i) == ReqLine \o HostLine \o FlattenSeq(SubSeq(HeaderTexts(r), 1, i))
WholeHead(r) == HeadUpto(r, Len(r.headers)) \o ReqEnd(r.upload)
BodyUpto(r, i) == WholeHead(r) \o FlattenSeq(SubSeq(Chunks(r.pieces), 1, i))
SizeLine(s) == <<SizeSlot(Len(s))>> \o CRLF

\* What a request is made of.
LEMMA RequestType ==
  ASSUME NEW r \in Requests
  PROVE  /\ r.headers \in Seq(Seq(Slots)) /\ r.upload \in BOOLEAN
         /\ r.pieces \in Seq(Seq(Slots)) /\ SizedPieces(r.pieces)
         /\ Len(r.headers) \in Nat /\ Len(r.pieces) \in Nat
         /\ \A i \in 1..Len(r.headers) : r.headers[i] \in Seq(Slots)
         /\ \A i \in 1..Len(r.pieces) : r.pieces[i] \in Seq(Slots) \ {<<>>}
         /\ HeaderTexts(r) \in Seq(Seq(Slots)) /\ Len(HeaderTexts(r)) = Len(r.headers)
         /\ Chunks(r.pieces) \in Seq(Seq(Slots)) /\ Len(Chunks(r.pieces)) = Len(r.pieces)
<1>1. r.headers \in Seq(Seq(Slots)) /\ r.upload \in BOOLEAN /\ r.pieces \in Seq(Seq(Slots) \ {<<>>})
  BY RequestsAssumption DEF RequestsAssumption, IsRequest
<1>2. r.pieces \in Seq(Seq(Slots)) /\ \A i \in 1..Len(r.pieces) : r.pieces[i] \in Seq(Slots) \ {<<>>}
  BY <1>1
<1>3. SizedPieces(r.pieces)
  BY PiecesFit DEF PiecesFit, SizedPieces
<1>4. \A i \in 1..Len(r.headers) : r.headers[i] \in Seq(Slots)
  BY <1>1
<1>5. \A i \in 1..Len(r.headers) : HeaderText(r.headers[i]) \in Seq(Slots)
  <2> TAKE i \in 1..Len(r.headers)
  <2>1. r.headers[i] \o CRLF \in Seq(Slots)
    BY <1>4, CRLFType, ConcatProperties
  <2> QED BY <1>4, <2>1 DEF HeaderText
<1>6. HeaderTexts(r) \in [1..Len(r.headers) -> Seq(Slots)] /\ Len(r.headers) \in Nat
  BY <1>1, <1>5 DEF HeaderTexts
<1>7. HeaderTexts(r) \in Seq(Seq(Slots)) /\ Len(HeaderTexts(r)) = Len(r.headers)
  BY <1>6, FunctionSeq
<1>8. Chunks(r.pieces) \in Seq(Seq(Slots)) /\ Len(Chunks(r.pieces)) = Len(r.pieces)
  BY <1>2, <1>3, ChunksType
<1> QED BY <1>1, <1>2, <1>3, <1>4, <1>6, <1>7, <1>8

\* The texts that are the same in every request.
LEMMA FixedTexts ==
  /\ CRLF \in Seq(Slots) /\ ReqLine \in Seq(Slots) /\ HostLine \in Seq(Slots)
  /\ \A u \in BOOLEAN : ReqEnd(u) \in Seq(Slots)
  /\ ReqLine \o HostLine \in Seq(Slots)
<1>1. CRLF \in Seq(Slots) /\ ReqLine \in Seq(Slots) /\ HostLine \in Seq(Slots)
  BY CRLFType, SlotsAssumption DEF SlotsAssumption, ReqLine, HostLine
<1>2. \A u \in BOOLEAN : ReqEnd(u) \in Seq(Slots)
  BY CRLFType, SlotsAssumption DEF SlotsAssumption, ReqEnd
<1> QED BY <1>1, <1>2, ConcatProperties

\* What is out before a header or before a chunk is text.
LEMMA HeadType ==
  ASSUME NEW r \in Requests
  PROVE  /\ \A i \in 0..Len(r.headers) : HeadUpto(r, i) \in Seq(Slots)
         /\ WholeHead(r) \in Seq(Slots)
         /\ \A i \in 0..Len(r.pieces) : BodyUpto(r, i) \in Seq(Slots)
<1>1. \A i \in 0..Len(r.headers) : HeadUpto(r, i) \in Seq(Slots)
  <2> TAKE i \in 0..Len(r.headers)
  <2>1. SubSeq(HeaderTexts(r), 1, i) \in Seq(Seq(Slots))
    BY RequestType
  <2>2. FlattenSeq(SubSeq(HeaderTexts(r), 1, i)) \in Seq(Slots)
    BY <2>1, FlattenType
  <2> QED BY <2>2, FixedTexts, ConcatProperties DEF HeadUpto
<1>2. WholeHead(r) \in Seq(Slots)
  <2>1. Len(r.headers) \in 0..Len(r.headers) /\ r.upload \in BOOLEAN
    BY RequestType
  <2> QED BY <1>1, <2>1, FixedTexts, ConcatProperties DEF WholeHead
<1>3. \A i \in 0..Len(r.pieces) : BodyUpto(r, i) \in Seq(Slots)
  <2> TAKE i \in 0..Len(r.pieces)
  <2>1. SubSeq(Chunks(r.pieces), 1, i) \in Seq(Seq(Slots))
    BY RequestType
  <2>2. FlattenSeq(SubSeq(Chunks(r.pieces), 1, i)) \in Seq(Slots)
    BY <2>1, FlattenType
  <2> QED BY <1>2, <2>2, ConcatProperties DEF BodyUpto
<1> QED BY <1>1, <1>2, <1>3

\* One header further.
LEMMA HeadNext ==
  ASSUME NEW r \in Requests, NEW i \in 1..Len(r.headers)
  PROVE  /\ i - 1 \in 0..Len(r.headers)
         /\ r.headers[i] = <<>> => HeadUpto(r, i) = HeadUpto(r, i - 1)
         /\ r.headers[i] # <<>> => HeadUpto(r, i) = HeadUpto(r, i - 1) \o r.headers[i] \o CRLF
<1> DEFINE before == FlattenSeq(SubSeq(HeaderTexts(r), 1, i - 1))
           head == ReqLine \o HostLine
           text == HeaderTexts(r)[i]
<1>0. /\ i - 1 \in 0..Len(r.headers) /\ i - 1 \in 0..Len(HeaderTexts(r)) - 1 /\ (i - 1) + 1 = i
      /\ Len(HeaderTexts(r)) = Len(r.headers) /\ Len(r.headers) \in Nat
      /\ HeaderTexts(r) \in Seq(Seq(Slots)) /\ r.headers[i] \in Seq(Slots)
  BY RequestType
<1>1. FlattenSeq(SubSeq(HeaderTexts(r), 1, i)) = before \o text
  BY <1>0, FlattenUpto
<1>2. before \in Seq(Slots)
  <2>1. SubSeq(HeaderTexts(r), 1, i - 1) \in Seq(Seq(Slots))
    BY <1>0
  <2> QED BY <2>1, FlattenType
<1>3. text = HeaderText(r.headers[i])
  <2>1. i \in DOMAIN r.headers
    BY RequestType
  <2> QED BY <2>1 DEF HeaderTexts
<1>4. HeadUpto(r, i) = head \o (before \o text) /\ HeadUpto(r, i - 1) = head \o before
  BY <1>1 DEF HeadUpto
<1>5. head \in Seq(Slots)
  BY FixedTexts
<1> HIDE DEF before, head, text
<1>6. CASE r.headers[i] = <<>>
  <2>1. text = <<>>
    BY <1>3, <1>6 DEF HeaderText
  <2>2. before \o text = before
    BY <1>2, <2>1
  <2> QED BY <1>0, <1>4, <1>6, <2>2
<1>7. CASE r.headers[i] # <<>>
  <2>1. text = r.headers[i] \o CRLF
    BY <1>3, <1>7 DEF HeaderText
  <2> DEFINE h == r.headers[i]
  <2>2. h \in Seq(Slots) /\ CRLF \in Seq(Slots)
    BY <1>0, CRLFType
  <2> HIDE DEF h
  <2>3. head \o (before \o (h \o CRLF)) = head \o before \o h \o CRLF
    BY <1>2, <1>5, <2>2, ConcatParts, SMTT(60)
  <2> QED BY <1>0, <1>4, <1>7, <2>1, <2>3 DEF h
<1> QED BY <1>6, <1>7

\* One chunk further.
LEMMA BodyNext ==
  ASSUME NEW r \in Requests, NEW i \in 1..Len(r.pieces)
  PROVE  /\ i - 1 \in 0..Len(r.pieces) /\ SizeLine(r.pieces[i]) \in Seq(Slots)
         /\ BodyUpto(r, i) = BodyUpto(r, i - 1) \o SizeLine(r.pieces[i]) \o r.pieces[i] \o CRLF
<1> DEFINE before == FlattenSeq(SubSeq(Chunks(r.pieces), 1, i - 1))
           head == WholeHead(r)
           size == SizeLine(r.pieces[i])
<1>0. /\ i - 1 \in 0..Len(r.pieces) /\ i - 1 \in 0..Len(Chunks(r.pieces)) - 1 /\ (i - 1) + 1 = i
      /\ Chunks(r.pieces) \in Seq(Seq(Slots)) /\ r.pieces[i] \in Seq(Slots) /\ i \in DOMAIN r.pieces
  BY RequestType
<1>1. FlattenSeq(SubSeq(Chunks(r.pieces), 1, i)) = before \o Chunks(r.pieces)[i]
  BY <1>0, FlattenUpto
<1>2. before \in Seq(Slots)
  <2>1. SubSeq(Chunks(r.pieces), 1, i - 1) \in Seq(Seq(Slots))
    BY <1>0
  <2> QED BY <2>1, FlattenType
<1>3. size \in Seq(Slots) /\ <<SizeSlot(Len(r.pieces[i]))>> \in Seq(Slots)
  <2>1. Len(r.pieces[i]) \in Sizes
    BY <1>0, RequestType DEF SizedPieces
  <2> QED BY <2>1, SizeSlotType, CRLFType, ConcatProperties DEF SizeLine
<1>4. Chunks(r.pieces)[i] = size \o r.pieces[i] \o CRLF
  BY <1>0 DEF Chunks, SizeLine
<1>5. BodyUpto(r, i) = head \o (before \o (size \o r.pieces[i] \o CRLF))
      /\ BodyUpto(r, i - 1) = head \o before
  BY <1>1, <1>4 DEF BodyUpto
<1>6. head \in Seq(Slots)
  BY HeadType
<1> HIDE DEF before, head, size
<1>7. head \o (before \o (size \o r.pieces[i] \o CRLF)) = head \o before \o size \o r.pieces[i] \o CRLF
  <2> DEFINE p == r.pieces[i]
  <2>1. p \in Seq(Slots) /\ CRLF \in Seq(Slots)
    BY <1>0, CRLFType
  <2> HIDE DEF p
  <2> DEFINE sp == size \o p
             hb == head \o before
             X == sp \o CRLF
  <2>2. sp \in Seq(Slots) /\ hb \in Seq(Slots) /\ X \in Seq(Slots)
    BY <1>2, <1>3, <1>6, <2>1, ConcatProperties
  <2> HIDE DEF X
  <2>3. head \o (before \o X) = hb \o X
    <3>1. Associates(head, before, X)
      BY <1>2, <1>6, <2>2, Associative
    <3> QED BY <3>1 DEF Associates
  <2> HIDE DEF hb, sp
  <2>4. hb \o (sp \o CRLF) = (hb \o sp) \o CRLF
    <3>1. Associates(hb, sp, CRLF)
      BY <2>1, <2>2, Associative
    <3> QED BY <3>1 DEF Associates
  <2>5. hb \o (size \o p) = (hb \o size) \o p
    <3>1. Associates(hb, size, p)
      BY <1>3, <2>1, <2>2, Associative
    <3> QED BY <3>1 DEF Associates
  <2>6. head \o (before \o X) = ((hb \o size) \o p) \o CRLF
    BY <2>3, <2>4, <2>5 DEF X, sp
  <2> QED BY <2>6 DEF p, X, sp, hb
<1> QED BY <1>0, <1>3, <1>5, <1>7 DEF size

\* The whole of it.
LEMMA RequestWhole ==
  ASSUME NEW r \in Requests
  PROVE  /\ RequestWire(r) \in Seq(Slots)
         /\ SizeLine(<<>>) \in Seq(Slots)
         /\ ~r.upload => RequestWire(r) = WholeHead(r)
         /\ r.upload => /\ BodyUpto(r, 0) = WholeHead(r)
                        /\ RequestWire(r) = BodyUpto(r, Len(r.pieces)) \o SizeLine(<<>>) \o CRLF
<1> DEFINE body == FlattenSeq(Chunks(r.pieces))
<1>1. /\ SubSeq(HeaderTexts(r), 1, Len(r.headers)) = HeaderTexts(r)
      /\ SubSeq(Chunks(r.pieces), 1, Len(r.pieces)) = Chunks(r.pieces)
      /\ SubSeq(Chunks(r.pieces), 1, 0) = <<>>
  BY RequestType
<1>2. RequestWire(r) = WholeHead(r) \o (IF r.upload THEN ChunkedBody(r.pieces) ELSE <<>>)
  BY <1>1 DEF RequestWire, WholeHead, HeadUpto, HeaderTexts
<1>3. WholeHead(r) \in Seq(Slots)
  BY HeadType
<1>4. SizeLine(<<>>) = <<SizeSlot(0)>> \o CRLF /\ <<SizeSlot(0)>> \in Seq(Slots)
      /\ SizeLine(<<>>) \in Seq(Slots)
  <2>1. Len(<<>>) = 0
    OBVIOUS
  <2> QED BY <2>1, SizeSlotType, CRLFType, ConcatProperties DEF SizeLine
<1>5. body \in Seq(Slots)
  BY RequestType, FlattenType
<1>6. ~r.upload => RequestWire(r) = WholeHead(r)
  BY <1>2, <1>3
<1>7. ASSUME r.upload
      PROVE  /\ BodyUpto(r, 0) = WholeHead(r)
             /\ RequestWire(r) = BodyUpto(r, Len(r.pieces)) \o SizeLine(<<>>) \o CRLF
             /\ RequestWire(r) \in Seq(Slots)
  <2>1. BodyUpto(r, 0) = WholeHead(r)
    <3>1. FlattenSeq(SubSeq(Chunks(r.pieces), 1, 0)) = <<>>
      BY <1>1, FlattenEmpty
    <3>2. BodyUpto(r, 0) = WholeHead(r) \o <<>>
      BY <3>1 DEF BodyUpto
    <3> QED BY <3>2, <1>3
  <2>2. ChunkedBody(r.pieces) = body \o <<SizeSlot(0)>> \o CRLF \o CRLF
        /\ ChunkedBody(r.pieces) \in Seq(Slots)
    BY RequestType, ChunksType
  <2>3. BodyUpto(r, Len(r.pieces)) = WholeHead(r) \o body
    BY <1>1 DEF BodyUpto
  <2> HIDE DEF body
  <2>4. body \o <<SizeSlot(0)>> \o CRLF \o CRLF = body \o (SizeLine(<<>>) \o CRLF)
    <3>1. body \o <<SizeSlot(0)>> \o CRLF = body \o (<<SizeSlot(0)>> \o CRLF)
      <4>1. Associates(body, <<SizeSlot(0)>>, CRLF)
        BY <1>4, <1>5, CRLFType, Associative
      <4> QED BY <4>1 DEF Associates
    <3>2. (body \o SizeLine(<<>>)) \o CRLF = body \o (SizeLine(<<>>) \o CRLF)
      <4>1. Associates(body, SizeLine(<<>>), CRLF)
        BY <1>4, <1>5, CRLFType, Associative
      <4> QED BY <4>1 DEF Associates
    <3> QED BY <1>4, <3>1, <3>2
  <2>5. WholeHead(r) \o (body \o (SizeLine(<<>>) \o CRLF)) = WholeHead(r) \o body \o SizeLine(<<>>) \o CRLF
    BY <1>3, <1>4, <1>5, CRLFType, SMTT(30)
  <2>6. RequestWire(r) = BodyUpto(r, Len(r.pieces)) \o SizeLine(<<>>) \o CRLF
    BY <1>2, <1>7, <2>2, <2>3, <2>4, <2>5
  <2>7. RequestWire(r) \in Seq(Slots)
    BY <1>2, <1>3, <1>7, <2>2, ConcatProperties
  <2> QED BY <2>1, <2>6, <2>7
<1> QED BY <1>3, <1>4, <1>6, <1>7
-----------------------------------------------------------------------------
(* What is out, by the text that is being sent.                            *)

Sending(base, text) ==
  sentLength <= Len(text) /\ out = base \o SubSeq(text, 1, sentLength)

\* What the upload has read: a piece, or nothing at its end.
Uploading ==
  /\ req.upload
  /\ pieceIdx \in 1..Len(req.pieces) + 1
  /\ readReqEnd \in BOOLEAN /\ (readReqEnd <=> pieceIdx = Len(req.pieces) + 1)
  /\ sbuf = IF pieceIdx <= Len(req.pieces) THEN req.pieces[pieceIdx] ELSE <<>>

\* The parts of the request that are out, by the state.
HeadOut ==
  /\ state \in {"IDLE", "CONNECT"} => out = <<>>
  /\ state = "REQ_LINE" => Sending(<<>>, ReqLine)
  /\ state = "REQ_HOST_HEADER" => Sending(ReqLine, HostLine)
  /\ state = "REQ_HEADER" =>
       /\ headerIdx \in 1..Len(req.headers) + 1
       /\ Sending(HeadUpto(req, headerIdx - 1), <<>>)
  /\ state \in {"REQ_HEADER_SEND", "REQ_HEADER_SEND_CRLF"} =>
       headerIdx \in 1..Len(req.headers) /\ HeaderData # <<>>
  /\ state = "REQ_HEADER_SEND" => Sending(HeadUpto(req, headerIdx - 1), HeaderData)
  /\ state = "REQ_HEADER_SEND_CRLF" => Sending(HeadUpto(req, headerIdx - 1) \o HeaderData, CRLF)
  /\ state = "REQ_HEADER_END" => Sending(HeadUpto(req, Len(req.headers)), ReqEnd(req.upload))

BodyOut ==
  /\ state \in {"IDLE", "CONNECT", "REQ_LINE", "REQ_HOST_HEADER", "REQ_HEADER", "REQ_HEADER_SEND",
                "REQ_HEADER_SEND_CRLF", "REQ_HEADER_END"} => pieceIdx = 0
  /\ state = "REQ_BODY_READ" =>
       /\ req.upload /\ pieceIdx \in 0..Len(req.pieces) /\ readReqEnd = FALSE
       /\ Sending(BodyUpto(req, pieceIdx), <<>>)
  /\ state \in {"REQ_BODY_SEND_SIZE", "REQ_BODY_SEND", "REQ_BODY_SEND_CRLF"} => Uploading
  /\ state = "REQ_BODY_SEND_SIZE" => Sending(BodyUpto(req, pieceIdx - 1), SizeLine(sbuf))
  /\ state = "REQ_BODY_SEND" =>
       pieceIdx <= Len(req.pieces) /\ Sending(BodyUpto(req, pieceIdx - 1) \o SizeLine(sbuf), sbuf)
  /\ state = "REQ_BODY_SEND_CRLF" =>
       Sending(BodyUpto(req, pieceIdx - 1) \o SizeLine(sbuf) \o sbuf, CRLF)

\* Nothing but the request is out, all of it once the response is read.
EndOut ==
  /\ state \in RespStates => out = RequestWire(req)
  /\ state \in {"CLOSE", "FINISHED"} => IsPrefix(out, RequestWire(req))

RequestOut == HeadOut /\ BodyOut /\ EndOut

\* A text sent up to some slot, after what comes before it, leaves a prefix out.
LEMMA OutPrefix ==
  ASSUME NEW w \in Seq(Slots), NEW base \in Seq(Slots), NEW text \in Seq(Slots),
         IsPrefix(base \o text, w), sentLength \in Nat, Sending(base, text)
  PROVE  IsPrefix(out, w)
<1> DEFINE part == SubSeq(text, 1, sentLength)
<1>1. sentLength <= Len(text) /\ out = base \o part
  BY DEF Sending
<1>2. /\ part \in Seq(Slots) /\ Len(part) <= Len(text)
      /\ \A i \in 1..Len(part) : part[i] = text[i]
  BY <1>1
<1> HIDE DEF part
<1>3. IsPrefix(part, text)
  BY <1>2, PrefixByElement
<1>4. IsPrefix(base \o part, base \o text)
  BY <1>2, <1>3, PrefixConcat
<1>5. base \o part \in Seq(Slots) /\ base \o text \in Seq(Slots)
  BY <1>2, ConcatProperties
<1> QED BY <1>1, <1>4, <1>5, PrefixTransitive

\* The parts of the head are beginnings of the request.
LEMMA HeadPrefix ==
  ASSUME NEW r \in Requests
  PROVE  /\ IsPrefix(<<>>, RequestWire(r))
         /\ IsPrefix(ReqLine, RequestWire(r)) /\ IsPrefix(ReqLine \o HostLine, RequestWire(r))
         /\ \A i \in 0..Len(r.headers) : IsPrefix(HeadUpto(r, i), RequestWire(r))
         /\ IsPrefix(WholeHead(r), RequestWire(r))
<1> DEFINE n == Len(r.headers)
           head == ReqLine \o HostLine
<1>1. /\ RequestWire(r) \in Seq(Slots) /\ WholeHead(r) \in Seq(Slots)
      /\ n \in 0..n /\ HeadUpto(r, n) \in Seq(Slots) /\ r.upload \in BOOLEAN
      /\ head \in Seq(Slots) /\ ReqLine \in Seq(Slots) /\ HostLine \in Seq(Slots)
  <2>1. n \in 0..n /\ r.upload \in BOOLEAN
    BY RequestType
  <2>2. HeadUpto(r, n) \in Seq(Slots) /\ WholeHead(r) \in Seq(Slots)
    BY <2>1, HeadType
  <2> QED BY <2>1, <2>2, RequestWhole, FixedTexts
<1>2. IsPrefix(WholeHead(r), RequestWire(r))
  <2>1. CASE r.upload
    <3>1. RequestWire(r) = WholeHead(r) \o ChunkedBody(r.pieces)
      <4>1. SubSeq(HeaderTexts(r), 1, n) = HeaderTexts(r)
        BY RequestType
      <4> QED BY <2>1, <4>1 DEF RequestWire, WholeHead, HeadUpto, HeaderTexts
    <3>2. ChunkedBody(r.pieces) \in Seq(Slots)
      BY RequestType, ChunksType
    <3> QED BY <1>1, <3>1, <3>2, PrefixOfConcat
  <2>2. CASE ~r.upload
    <3>1. RequestWire(r) = WholeHead(r)
      BY <2>2, RequestWhole
    <3> QED BY <1>1, <3>1, PrefixByElement
  <2> QED BY <1>1, <2>1, <2>2
<1>3. IsPrefix(HeadUpto(r, n), RequestWire(r))
  <2>1. IsPrefix(HeadUpto(r, n), WholeHead(r))
    BY <1>1, FixedTexts, PrefixOfConcat DEF WholeHead
  <2> QED BY <1>1, <1>2, <2>1, PrefixTransitive
<1>4. \A i \in 0..n : IsPrefix(HeadUpto(r, i), RequestWire(r))
  <2> TAKE i \in 0..n
  <2> DEFINE part == FlattenSeq(SubSeq(HeaderTexts(r), 1, i))
  <2>1. IsPrefix(part, FlattenSeq(HeaderTexts(r)))
    BY RequestType, FlattenPrefix
  <2>2. FlattenSeq(HeaderTexts(r)) \in Seq(Slots)
    BY RequestType, FlattenType
  <2>3. part \in Seq(Slots)
    <3>1. SubSeq(HeaderTexts(r), 1, i) \in Seq(Seq(Slots))
      BY RequestType
    <3> QED BY <3>1, FlattenType
  <2>4. HeadUpto(r, i) = head \o part /\ HeadUpto(r, n) = head \o FlattenSeq(HeaderTexts(r))
    <3>1. SubSeq(HeaderTexts(r), 1, n) = HeaderTexts(r)
      BY RequestType
    <3> QED BY <3>1 DEF HeadUpto
  <2>5. HeadUpto(r, i) \in Seq(Slots)
    BY HeadType
  <2> HIDE DEF part, head
  <2>6. IsPrefix(HeadUpto(r, i), HeadUpto(r, n))
    BY <1>1, <2>1, <2>2, <2>3, <2>4, PrefixConcat
  <2> QED BY <1>1, <1>3, <2>5, <2>6, PrefixTransitive
<1>5. IsPrefix(head, RequestWire(r))
  <2>1. 0 \in 0..n
    BY RequestType
  <2>2. FlattenSeq(SubSeq(HeaderTexts(r), 1, 0)) = <<>>
    <3>1. SubSeq(HeaderTexts(r), 1, 0) = <<>>
      BY RequestType
    <3> QED BY <3>1, FlattenEmpty
  <2>3. HeadUpto(r, 0) = head
    <3>1. HeadUpto(r, 0) = head \o <<>>
      BY <2>2 DEF HeadUpto
    <3> HIDE DEF head
    <3> QED BY <1>1, <3>1, ConcatEmptySeq
  <2> QED BY <1>4, <2>1, <2>3
<1>6. IsPrefix(ReqLine, RequestWire(r))
  <2>1. IsPrefix(ReqLine, head)
    BY <1>1, PrefixOfConcat
  <2> QED BY <1>1, <1>5, <2>1, PrefixTransitive
<1>7. IsPrefix(<<>>, RequestWire(r))
  <2> DEFINE none == <<>>
  <2>1. none \in Seq(Slots) /\ none \o RequestWire(r) = RequestWire(r)
    BY <1>1
  <2> HIDE DEF none
  <2>2. IsPrefix(none, none \o RequestWire(r))
    BY <1>1, <2>1, PrefixOfConcat
  <2> QED BY <2>1, <2>2 DEF none
<1> QED BY <1>2, <1>4, <1>5, <1>6, <1>7

\* So are the parts of the body.
LEMMA BodyPrefix ==
  ASSUME NEW r \in Requests, r.upload
  PROVE  \A i \in 0..Len(r.pieces) : IsPrefix(BodyUpto(r, i), RequestWire(r))
<1> DEFINE n == Len(r.pieces)
           tail == SizeLine(<<>>) \o CRLF
<1>1. /\ RequestWire(r) \in Seq(Slots) /\ n \in 0..n /\ BodyUpto(r, n) \in Seq(Slots)
      /\ SizeLine(<<>>) \in Seq(Slots) /\ CRLF \in Seq(Slots)
      /\ RequestWire(r) = BodyUpto(r, n) \o SizeLine(<<>>) \o CRLF
  <2>1. n \in 0..n
    BY RequestType
  <2>2. BodyUpto(r, n) \in Seq(Slots)
    BY <2>1, HeadType
  <2> QED BY <2>1, <2>2, RequestWhole, CRLFType
<1>2. IsPrefix(BodyUpto(r, n), RequestWire(r))
  <2>1. BodyUpto(r, n) \o SizeLine(<<>>) \in Seq(Slots)
    BY <1>1, ConcatProperties
  <2>2. IsPrefix(BodyUpto(r, n), BodyUpto(r, n) \o SizeLine(<<>>))
    BY <1>1, PrefixOfConcat
  <2>3. IsPrefix(BodyUpto(r, n) \o SizeLine(<<>>), RequestWire(r))
    BY <1>1, <2>1, PrefixOfConcat
  <2> QED BY <1>1, <2>1, <2>2, <2>3, PrefixTransitive
<1>3. ASSUME NEW i \in 0..n PROVE IsPrefix(BodyUpto(r, i), RequestWire(r))
  <2> DEFINE part == FlattenSeq(SubSeq(Chunks(r.pieces), 1, i))
  <2>1. IsPrefix(part, FlattenSeq(Chunks(r.pieces)))
    BY RequestType, FlattenPrefix
  <2>2. FlattenSeq(Chunks(r.pieces)) \in Seq(Slots)
    BY RequestType, FlattenType
  <2>3. part \in Seq(Slots)
    <3>1. SubSeq(Chunks(r.pieces), 1, i) \in Seq(Seq(Slots))
      BY RequestType
    <3> QED BY <3>1, FlattenType
  <2>4. BodyUpto(r, i) = WholeHead(r) \o part
        /\ BodyUpto(r, n) = WholeHead(r) \o FlattenSeq(Chunks(r.pieces))
    <3>1. SubSeq(Chunks(r.pieces), 1, n) = Chunks(r.pieces)
      BY RequestType
    <3> QED BY <3>1 DEF BodyUpto
  <2>5. BodyUpto(r, i) \in Seq(Slots) /\ WholeHead(r) \in Seq(Slots)
    BY HeadType
  <2> HIDE DEF part
  <2>6. IsPrefix(BodyUpto(r, i), BodyUpto(r, n))
    BY <2>1, <2>2, <2>3, <2>4, <2>5, PrefixConcat
  <2> QED BY <1>1, <1>2, <2>5, <2>6, PrefixTransitive
<1> QED BY <1>3

\* Where the upload stands, what was sent of it and what is sent now.
LEMMA UploadParts ==
  ASSUME req \in Requests, Uploading
  PROVE  /\ pieceIdx - 1 \in 0..Len(req.pieces)
         /\ sbuf \in Seq(Slots) /\ SizeLine(sbuf) \in Seq(Slots)
         /\ BodyUpto(req, pieceIdx - 1) \in Seq(Slots)
         /\ BodyUpto(req, pieceIdx - 1) \o SizeLine(sbuf) \in Seq(Slots)
         /\ BodyUpto(req, pieceIdx - 1) \o SizeLine(sbuf) \o sbuf \in Seq(Slots)
         /\ BodyUpto(req, pieceIdx - 1) \o SizeLine(sbuf) \o sbuf \o CRLF \in Seq(Slots)
         /\ ~readReqEnd => /\ pieceIdx \in 1..Len(req.pieces) /\ sbuf # <<>>
                           /\ BodyUpto(req, pieceIdx - 1) \o SizeLine(sbuf) \o sbuf \o CRLF
                                = BodyUpto(req, pieceIdx)
         /\ readReqEnd => /\ pieceIdx = Len(req.pieces) + 1 /\ sbuf = <<>>
                          /\ BodyUpto(req, pieceIdx - 1) \o SizeLine(sbuf) \o sbuf \o CRLF
                               = RequestWire(req)
         /\ IsPrefix(BodyUpto(req, pieceIdx - 1) \o SizeLine(sbuf) \o sbuf \o CRLF, RequestWire(req))
<1>1. /\ req.upload /\ pieceIdx \in 1..Len(req.pieces) + 1 /\ Len(req.pieces) \in Nat
      /\ readReqEnd \in BOOLEAN /\ (readReqEnd <=> pieceIdx = Len(req.pieces) + 1)
      /\ sbuf = IF pieceIdx <= Len(req.pieces) THEN req.pieces[pieceIdx] ELSE <<>>
      /\ CRLF \in Seq(Slots)
  BY RequestType, CRLFType DEF Uploading
<1>2. pieceIdx - 1 \in 0..Len(req.pieces)
  BY <1>1
<1>3. BodyUpto(req, pieceIdx - 1) \in Seq(Slots)
  BY <1>2, HeadType
<1>4. CASE pieceIdx \in 1..Len(req.pieces)
  <2>1. sbuf = req.pieces[pieceIdx] /\ ~readReqEnd
    BY <1>1, <1>4
  <2>2. sbuf \in Seq(Slots) /\ sbuf # <<>>
    BY <1>4, <2>1, RequestType
  <2>3. /\ SizeLine(sbuf) \in Seq(Slots)
        /\ BodyUpto(req, pieceIdx) = BodyUpto(req, pieceIdx - 1) \o SizeLine(sbuf) \o sbuf \o CRLF
    BY <1>4, <2>1, BodyNext
  <2>4. /\ BodyUpto(req, pieceIdx - 1) \o SizeLine(sbuf) \in Seq(Slots)
        /\ BodyUpto(req, pieceIdx - 1) \o SizeLine(sbuf) \o sbuf \in Seq(Slots)
        /\ BodyUpto(req, pieceIdx - 1) \o SizeLine(sbuf) \o sbuf \o CRLF \in Seq(Slots)
    BY <1>1, <1>3, <2>2, <2>3, ConcatProperties
  <2>5. IsPrefix(BodyUpto(req, pieceIdx), RequestWire(req))
    <3>1. pieceIdx \in 0..Len(req.pieces)
      BY <1>1, <1>4
    <3> QED BY <1>1, <3>1, BodyPrefix
  <2> QED BY <1>2, <1>3, <1>4, <2>1, <2>2, <2>3, <2>4, <2>5
<1>5. CASE pieceIdx = Len(req.pieces) + 1
  <2>1. sbuf = <<>> /\ readReqEnd /\ pieceIdx - 1 = Len(req.pieces)
    BY <1>1, <1>5
  <2>2. SizeLine(sbuf) \in Seq(Slots) /\ sbuf \in Seq(Slots)
        /\ RequestWire(req) = BodyUpto(req, pieceIdx - 1) \o SizeLine(sbuf) \o CRLF
        /\ RequestWire(req) \in Seq(Slots)
    BY <1>1, <2>1, RequestWhole, EmptySeq
  <2>3. /\ BodyUpto(req, pieceIdx - 1) \o SizeLine(sbuf) \in Seq(Slots)
        /\ BodyUpto(req, pieceIdx - 1) \o SizeLine(sbuf) \o sbuf
             = BodyUpto(req, pieceIdx - 1) \o SizeLine(sbuf)
    <3>1. BodyUpto(req, pieceIdx - 1) \o SizeLine(sbuf) \in Seq(Slots)
      BY <1>3, <2>2, ConcatProperties
    <3>2. (BodyUpto(req, pieceIdx - 1) \o SizeLine(sbuf)) \o <<>>
            = BodyUpto(req, pieceIdx - 1) \o SizeLine(sbuf)
      BY <3>1, ConcatEmptySeq
    <3> QED BY <2>1, <3>1, <3>2
  <2>4. IsPrefix(RequestWire(req), RequestWire(req))
    BY <2>2, PrefixReflexive
  <2> QED BY <1>2, <1>3, <1>5, <2>1, <2>2, <2>3, <2>4
<1>6. pieceIdx \in 1..Len(req.pieces) \/ pieceIdx = Len(req.pieces) + 1
  BY <1>1
<1> QED BY <1>4, <1>5, <1>6, Zenon

\* The text being sent is in every state a part of the request.
LEMMA OutFaithful ==
  ASSUME TypeOK, RequestOut
  PROVE  RequestFaithful
<1>0. req \in Requests /\ sentLength \in Nat /\ state \in States
  BY DEF TypeOK
<1>1. /\ RequestWire(req) \in Seq(Slots) /\ Len(req.headers) \in Nat
      /\ ReqLine \in Seq(Slots) /\ HostLine \in Seq(Slots) /\ CRLF \in Seq(Slots)
      /\ ReqLine \o HostLine \in Seq(Slots) /\ ReqEnd(req.upload) \in Seq(Slots)
      /\ <<>> \in Seq(Slots) /\ req.upload \in BOOLEAN
  BY <1>0, RequestWhole, RequestType, FixedTexts, EmptySeq
<1> USE DEF RequestOut
<1>2. CASE state \in {"IDLE", "CONNECT"}
  BY <1>0, <1>2, HeadPrefix DEF HeadOut, RequestFaithful, RespStates
<1>3. CASE state = "REQ_LINE"
  <2>1. Sending(<<>>, ReqLine) /\ <<>> \o ReqLine = ReqLine
    BY <1>1, <1>3 DEF HeadOut
  <2>2. IsPrefix(<<>> \o ReqLine, RequestWire(req))
    BY <1>0, <2>1, HeadPrefix
  <2>3. IsPrefix(out, RequestWire(req))
    BY <1>0, <1>1, <2>1, <2>2, OutPrefix
  <2> QED BY <1>3, <2>3 DEF RequestFaithful, RespStates
<1>4. CASE state = "REQ_HOST_HEADER"
  <2>1. Sending(ReqLine, HostLine) /\ IsPrefix(ReqLine \o HostLine, RequestWire(req))
    BY <1>0, <1>4, HeadPrefix DEF HeadOut
  <2>2. IsPrefix(out, RequestWire(req))
    BY <1>0, <1>1, <2>1, OutPrefix
  <2> QED BY <1>4, <2>2 DEF RequestFaithful, RespStates
<1>5. CASE state = "REQ_HEADER"
  <2>1. headerIdx - 1 \in 0..Len(req.headers) /\ Sending(HeadUpto(req, headerIdx - 1), <<>>)
    BY <1>1, <1>5 DEF HeadOut
  <2> DEFINE head == HeadUpto(req, headerIdx - 1)
  <2>2. head \in Seq(Slots) /\ IsPrefix(head, RequestWire(req))
    BY <1>0, <2>1, HeadType, HeadPrefix
  <2> HIDE DEF head
  <2>3. IsPrefix(head \o <<>>, RequestWire(req))
    BY <2>2, ConcatEmptySeq
  <2>4. IsPrefix(out, RequestWire(req))
    BY <1>0, <1>1, <2>1, <2>2, <2>3, OutPrefix DEF head
  <2> QED BY <1>5, <2>4 DEF RequestFaithful, RespStates
<1>6. CASE state \in {"REQ_HEADER_SEND", "REQ_HEADER_SEND_CRLF"}
  <2>1. headerIdx \in 1..Len(req.headers) /\ HeaderData # <<>>
    BY <1>6 DEF HeadOut
  <2> DEFINE head == HeadUpto(req, headerIdx - 1)
  <2>2. /\ head \in Seq(Slots) /\ HeaderData \in Seq(Slots)
        /\ HeadUpto(req, headerIdx) = head \o HeaderData \o CRLF
        /\ HeadUpto(req, headerIdx) \in Seq(Slots)
        /\ IsPrefix(HeadUpto(req, headerIdx), RequestWire(req))
    <3>1. headerIdx \in 0..Len(req.headers) /\ headerIdx - 1 \in 0..Len(req.headers)
      BY <1>1, <2>1
    <3>2. HeadUpto(req, headerIdx) = head \o HeaderData \o CRLF
      BY <1>0, <2>1, HeadNext DEF HeaderData
    <3>3. HeaderData \in Seq(Slots)
      BY <1>0, <2>1, RequestType DEF HeaderData
    <3>4. IsPrefix(HeadUpto(req, headerIdx), RequestWire(req))
      BY <1>0, <3>1, HeadPrefix
    <3> QED BY <1>0, <3>1, <3>2, <3>3, <3>4, HeadType
  <2>3. \/ state = "REQ_HEADER_SEND" /\ Sending(head, HeaderData)
        \/ state = "REQ_HEADER_SEND_CRLF" /\ Sending(head \o HeaderData, CRLF)
    BY <1>6 DEF HeadOut
  <2> HIDE DEF head
  <2>4. head \o HeaderData \in Seq(Slots)
    BY <2>2, ConcatProperties
  <2>5. IsPrefix(head \o HeaderData, head \o HeaderData \o CRLF)
    BY <1>1, <2>4, PrefixOfConcat
  <2>6. IsPrefix(head \o HeaderData, RequestWire(req))
    BY <1>1, <2>2, <2>4, <2>5, PrefixTransitive
  <2>7. IsPrefix(head \o HeaderData \o CRLF, RequestWire(req))
    BY <2>2
  <2>8. Sending(head, HeaderData) => IsPrefix(out, RequestWire(req))
    BY <1>0, <1>1, <2>2, <2>6, OutPrefix
  <2>9. Sending(head \o HeaderData, CRLF) => IsPrefix(out, RequestWire(req))
    BY <1>0, <1>1, <2>4, <2>7, OutPrefix
  <2> QED BY <1>6, <2>3, <2>8, <2>9 DEF RequestFaithful, RespStates
<1>7. CASE state = "REQ_HEADER_END"
  <2>1. Sending(HeadUpto(req, Len(req.headers)), ReqEnd(req.upload))
    BY <1>7 DEF HeadOut
  <2>2. HeadUpto(req, Len(req.headers)) \in Seq(Slots)
    <3>1. Len(req.headers) \in 0..Len(req.headers)
      BY <1>1
    <3> QED BY <1>0, <3>1, HeadType
  <2>3. IsPrefix(HeadUpto(req, Len(req.headers)) \o ReqEnd(req.upload), RequestWire(req))
    BY <1>0, HeadPrefix DEF WholeHead
  <2>4. IsPrefix(out, RequestWire(req))
    BY <1>0, <1>1, <2>1, <2>2, <2>3, OutPrefix
  <2> QED BY <1>7, <2>4 DEF RequestFaithful, RespStates
<1>8. CASE state = "REQ_BODY_READ"
  <2>1. /\ req.upload /\ pieceIdx \in 0..Len(req.pieces) /\ Sending(BodyUpto(req, pieceIdx), <<>>)
    BY <1>8 DEF BodyOut
  <2> DEFINE body == BodyUpto(req, pieceIdx)
  <2>2. body \in Seq(Slots) /\ IsPrefix(body, RequestWire(req))
    BY <1>0, <2>1, HeadType, BodyPrefix
  <2> HIDE DEF body
  <2>3. IsPrefix(body \o <<>>, RequestWire(req))
    BY <2>2, ConcatEmptySeq
  <2>4. IsPrefix(out, RequestWire(req))
    BY <1>0, <1>1, <2>1, <2>2, <2>3, OutPrefix DEF body
  <2> QED BY <1>8, <2>4 DEF RequestFaithful, RespStates
<1>9. CASE state \in {"REQ_BODY_SEND_SIZE", "REQ_BODY_SEND", "REQ_BODY_SEND_CRLF"}
  <2> DEFINE body == BodyUpto(req, pieceIdx - 1)
             size == SizeLine(sbuf)
  <2>1. Uploading
    BY <1>9 DEF BodyOut
  <2>2. /\ sbuf \in Seq(Slots) /\ size \in Seq(Slots) /\ body \in Seq(Slots)
        /\ body \o size \in Seq(Slots) /\ body \o size \o sbuf \in Seq(Slots)
        /\ body \o size \o sbuf \o CRLF \in Seq(Slots)
        /\ IsPrefix(body \o size \o sbuf \o CRLF, RequestWire(req))
    BY <1>0, <2>1, UploadParts
  <2>3. \/ state = "REQ_BODY_SEND_SIZE" /\ Sending(body, size)
        \/ state = "REQ_BODY_SEND" /\ Sending(body \o size, sbuf)
        \/ state = "REQ_BODY_SEND_CRLF" /\ Sending(body \o size \o sbuf, CRLF)
    BY <1>9 DEF BodyOut
  <2> HIDE DEF body, size
  <2>4. IsPrefix(body \o size \o sbuf, RequestWire(req))
    <3>1. IsPrefix(body \o size \o sbuf, body \o size \o sbuf \o CRLF)
      BY <1>1, <2>2, PrefixOfConcat
    <3> QED BY <1>1, <2>2, <3>1, PrefixTransitive
  <2>5. IsPrefix(body \o size, RequestWire(req))
    <3>1. IsPrefix(body \o size, body \o size \o sbuf)
      BY <2>2, PrefixOfConcat
    <3> QED BY <1>1, <2>2, <2>4, <3>1, PrefixTransitive
  <2>6. Sending(body, size) => IsPrefix(out, RequestWire(req))
    BY <1>0, <1>1, <2>2, <2>5, OutPrefix
  <2>7. Sending(body \o size, sbuf) => IsPrefix(out, RequestWire(req))
    BY <1>0, <1>1, <2>2, <2>4, OutPrefix
  <2>8. Sending(body \o size \o sbuf, CRLF) => IsPrefix(out, RequestWire(req))
    BY <1>0, <1>1, <2>2, OutPrefix
  <2> QED BY <1>9, <2>3, <2>6, <2>7, <2>8 DEF RequestFaithful, RespStates
<1>10. CASE state \in {"CLOSE", "FINISHED"}
  BY <1>10 DEF EndOut, RequestFaithful, RespStates
<1>11. CASE state \in RespStates
  BY <1>1, <1>11, PrefixReflexive DEF EndOut, RequestFaithful
<1> QED BY <1>0, <1>2, <1>3, <1>4, <1>5, <1>6, <1>7, <1>8, <1>9, <1>10, <1>11
        DEF States, ReqStates

-----------------------------------------------------------------------------
(* One call of cb_sock_send more.                                          *)

\* It takes a part of the text, or the rest of it.
Partial(text) ==
  \E k \in 0..Len(text) - sentLength :
    /\ out' = out \o SubSeq(text, sentLength + 1, sentLength + k)
    /\ sentLength + k < Len(text) /\ sentLength' = sentLength + k
    /\ UNCHANGED <<state, headerIdx, pieceIdx, readReqEnd, sbuf>>

Finishing(text) ==
  \E k \in 0..Len(text) - sentLength :
    /\ out' = out \o SubSeq(text, sentLength + 1, sentLength + k)
    /\ ~(sentLength + k < Len(text)) /\ sentLength' = 0

Failing == state' = "CLOSE" /\ UNCHANGED <<out, req>>

\* What was sent of a text and what is sent next make one part of it.
LEMMA PartsJoin ==
  ASSUME NEW base \in Seq(Slots), NEW text \in Seq(Slots), NEW m \in Nat, NEW n \in Nat,
         m <= n, n <= Len(text)
  PROVE  (base \o SubSeq(text, 1, m)) \o SubSeq(text, m + 1, n) = base \o SubSeq(text, 1, n)
<1> DEFINE a == SubSeq(text, 1, m)
           b == SubSeq(text, m + 1, n)
           c == SubSeq(text, 1, n)
<1>1. a \in Seq(Slots) /\ b \in Seq(Slots) /\ c \in Seq(Slots)
  OBVIOUS
<1>2. Len(a) = m /\ Len(b) = n - m /\ Len(c) = n
  OBVIOUS
<1>3. /\ \A i \in 1..m : a[i] = text[i]
      /\ \A i \in 1..n - m : b[i] = text[m + i]
      /\ \A i \in 1..n : c[i] = text[i]
  OBVIOUS
<1> HIDE DEF a, b, c
<1>4. a \o b \in Seq(Slots) /\ Len(a \o b) = Len(c)
  BY <1>1, <1>2
<1>5. ASSUME NEW i \in 1..n PROVE (a \o b)[i] = c[i]
  <2>1. CASE i <= m
    <3>1. i \in 1..m /\ i \in 1..Len(a)
      BY <1>2, <2>1
    <3>2. (a \o b)[i] = a[i]
      BY <1>1, <3>1
    <3> QED BY <1>3, <3>1, <3>2
  <2>2. CASE m < i
    <3>1. i - m \in 1..n - m /\ m + (i - m) = i /\ i \in Len(a) + 1..Len(a) + Len(b)
      BY <1>2, <2>2
    <3>2. (a \o b)[i] = b[i - m]
      BY <1>1, <1>2, <3>1, ConcatProperties
    <3>3. b[i - m] = text[m + (i - m)]
      BY <1>3, <3>1
    <3> QED BY <1>3, <3>1, <3>2, <3>3
  <2>3. i <= m \/ m < i
    OBVIOUS
  <2> QED BY <2>1, <2>2, <2>3, Zenon
<1>6. a \o b = c
  <2>1. \A i \in 1..Len(a \o b) : (a \o b)[i] = c[i]
    BY <1>2, <1>4, <1>5
  <2> QED BY <1>1, <1>4, <2>1, SeqEqual
<1>7. (base \o a) \o b = base \o (a \o b)
  <2>1. Associates(base, a, b)
    BY <1>1, Associative
  <2> QED BY <2>1 DEF Associates
<1> QED BY <1>6, <1>7 DEF a, b, c

\* The same for a part of k slots.
Joined(base, text, m, k) == (base \o SubSeq(text, 1, m)) \o SubSeq(text, m + 1, m + k) = base \o SubSeq(text, 1, m + k)
LEMMA PartJoins ==
  ASSUME NEW base \in Seq(Slots), NEW text \in Seq(Slots), NEW m \in Nat, NEW k \in Nat, m + k <= Len(text)
  PROVE  Joined(base, text, m, k)
<1> DEFINE n == m + k
<1>1. n \in Nat /\ m <= n /\ n <= Len(text)
  OBVIOUS
<1> HIDE DEF n
<1>2. (base \o SubSeq(text, 1, m)) \o SubSeq(text, m + 1, n) = base \o SubSeq(text, 1, n)
  BY <1>1, PartsJoin
<1> QED BY <1>2 DEF Joined, n

\* A send that does not finish its text puts a longer part of it out.
LEMMA PartialSent ==
  ASSUME NEW base \in Seq(Slots), NEW text \in Seq(Slots), sentLength \in Nat,
         Sending(base, text), Partial(text)
  PROVE  sentLength' <= Len(text) /\ out' = base \o SubSeq(text, 1, sentLength')
<1>1. PICK k \in 0..Len(text) - sentLength :
        /\ out' = out \o SubSeq(text, sentLength + 1, sentLength + k)
        /\ sentLength + k < Len(text) /\ sentLength' = sentLength + k
  BY DEF Partial
<1>2. sentLength <= Len(text) /\ out = base \o SubSeq(text, 1, sentLength)
  BY DEF Sending
<1>3. /\ sentLength' \in Nat /\ sentLength <= sentLength' /\ sentLength' <= Len(text)
      /\ sentLength' = sentLength + k
  BY <1>1
<1>4. out' = (base \o SubSeq(text, 1, sentLength)) \o SubSeq(text, sentLength + 1, sentLength')
  BY <1>1, <1>2
<1> QED BY <1>3, <1>4, PartsJoin

\* A send that finishes its text has put all of it out.
LEMMA FinishingSent ==
  ASSUME NEW base \in Seq(Slots), NEW text \in Seq(Slots), sentLength \in Nat,
         Sending(base, text), Finishing(text)
  PROVE  sentLength' = 0 /\ out' = base \o text
<1>1. PICK k \in 0..Len(text) - sentLength :
        /\ out' = out \o SubSeq(text, sentLength + 1, sentLength + k)
        /\ ~(sentLength + k < Len(text)) /\ sentLength' = 0
  BY DEF Finishing
<1>2. sentLength <= Len(text) /\ out = base \o SubSeq(text, 1, sentLength) /\ Len(text) \in Nat
  BY DEF Sending
<1>3. sentLength + k = Len(text)
  BY <1>1, <1>2
<1>4. out' = (base \o SubSeq(text, 1, sentLength)) \o SubSeq(text, sentLength + 1, Len(text))
  BY <1>1, <1>2, <1>3
<1>5. SubSeq(text, 1, Len(text)) = text
  OBVIOUS
<1>6. Len(text) \in Nat /\ Len(text) <= Len(text)
  BY <1>2
<1>7. out' = base \o SubSeq(text, 1, Len(text))
  BY <1>2, <1>4, <1>6, PartsJoin
<1> QED BY <1>1, <1>5, <1>7

\* A text to be sent begins with nothing of it out.
LEMMA NothingSent ==
  ASSUME NEW text \in Seq(Slots), NEW base \in Seq(Slots)
  PROVE  0 <= Len(text) /\ base \o SubSeq(text, 1, 0) = base
<1>1. SubSeq(text, 1, 0) = <<>> /\ Len(text) \in Nat
  OBVIOUS
<1> QED BY <1>1, ConcatEmptySeq

\* A session that fails leaves out what was out.
LEMMA Closes ==
  ASSUME TypeOK, RequestOut, state' \in {"CLOSE", "FINISHED"}, UNCHANGED <<out, req>>
  PROVE  RequestOut'
<1>1. IsPrefix(out, RequestWire(req))
  BY OutFaithful DEF RequestFaithful
<1> QED BY <1>1 DEF RequestOut, HeadOut, BodyOut, EndOut, RespStates

\* A step that changes nothing keeps what is out.
LEMMA OutStutters ==
  ASSUME RequestOut, UNCHANGED vars
  PROVE  RequestOut'
<1>1. UNCHANGED <<state, req, headerIdx, sentLength, pieceIdx, readReqEnd, out, sbuf>>
  BY DEF vars, ownVars, reqVars
<1>2. HeadOut'
  <2>1. HeadOut
    BY DEF RequestOut
  <2> QED BY <1>1, <2>1 DEF HeadOut, Sending, HeaderData
<1>3. BodyOut'
  <2>1. BodyOut
    BY DEF RequestOut
  <2> QED BY <1>1, <2>1 DEF BodyOut, Sending, Uploading
<1>4. EndOut'
  BY <1>1 DEF EndOut, RequestOut
<1> QED BY <1>2, <1>3, <1>4 DEF RequestOut

-----------------------------------------------------------------------------
(* The handlers.                                                           *)

\* The request line is followed by the Host header.
LEMMA LineOut ==
  ASSUME TypeOK, RequestOut, SendReqLine
  PROVE  RequestOut'
<1> USE DEF RequestOut
<1>1. /\ state = "REQ_LINE" /\ sentLength \in Nat /\ req \in Requests /\ pieceIdx = 0
      /\ Sending(<<>>, ReqLine) /\ <<>> \in Seq(Slots) /\ ReqLine \in Seq(Slots) /\ HostLine \in Seq(Slots)
  BY FixedTexts, EmptySeq DEF SendReqLine, TypeOK, HeadOut, BodyOut
<1>2. CASE Again
  BY <1>2, OutStutters DEF Again
<1>3. ASSUME SendText(ReqLine, ReqLineSent)
      PROVE  /\ UNCHANGED req
             /\ Partial(ReqLine) \/ (Finishing(ReqLine) /\ ReqLineSent) \/ Failing
  BY <1>3 DEF SendText, Partial, Finishing, Failing, Abort, ownVars, reqVars
<1>4. CASE SendText(ReqLine, ReqLineSent) /\ Partial(ReqLine)
  <2>1. sentLength' <= Len(ReqLine) /\ out' = <<>> \o SubSeq(ReqLine, 1, sentLength')
    BY <1>1, <1>4, PartialSent
  <2>2. state' = "REQ_LINE" /\ pieceIdx' = 0
    BY <1>1, <1>4 DEF Partial
  <2> QED BY <2>1, <2>2 DEF HeadOut, BodyOut, EndOut, Sending, RespStates
<1>5. CASE SendText(ReqLine, ReqLineSent) /\ Finishing(ReqLine) /\ ReqLineSent
  <2>1. sentLength' = 0 /\ out' = <<>> \o ReqLine
    BY <1>1, <1>5, FinishingSent
  <2>2. state' = "REQ_HOST_HEADER" /\ pieceIdx' = 0
    BY <1>1, <1>5 DEF ReqLineSent, Goto
  <2>3. <<>> \o ReqLine = ReqLine
    BY <1>1, ConcatEmptySeq
  <2>4. 0 <= Len(HostLine) /\ ReqLine \o SubSeq(HostLine, 1, 0) = ReqLine
    BY <1>1, NothingSent
  <2> QED BY <2>1, <2>2, <2>3, <2>4 DEF HeadOut, BodyOut, EndOut, Sending, RespStates
<1>6. CASE Failing
  BY <1>6, Closes DEF Failing
<1> QED BY <1>2, <1>3, <1>4, <1>5, <1>6 DEF SendReqLine

\* Before the first header, and behind the last.
LEMMA HeadEnds ==
  ASSUME NEW r \in Requests
  PROVE  HeadUpto(r, 0) = ReqLine \o HostLine
<1>1. SubSeq(HeaderTexts(r), 1, 0) = <<>>
  BY RequestType
<1>2. HeadUpto(r, 0) = (ReqLine \o HostLine) \o <<>>
  BY <1>1, FlattenEmpty DEF HeadUpto
<1> QED BY <1>2, FixedTexts, ConcatEmptySeq

\* The Host header is followed by the headers of the application.
LEMMA HostOut ==
  ASSUME TypeOK, RequestOut, SendHostHeader
  PROVE  RequestOut'
<1> USE DEF RequestOut
<1>1. /\ state = "REQ_HOST_HEADER" /\ sentLength \in Nat /\ req \in Requests /\ pieceIdx = 0
      /\ Sending(ReqLine, HostLine) /\ ReqLine \in Seq(Slots) /\ HostLine \in Seq(Slots)
      /\ <<>> \in Seq(Slots) /\ ReqLine \o HostLine \in Seq(Slots)
  BY FixedTexts, EmptySeq DEF SendHostHeader, TypeOK, HeadOut, BodyOut
<1>2. CASE Again
  BY <1>2, OutStutters DEF Again
<1>3. ASSUME SendText(HostLine, HostHeaderSent)
      PROVE  /\ UNCHANGED req
             /\ Partial(HostLine) \/ (Finishing(HostLine) /\ HostHeaderSent) \/ Failing
  BY <1>3 DEF SendText, Partial, Finishing, Failing, Abort, ownVars, reqVars
<1>4. CASE SendText(HostLine, HostHeaderSent) /\ Partial(HostLine)
  <2>1. sentLength' <= Len(HostLine) /\ out' = ReqLine \o SubSeq(HostLine, 1, sentLength')
    BY <1>1, <1>4, PartialSent
  <2>2. state' = "REQ_HOST_HEADER" /\ pieceIdx' = 0
    BY <1>1, <1>4 DEF Partial
  <2> QED BY <2>1, <2>2 DEF HeadOut, BodyOut, EndOut, Sending, RespStates
<1>5. CASE SendText(HostLine, HostHeaderSent) /\ Finishing(HostLine) /\ HostHeaderSent
  <2>1. sentLength' = 0 /\ out' = ReqLine \o HostLine
    BY <1>1, <1>5, FinishingSent
  <2>2. state' = "REQ_HEADER" /\ pieceIdx' = 0 /\ headerIdx' = 1 /\ req' = req
    BY <1>1, <1>3, <1>5 DEF HostHeaderSent, Goto
  <2>3. 1 \in 1..Len(req.headers) + 1 /\ 1 - 1 = 0
    BY <1>1, RequestType
  <2>4. 0 <= Len(<<>>) /\ out' = HeadUpto(req, 0) \o SubSeq(<<>>, 1, 0)
    <3>1. out' = HeadUpto(req, 0) /\ HeadUpto(req, 0) \in Seq(Slots)
      BY <1>1, <2>1, HeadEnds
    <3> HIDE DEF HeadUpto
    <3> QED BY <1>1, <3>1, NothingSent
  <2>5. Sending(HeadUpto(req, headerIdx - 1), <<>>)'
    BY <2>1, <2>2, <2>3, <2>4 DEF Sending
  <2> QED BY <2>2, <2>3, <2>5 DEF HeadOut, BodyOut, EndOut, RespStates
<1>6. CASE Failing
  BY <1>6, Closes DEF Failing
<1> QED BY <1>2, <1>3, <1>4, <1>5, <1>6 DEF SendHostHeader

\* The handler that takes the next header sends nothing.
LEMMA HeaderOut ==
  ASSUME TypeOK, RequestOut, ReqHeader
  PROVE  RequestOut'
<1> USE DEF RequestOut
<1>1. /\ state = "REQ_HEADER" /\ req \in Requests /\ pieceIdx = 0
      /\ headerIdx \in 1..Len(req.headers) + 1 /\ Len(req.headers) \in Nat
      /\ Sending(HeadUpto(req, headerIdx - 1), <<>>)
      /\ UNCHANGED <<req, sentLength, pieceIdx, out>> /\ sentLength \in Nat
  BY RequestType DEF ReqHeader, TypeOK, HeadOut, BodyOut, ownVars
<1>2. HeadUpto(req, headerIdx - 1) \in Seq(Slots)
  <2>1. headerIdx - 1 \in 0..Len(req.headers)
    BY <1>1
  <2> QED BY <1>1, <2>1, HeadType
<1>3. sentLength = 0 /\ out = HeadUpto(req, headerIdx - 1)
  <2>1. sentLength = 0
    BY <1>1 DEF Sending
  <2>2. HeadUpto(req, headerIdx - 1) \o SubSeq(<<>>, 1, 0) = HeadUpto(req, headerIdx - 1)
    BY <1>2, NothingSent, EmptySeq
  <2> QED BY <1>1, <2>1, <2>2 DEF Sending
<1>4. CASE NoMoreHeaders
  <2>1. headerIdx - 1 = Len(req.headers)
    BY <1>1, <1>4 DEF NoMoreHeaders
  <2>2. state' = "REQ_HEADER_END"
    BY <1>4 DEF ReqHeader, Goto
  <2>3. ReqEnd(req.upload) \in Seq(Slots)
    BY <1>1, RequestType, FixedTexts
  <2>4. /\ 0 <= Len(ReqEnd(req.upload))
        /\ out = HeadUpto(req, Len(req.headers)) \o SubSeq(ReqEnd(req.upload), 1, 0)
    BY <1>2, <1>3, <2>1, <2>3, NothingSent
  <2>5. Sending(HeadUpto(req, Len(req.headers)), ReqEnd(req.upload))'
    BY <1>1, <1>3, <2>4 DEF Sending
  <2> QED BY <1>1, <2>2, <2>5 DEF HeadOut, BodyOut, EndOut, RespStates
<1>5. CASE ~NoMoreHeaders
  <2>1. headerIdx \in 1..Len(req.headers)
    BY <1>1, <1>5 DEF NoMoreHeaders
  <2>2. CASE HeaderData = <<>>
    <3>1. headerIdx' = headerIdx + 1 /\ state' = state
      BY <1>5, <2>2 DEF ReqHeader
    <3>2. HeadUpto(req, headerIdx) = HeadUpto(req, headerIdx - 1)
      BY <1>1, <2>1, <2>2, HeadNext DEF HeaderData
    <3>3. headerIdx' - 1 = headerIdx /\ headerIdx' \in 1..Len(req.headers) + 1
      BY <1>1, <2>1, <3>1
    <3>4. Sending(HeadUpto(req, headerIdx - 1), <<>>)'
      BY <1>1, <3>2, <3>3 DEF Sending
    <3> QED BY <1>1, <3>1, <3>3, <3>4 DEF HeadOut, BodyOut, EndOut, RespStates
  <2>3. CASE HeaderData # <<>>
    <3>1. state' = "REQ_HEADER_SEND" /\ headerIdx' = headerIdx
      BY <1>5, <2>3 DEF ReqHeader, Goto
    <3>2. HeaderData \in Seq(Slots) /\ HeaderData' = HeaderData
      BY <1>1, <2>1, <3>1, RequestType DEF HeaderData
    <3>3. 0 <= Len(HeaderData) /\ out = HeadUpto(req, headerIdx - 1) \o SubSeq(HeaderData, 1, 0)
      BY <1>2, <1>3, <3>2, NothingSent
    <3>4. Sending(HeadUpto(req, headerIdx - 1), HeaderData)'
      BY <1>1, <1>3, <3>1, <3>2, <3>3 DEF Sending
    <3> QED BY <1>1, <2>1, <2>3, <3>1, <3>2, <3>4 DEF HeadOut, BodyOut, EndOut, RespStates
  <2> QED BY <2>2, <2>3
<1> QED BY <1>4, <1>5

\* A header is followed by its CRLF.
LEMMA SendHeaderOut ==
  ASSUME TypeOK, RequestOut, SendHeader
  PROVE  RequestOut'
<1> USE DEF RequestOut
<1> DEFINE head == HeadUpto(req, headerIdx - 1)
<1>1. /\ state = "REQ_HEADER_SEND" /\ sentLength \in Nat /\ req \in Requests /\ pieceIdx = 0
      /\ headerIdx \in 1..Len(req.headers) /\ HeaderData # <<>> /\ Sending(head, HeaderData)
  BY DEF SendHeader, TypeOK, HeadOut, BodyOut
<1>2. head \in Seq(Slots) /\ HeaderData \in Seq(Slots) /\ CRLF \in Seq(Slots)
  <2>1. headerIdx - 1 \in 0..Len(req.headers)
    BY <1>1, HeadNext
  <2>2. HeaderData \in Seq(Slots)
    BY <1>1, RequestType DEF HeaderData
  <2> QED BY <1>1, <2>1, <2>2, HeadType, CRLFType
<1>3. CASE Again
  BY <1>3, OutStutters DEF Again
<1>4. ASSUME SendText(HeaderData, HeaderSent)
      PROVE  /\ UNCHANGED req
             /\ Partial(HeaderData) \/ (Finishing(HeaderData) /\ HeaderSent) \/ Failing
  BY <1>4 DEF SendText, Partial, Finishing, Failing, Abort, ownVars, reqVars
<1>5. CASE SendText(HeaderData, HeaderSent) /\ Partial(HeaderData)
  <2> HIDE DEF head
  <2>1. sentLength' <= Len(HeaderData) /\ out' = head \o SubSeq(HeaderData, 1, sentLength')
    BY <1>1, <1>2, <1>5, PartialSent
  <2>2. state' = "REQ_HEADER_SEND" /\ pieceIdx' = 0 /\ headerIdx' = headerIdx /\ req' = req
    BY <1>1, <1>4, <1>5 DEF Partial
  <2>3. HeaderData' = HeaderData /\ HeadUpto(req, headerIdx - 1)' = head
    BY <2>2 DEF HeaderData, head
  <2>4. Sending(HeadUpto(req, headerIdx - 1), HeaderData)'
    BY <2>1, <2>3 DEF Sending
  <2> QED BY <1>1, <2>2, <2>3, <2>4 DEF HeadOut, BodyOut, EndOut, RespStates
<1>6. CASE SendText(HeaderData, HeaderSent) /\ Finishing(HeaderData) /\ HeaderSent
  <2> HIDE DEF head
  <2>1. sentLength' = 0 /\ out' = head \o HeaderData
    BY <1>1, <1>2, <1>6, FinishingSent
  <2>2. state' = "REQ_HEADER_SEND_CRLF" /\ pieceIdx' = 0 /\ headerIdx' = headerIdx /\ req' = req
    BY <1>1, <1>4, <1>6 DEF HeaderSent, Goto
  <2>3. HeaderData' = HeaderData /\ HeadUpto(req, headerIdx - 1)' = head
    BY <2>2 DEF HeaderData, head
  <2>4. 0 <= Len(CRLF) /\ (head \o HeaderData) \o SubSeq(CRLF, 1, 0) = head \o HeaderData
    BY <1>2, ConcatProperties, NothingSent
  <2>5. Sending(HeadUpto(req, headerIdx - 1) \o HeaderData, CRLF)'
    BY <2>1, <2>3, <2>4 DEF Sending, CRLF
  <2> QED BY <1>1, <2>2, <2>3, <2>5 DEF HeadOut, BodyOut, EndOut, RespStates
<1>7. CASE Failing
  BY <1>7, Closes DEF Failing
<1> QED BY <1>3, <1>4, <1>5, <1>6, <1>7 DEF SendHeader

\* The CRLF of a header is followed by the next header, if there is one.
LEMMA SendHeaderCRLFOut ==
  ASSUME TypeOK, RequestOut, SendHeaderCRLF
  PROVE  RequestOut'
<1> USE DEF RequestOut
<1> DEFINE head == HeadUpto(req, headerIdx - 1) \o HeaderData
<1>1. /\ state = "REQ_HEADER_SEND_CRLF" /\ sentLength \in Nat /\ req \in Requests /\ pieceIdx = 0
      /\ headerIdx \in 1..Len(req.headers) /\ HeaderData # <<>> /\ Sending(head, CRLF)
  BY DEF SendHeaderCRLF, TypeOK, HeadOut, BodyOut
<1>2. /\ head \in Seq(Slots) /\ CRLF \in Seq(Slots) /\ HeadUpto(req, headerIdx) = head \o CRLF
      /\ HeadUpto(req, headerIdx) \in Seq(Slots)
  <2>1. /\ headerIdx - 1 \in 0..Len(req.headers) /\ headerIdx \in 0..Len(req.headers)
        /\ HeadUpto(req, headerIdx) = head \o CRLF
    <3>1. Len(req.headers) \in Nat
      BY <1>1, RequestType
    <3>2. req.headers[headerIdx] # <<>>
      BY <1>1 DEF HeaderData
    <3>3. HeadUpto(req, headerIdx) = HeadUpto(req, headerIdx - 1) \o req.headers[headerIdx] \o CRLF
      BY <1>1, <3>2, HeadNext
    <3> QED BY <1>1, <3>1, <3>3 DEF HeaderData
  <2>2. HeaderData \in Seq(Slots) /\ HeadUpto(req, headerIdx - 1) \in Seq(Slots)
    BY <1>1, <2>1, RequestType, HeadType DEF HeaderData
  <2>3. head \in Seq(Slots)
    BY <2>2, ConcatProperties
  <2>4. HeadUpto(req, headerIdx) \in Seq(Slots)
    BY <1>1, <2>1, HeadType
  <2> QED BY <2>1, <2>3, <2>4, CRLFType
<1>3. CASE Again
  BY <1>3, OutStutters DEF Again
<1>4. ASSUME SendText(CRLF, HeaderCRLFSent)
      PROVE  /\ UNCHANGED req
             /\ Partial(CRLF) \/ (Finishing(CRLF) /\ HeaderCRLFSent) \/ Failing
  BY <1>4 DEF SendText, Partial, Finishing, Failing, Abort, ownVars, reqVars
<1>5. CASE SendText(CRLF, HeaderCRLFSent) /\ Partial(CRLF)
  <2> HIDE DEF head
  <2>1. sentLength' <= Len(CRLF) /\ out' = head \o SubSeq(CRLF, 1, sentLength')
    BY <1>1, <1>2, <1>5, PartialSent
  <2>2. state' = "REQ_HEADER_SEND_CRLF" /\ pieceIdx' = 0 /\ headerIdx' = headerIdx /\ req' = req
    BY <1>1, <1>4, <1>5 DEF Partial
  <2>3. HeaderData' = HeaderData /\ (HeadUpto(req, headerIdx - 1) \o HeaderData)' = head
    BY <2>2 DEF HeaderData, head
  <2>4. Sending(HeadUpto(req, headerIdx - 1) \o HeaderData, CRLF)'
    BY <2>1, <2>3 DEF Sending, CRLF
  <2> QED BY <1>1, <2>2, <2>3, <2>4 DEF HeadOut, BodyOut, EndOut, RespStates
<1>6. CASE SendText(CRLF, HeaderCRLFSent) /\ Finishing(CRLF) /\ HeaderCRLFSent
  <2> HIDE DEF head
  <2>1. sentLength' = 0 /\ out' = head \o CRLF
    BY <1>1, <1>2, <1>6, FinishingSent
  <2>2. state' = "REQ_HEADER" /\ pieceIdx' = 0 /\ headerIdx' = headerIdx + 1 /\ req' = req
    BY <1>1, <1>4, <1>6 DEF HeaderCRLFSent, Goto
  <2>3. headerIdx' \in 1..Len(req.headers) + 1 /\ headerIdx' - 1 = headerIdx
    <3>1. Len(req.headers) \in Nat
      BY <1>1, RequestType
    <3> QED BY <1>1, <2>2, <3>1
  <2>4. 0 <= Len(<<>>) /\ HeadUpto(req, headerIdx) \o SubSeq(<<>>, 1, 0) = HeadUpto(req, headerIdx)
    BY <1>2, EmptySeq, NothingSent
  <2>5. Sending(HeadUpto(req, headerIdx - 1), <<>>)'
    BY <1>2, <2>1, <2>2, <2>3, <2>4 DEF Sending
  <2> QED BY <1>1, <2>2, <2>3, <2>5 DEF HeadOut, BodyOut, EndOut, RespStates
<1>7. CASE Failing
  BY <1>7, Closes DEF Failing
<1> QED BY <1>3, <1>4, <1>5, <1>6, <1>7 DEF SendHeaderCRLF

\* The end of the headers is followed by the body, or by the response.
LEMMA SendHeaderEndOut ==
  ASSUME TypeOK, RequestOut, SendHeaderEnd
  PROVE  RequestOut'
<1> USE DEF RequestOut
<1> DEFINE head == HeadUpto(req, Len(req.headers))
           end == ReqEnd(req.upload)
<1>1. /\ state = "REQ_HEADER_END" /\ sentLength \in Nat /\ req \in Requests /\ pieceIdx = 0
      /\ Sending(head, end)
  BY DEF SendHeaderEnd, TypeOK, HeadOut, BodyOut
<1>2. head \in Seq(Slots) /\ end \in Seq(Slots) /\ req.upload \in BOOLEAN /\ Len(req.pieces) \in Nat
  <2>1. Len(req.headers) \in 0..Len(req.headers) /\ req.upload \in BOOLEAN /\ Len(req.pieces) \in Nat
    BY <1>1, RequestType
  <2> QED BY <1>1, <2>1, HeadType, FixedTexts
<1>3. CASE Again
  BY <1>3, OutStutters DEF Again
<1>4. ASSUME SendText(end, HeaderEndSent)
      PROVE  /\ UNCHANGED req
             /\ Partial(end) \/ (Finishing(end) /\ HeaderEndSent) \/ Failing
  BY <1>4 DEF SendText, Partial, Finishing, Failing, Abort, ownVars, reqVars
<1>5. CASE SendText(end, HeaderEndSent) /\ Partial(end)
  <2>1. state' = "REQ_HEADER_END" /\ pieceIdx' = 0 /\ req' = req
    BY <1>1, <1>4, <1>5 DEF Partial
  <2>2. head' = head /\ end' = end
    BY <2>1
  <2> HIDE DEF head, end
  <2>3. sentLength' <= Len(end) /\ out' = head \o SubSeq(end, 1, sentLength')
    BY <1>1, <1>2, <1>5, PartialSent
  <2>4. Sending(head, end)'
    BY <2>2, <2>3 DEF Sending
  <2> QED BY <2>1, <2>4 DEF HeadOut, BodyOut, EndOut, RespStates, head, end
<1>6. CASE SendText(end, HeaderEndSent) /\ Finishing(end) /\ HeaderEndSent
  <2>1. /\ state' = IF req.upload THEN "REQ_BODY_READ" ELSE "RESP_STATUS_READ"
        /\ pieceIdx' = 0 /\ req' = req /\ readReqEnd' = FALSE
    BY <1>1, <1>4, <1>6 DEF HeaderEndSent, Goto
  <2>2. head \o end = WholeHead(req)
    BY DEF WholeHead
  <2> HIDE DEF head, end
  <2>3. sentLength' = 0 /\ out' = WholeHead(req)
    BY <1>1, <1>2, <1>6, <2>2, FinishingSent
  <2>4. CASE req.upload
    <3>1. out' = BodyUpto(req, 0) /\ BodyUpto(req, 0) \in Seq(Slots) /\ 0 \in 0..Len(req.pieces)
      BY <1>1, <1>2, <2>3, <2>4, RequestWhole, HeadType
    <3>2. 0 <= Len(<<>>) /\ BodyUpto(req, 0) \o SubSeq(<<>>, 1, 0) = BodyUpto(req, 0)
      BY <3>1, EmptySeq, NothingSent
    <3>3. Sending(BodyUpto(req, pieceIdx), <<>>)'
      BY <2>1, <2>3, <3>1, <3>2 DEF Sending
    <3> QED BY <2>1, <2>4, <3>1, <3>3 DEF HeadOut, BodyOut, EndOut, RespStates
  <2>5. CASE ~req.upload
    <3>1. out' = RequestWire(req)
      BY <1>1, <2>3, <2>5, RequestWhole
    <3> QED BY <2>1, <2>5, <3>1 DEF HeadOut, BodyOut, EndOut, RespStates
  <2> QED BY <2>4, <2>5
<1>7. CASE Failing
  BY <1>7, Closes DEF Failing
<1> QED BY <1>3, <1>4, <1>5, <1>6, <1>7 DEF SendHeaderEnd

\* What cb_read delivers is the next chunk, or the last one.
LEMMA BodyReadOut ==
  ASSUME TypeOK, RequestOut, ReqBodyRead
  PROVE  RequestOut'
<1> USE DEF RequestOut
<1>1. /\ state = "REQ_BODY_READ" /\ sentLength \in Nat /\ req \in Requests
      /\ req.upload /\ pieceIdx \in 0..Len(req.pieces) /\ readReqEnd = FALSE
      /\ Sending(BodyUpto(req, pieceIdx), <<>>) /\ Len(req.pieces) \in Nat
  BY RequestType DEF ReqBodyRead, TypeOK, HeadOut, BodyOut
<1>2. /\ state' = "REQ_BODY_SEND_SIZE" /\ pieceIdx' = pieceIdx + 1
      /\ UNCHANGED <<req, sentLength, out>>
      /\ sbuf' = IF pieceIdx' <= Len(req.pieces) THEN req.pieces[pieceIdx'] ELSE <<>>
      /\ readReqEnd' = (sbuf' = <<>> \/ readReqEnd)
  BY DEF ReqBodyRead, Goto, ownVars
<1>3. Uploading'
  <2>1. pieceIdx' \in 1..Len(req.pieces) + 1
    BY <1>1, <1>2
  <2>2. CASE pieceIdx' <= Len(req.pieces)
    <3>1. sbuf' # <<>>
      <4>1. pieceIdx' \in 1..Len(req.pieces)
        BY <1>1, <2>1, <2>2
      <4> QED BY <1>1, <1>2, <2>2, <4>1, RequestType
    <3>2. readReqEnd' = FALSE
      BY <1>1, <1>2, <3>1
    <3>3. pieceIdx' # Len(req.pieces) + 1
      BY <1>1, <2>1, <2>2
    <3> QED BY <1>1, <1>2, <2>1, <3>2, <3>3 DEF Uploading
  <2>3. CASE ~(pieceIdx' <= Len(req.pieces))
    <3>1. sbuf' = <<>>
      BY <1>2, <2>3
    <3>2. readReqEnd' = TRUE
      BY <1>1, <1>2, <3>1
    <3>3. pieceIdx' = Len(req.pieces) + 1
      BY <1>1, <2>1, <2>3
    <3> QED BY <1>1, <1>2, <2>1, <3>2, <3>3 DEF Uploading
  <2> QED BY <2>2, <2>3
<1>4. BodyUpto(req, pieceIdx) \in Seq(Slots)
  BY <1>1, HeadType
<1>5. sentLength = 0 /\ out = BodyUpto(req, pieceIdx)
  <2>1. sentLength = 0
    BY <1>1 DEF Sending
  <2>2. BodyUpto(req, pieceIdx) \o SubSeq(<<>>, 1, 0) = BodyUpto(req, pieceIdx)
    BY <1>4, EmptySeq, NothingSent
  <2> QED BY <1>1, <2>1, <2>2 DEF Sending
<1>6. Sending(BodyUpto(req, pieceIdx - 1), SizeLine(sbuf))'
  <2>1. SizeLine(sbuf)' \in Seq(Slots)
    <3>1. req' \in Requests
      BY <1>1, <1>2
    <3>2. (req \in Requests /\ Uploading => SizeLine(sbuf) \in Seq(Slots))'
      BY UploadParts, PTL
    <3> QED BY <1>3, <3>1, <3>2
  <2>2. pieceIdx' - 1 = pieceIdx
    BY <1>1, <1>2
  <2>3. 0 <= Len(SizeLine(sbuf')) /\ BodyUpto(req, pieceIdx) \o SubSeq(SizeLine(sbuf'), 1, 0) = BodyUpto(req, pieceIdx)
    <3> DEFINE text == SizeLine(sbuf')
    <3>1. text \in Seq(Slots)
      BY <2>1
    <3> HIDE DEF text
    <3> QED BY <1>4, <3>1, NothingSent DEF text
  <2> QED BY <1>2, <1>5, <2>2, <2>3 DEF Sending
<1> QED BY <1>2, <1>3, <1>6 DEF HeadOut, BodyOut, EndOut, RespStates

\* The size line of a chunk is followed by its data.
LEMMA SendBodySizeOut ==
  ASSUME TypeOK, RequestOut, SendBodySize
  PROVE  RequestOut'
<1> USE DEF RequestOut
<1> DEFINE body == BodyUpto(req, pieceIdx - 1)
           size == SizeLine(sbuf)
<1>1. /\ state = "REQ_BODY_SEND_SIZE" /\ sentLength \in Nat /\ req \in Requests /\ Uploading
      /\ Sending(body, size)
  BY DEF SendBodySize, TypeOK, HeadOut, BodyOut
<1>2. /\ body \in Seq(Slots) /\ size \in Seq(Slots) /\ sbuf \in Seq(Slots) /\ body \o size \in Seq(Slots)
      /\ readReqEnd \in BOOLEAN /\ CRLF \in Seq(Slots)
      /\ ~readReqEnd => pieceIdx <= Len(req.pieces)
      /\ readReqEnd => sbuf = <<>>
  <2>1. readReqEnd \in BOOLEAN
    BY <1>1 DEF Uploading
  <2>2. Len(req.pieces) \in Nat
    BY <1>1, RequestType
  <2>3. ~readReqEnd => pieceIdx <= Len(req.pieces)
    BY <1>1, <2>2, UploadParts
  <2> QED BY <1>1, <2>1, <2>3, UploadParts, CRLFType
<1>3. CASE Again
  BY <1>3, OutStutters DEF Again
<1>4. ASSUME SendText(<<SizeSlot(Len(sbuf))>> \o CRLF, BodySizeSent)
      PROVE  /\ UNCHANGED req
             /\ Partial(size) \/ (Finishing(size) /\ BodySizeSent) \/ Failing
  BY <1>4 DEF SendText, Partial, Finishing, Failing, Abort, ownVars, reqVars, SizeLine
<1>5. CASE UNCHANGED req /\ Partial(size)
  <2>1. UNCHANGED <<state, pieceIdx, req, sbuf, readReqEnd>>
    BY <1>5 DEF Partial
  <2>2. body' = body /\ size' = size /\ Uploading'
    BY <1>1, <2>1 DEF Uploading
  <2> HIDE DEF body, size
  <2>3. sentLength' <= Len(size) /\ out' = body \o SubSeq(size, 1, sentLength')
    BY <1>1, <1>2, <1>5, PartialSent
  <2>4. Sending(body, size)'
    BY <2>2, <2>3 DEF Sending
  <2> QED BY <1>1, <2>1, <2>2, <2>4 DEF HeadOut, BodyOut, EndOut, RespStates, body, size
<1>6. CASE UNCHANGED req /\ Finishing(size) /\ BodySizeSent
  <2>1. /\ state' = IF readReqEnd THEN "REQ_BODY_SEND_CRLF" ELSE "REQ_BODY_SEND"
        /\ UNCHANGED <<pieceIdx, req, sbuf, readReqEnd>>
    BY <1>6 DEF BodySizeSent, Goto
  <2>2. body' = body /\ size' = size /\ Uploading'
    BY <1>1, <2>1 DEF Uploading
  <2> HIDE DEF body, size
  <2>3. sentLength' = 0 /\ out' = body \o size
    BY <1>1, <1>2, <1>6, FinishingSent
  <2>4. CASE readReqEnd
    <3>1. sbuf = <<>> /\ body \o size \o sbuf = body \o size
      BY <1>2, <2>4, ConcatEmptySeq
    <3>2. 0 <= Len(CRLF) /\ (body \o size) \o SubSeq(CRLF, 1, 0) = body \o size
      BY <1>2, NothingSent
    <3>3. Sending(body \o size \o sbuf, CRLF)'
      BY <2>1, <2>2, <2>3, <3>1, <3>2 DEF Sending, CRLF
    <3> QED BY <2>1, <2>2, <2>4, <3>3 DEF HeadOut, BodyOut, EndOut, RespStates, body, size
  <2>5. CASE ~readReqEnd
    <3>1. 0 <= Len(sbuf) /\ (body \o size) \o SubSeq(sbuf, 1, 0) = body \o size
      BY <1>2, NothingSent
    <3>2. Sending(body \o size, sbuf)' /\ pieceIdx' <= Len(req'.pieces)
      BY <1>2, <2>1, <2>2, <2>3, <2>5, <3>1 DEF Sending
    <3> QED BY <2>1, <2>2, <2>5, <3>2 DEF HeadOut, BodyOut, EndOut, RespStates, body, size
  <2> QED BY <2>4, <2>5
<1>7. CASE Failing
  BY <1>7, Closes DEF Failing
<1> QED BY <1>3, <1>4, <1>5, <1>6, <1>7 DEF SendBodySize

\* The data of a chunk is followed by its CRLF.
LEMMA SendBodyOut ==
  ASSUME TypeOK, RequestOut, SendBody
  PROVE  RequestOut'
<1> USE DEF RequestOut
<1> DEFINE base == BodyUpto(req, pieceIdx - 1) \o SizeLine(sbuf)
<1>1. /\ state = "REQ_BODY_SEND" /\ sentLength \in Nat /\ req \in Requests /\ Uploading
      /\ pieceIdx <= Len(req.pieces) /\ Sending(base, sbuf)
  BY DEF SendBody, TypeOK, HeadOut, BodyOut
<1>2. base \in Seq(Slots) /\ sbuf \in Seq(Slots) /\ base \o sbuf \in Seq(Slots) /\ CRLF \in Seq(Slots)
  BY <1>1, UploadParts, CRLFType
<1>3. CASE Again
  BY <1>3, OutStutters DEF Again
<1>4. ASSUME SendText(sbuf, BodySent)
      PROVE  /\ UNCHANGED req
             /\ Partial(sbuf) \/ (Finishing(sbuf) /\ BodySent) \/ Failing
  BY <1>4 DEF SendText, Partial, Finishing, Failing, Abort, ownVars, reqVars
<1>5. CASE UNCHANGED req /\ Partial(sbuf)
  <2>1. UNCHANGED <<state, pieceIdx, req, sbuf, readReqEnd>>
    BY <1>5 DEF Partial
  <2>2. base' = base /\ Uploading'
    BY <1>1, <2>1 DEF Uploading
  <2> HIDE DEF base
  <2>3. sentLength' <= Len(sbuf) /\ out' = base \o SubSeq(sbuf, 1, sentLength')
    BY <1>1, <1>2, <1>5, PartialSent
  <2>4. Sending(base, sbuf)'
    BY <2>1, <2>2, <2>3 DEF Sending
  <2> QED BY <1>1, <2>1, <2>2, <2>4 DEF HeadOut, BodyOut, EndOut, RespStates, base
<1>6. CASE UNCHANGED req /\ Finishing(sbuf) /\ BodySent
  <2>1. state' = "REQ_BODY_SEND_CRLF" /\ UNCHANGED <<pieceIdx, req, sbuf, readReqEnd>>
    BY <1>6 DEF BodySent, Goto
  <2>2. base' = base /\ Uploading'
    BY <1>1, <2>1 DEF Uploading
  <2> HIDE DEF base
  <2>3. sentLength' = 0 /\ out' = base \o sbuf
    BY <1>1, <1>2, <1>6, FinishingSent
  <2>4. 0 <= Len(CRLF) /\ (base \o sbuf) \o SubSeq(CRLF, 1, 0) = base \o sbuf
    BY <1>2, NothingSent
  <2>5. Sending(base \o sbuf, CRLF)'
    BY <2>1, <2>2, <2>3, <2>4 DEF Sending, CRLF
  <2> QED BY <2>1, <2>2, <2>5 DEF HeadOut, BodyOut, EndOut, RespStates, base
<1>7. CASE Failing
  BY <1>7, Closes DEF Failing
<1> QED BY <1>3, <1>4, <1>5, <1>6, <1>7 DEF SendBody

\* The CRLF of a chunk is followed by the next chunk; that of the last one ends the request.
LEMMA SendBodyCRLFOut ==
  ASSUME TypeOK, RequestOut, SendBodyCRLF
  PROVE  RequestOut'
<1> USE DEF RequestOut
<1> DEFINE base == BodyUpto(req, pieceIdx - 1) \o SizeLine(sbuf) \o sbuf
<1>1. /\ state = "REQ_BODY_SEND_CRLF" /\ sentLength \in Nat /\ req \in Requests /\ Uploading
      /\ Sending(base, CRLF)
  BY DEF SendBodyCRLF, TypeOK, HeadOut, BodyOut
<1>2. /\ base \in Seq(Slots) /\ CRLF \in Seq(Slots) /\ readReqEnd \in BOOLEAN /\ req.upload
      /\ ~readReqEnd => pieceIdx \in 1..Len(req.pieces) /\ base \o CRLF = BodyUpto(req, pieceIdx)
      /\ readReqEnd => base \o CRLF = RequestWire(req)
  <2>1. readReqEnd \in BOOLEAN /\ req.upload
    BY <1>1 DEF Uploading
  <2> QED BY <1>1, <2>1, UploadParts, CRLFType
<1>3. CASE Again
  BY <1>3, OutStutters DEF Again
<1>4. ASSUME SendText(CRLF, BodyCRLFSent)
      PROVE  /\ UNCHANGED req
             /\ Partial(CRLF) \/ (Finishing(CRLF) /\ BodyCRLFSent) \/ Failing
  BY <1>4 DEF SendText, Partial, Finishing, Failing, Abort, ownVars, reqVars
<1>5. CASE UNCHANGED req /\ Partial(CRLF)
  <2>1. UNCHANGED <<state, pieceIdx, req, sbuf, readReqEnd>>
    BY <1>5 DEF Partial
  <2>2. base' = base /\ Uploading'
    BY <1>1, <2>1 DEF Uploading
  <2> HIDE DEF base
  <2>3. sentLength' <= Len(CRLF) /\ out' = base \o SubSeq(CRLF, 1, sentLength')
    BY <1>1, <1>2, <1>5, PartialSent
  <2>4. Sending(base, CRLF)'
    BY <2>2, <2>3 DEF Sending, CRLF
  <2> QED BY <1>1, <2>1, <2>2, <2>4 DEF HeadOut, BodyOut, EndOut, RespStates, base
<1>6. CASE UNCHANGED req /\ Finishing(CRLF) /\ BodyCRLFSent
  <2>1. /\ state' = IF readReqEnd THEN "RESP_STATUS_READ" ELSE "REQ_BODY_READ"
        /\ UNCHANGED <<pieceIdx, req, sbuf, readReqEnd>>
    BY <1>6 DEF BodyCRLFSent, Goto
  <2> HIDE DEF base
  <2>2. sentLength' = 0 /\ out' = base \o CRLF
    BY <1>1, <1>2, <1>6, FinishingSent
  <2>3. CASE readReqEnd
    <3>1. out' = RequestWire(req)
      BY <1>2, <2>2, <2>3
    <3> QED BY <2>1, <2>3, <3>1 DEF HeadOut, BodyOut, EndOut, RespStates
  <2>4. CASE ~readReqEnd
    <3>1. pieceIdx \in 0..Len(req.pieces) /\ Len(req.pieces) \in Nat
      BY <1>1, <1>2, <2>4, RequestType
    <3>2. out' = BodyUpto(req, pieceIdx) /\ BodyUpto(req, pieceIdx) \in Seq(Slots)
      BY <1>1, <1>2, <2>2, <2>4, <3>1, HeadType
    <3>3. 0 <= Len(<<>>) /\ BodyUpto(req, pieceIdx) \o SubSeq(<<>>, 1, 0) = BodyUpto(req, pieceIdx)
      BY <3>2, EmptySeq, NothingSent
    <3>4. Sending(BodyUpto(req, pieceIdx), <<>>)'
      BY <2>1, <2>2, <3>2, <3>3 DEF Sending
    <3> QED BY <1>2, <2>1, <2>4, <3>1, <3>4 DEF HeadOut, BodyOut, EndOut, RespStates
  <2> QED BY <2>3, <2>4
<1>7. CASE Failing
  BY <1>7, Closes DEF Failing
<1> QED BY <1>3, <1>4, <1>5, <1>6, <1>7 DEF SendBodyCRLF

\* Every handler of sending keeps what is out in step with the state.
LEMMA RequestStepOut ==
  ASSUME TypeOK, RequestOut, RequestStep
  PROVE  RequestOut'
BY LineOut, HostOut, HeaderOut, SendHeaderOut, SendHeaderCRLFOut, SendHeaderEndOut, BodyReadOut,
   SendBodySizeOut, SendBodyOut, SendBodyCRLFOut DEF RequestStep

\* The handlers of the response send nothing.
LEMMA ResponseSendsNothing ==
  ASSUME ResponseStep
  PROVE  state \in RespStates /\ UNCHANGED <<out, req>>
<1> USE DEF RespUnchanged, Again, vars, ownVars, reqVars, RespStates
<1>1. CASE RespStatusRead \/ RespStatusParse \/ RespHeaderRead
  BY <1>1 DEF RespStatusRead, RespStatusParse, RespHeaderRead
<1>2. CASE RespHeaderCallback \/ RespHeaderSkip
  BY <1>2 DEF RespHeaderCallback, RespHeaderSkip
<1>3. CASE RespBodyFragment \/ RespBodyRead \/ RespBodyCallback
  BY <1>3 DEF RespBodyFragment, RespBodyRead, RespBodyCallback
<1>4. CASE RespBodyParseChunkSize \/ RespBodyParseChunkBody
  BY <1>4 DEF RespBodyParseChunkSize, RespBodyParseChunkBody
<1>5. CASE ReadChunkSizeFromHeaderBuff \/ ReadChunkBodyFromHeaderBuff
  BY <1>5 DEF ReadChunkSizeFromHeaderBuff, ReadChunkBodyFromHeaderBuff, MoveHeaderToStream
<1>6. CASE RespBodyReadChunkSize \/ RespBodyReadChunkBody
  BY <1>6 DEF RespBodyReadChunkSize, RespBodyReadChunkBody, ReadChunk
<1>7. CASE RespBodySkipChunkBodyCRLF \/ RespBodySkipTrailers
  BY <1>7 DEF RespBodySkipChunkBodyCRLF, RespBodySkipTrailers
<1> QED BY <1>1, <1>2, <1>3, <1>4, <1>5, <1>6, <1>7 DEF ResponseStep

\* The handlers of the response find all of the request out and leave it so.
LEMMA ResponseOut ==
  ASSUME TypeOK, RequestOut, ResponseStep
  PROVE  RequestOut'
<1>1. state \in RespStates /\ UNCHANGED <<out, req>> /\ state' \in RespStates \cup {"CLOSE"}
  BY ResponseProgresses, ResponseSendsNothing
<1>2. out = RequestWire(req)
  BY <1>1 DEF RequestOut, EndOut
<1>3. CASE state' = "CLOSE"
  BY <1>1, <1>3, Closes
<1>4. CASE state' \in RespStates
  BY <1>1, <1>2, <1>4 DEF RequestOut, HeadOut, BodyOut, EndOut, RespStates
<1> QED BY <1>1, <1>3, <1>4

\* The steps in which nothing has been sent yet, and the end.
LEMMA OtherOut ==
  ASSUME TypeOK, NotYetConnected, RequestOut, Perform \/ Return \/ Idle \/ Connect \/ Close
  PROVE  RequestOut'
<1>1. CASE Perform
  <2>1. state = "IDLE" /\ UNCHANGED <<state, out, pieceIdx>>
    BY <1>1 DEF Perform, NotYetConnected, reqVars
  <2> QED BY <2>1 DEF RequestOut, HeadOut, BodyOut, EndOut, RespStates
<1>2. CASE Return
  <2>1. state' = "IDLE" /\ out' = <<>> /\ pieceIdx' = 0
    BY <1>2 DEF Return, ResetExceptCb
  <2> QED BY <2>1 DEF RequestOut, HeadOut, BodyOut, EndOut, RespStates
<1>3. CASE Idle
  <2>1. /\ state = "IDLE" /\ state' \in {"FINISHED", "CONNECT"} /\ UNCHANGED <<out, req, pieceIdx>>
    BY <1>3 DEF Idle, Goto, ownVars, reqVars
  <2>2. CASE state' = "FINISHED"
    BY <2>1, <2>2, Closes
  <2>3. CASE state' = "CONNECT"
    BY <2>1, <2>3 DEF RequestOut, HeadOut, BodyOut, EndOut, RespStates
  <2> QED BY <2>1, <2>2, <2>3
<1>4. CASE Connect
  <2>1. out = <<>> /\ pieceIdx = 0 /\ UNCHANGED <<out, req>> /\ state = "CONNECT"
    BY <1>4 DEF Connect, ownVars, reqVars, RequestOut, HeadOut, BodyOut
  <2>2. CASE state' = "REQ_LINE" /\ sentLength' = 0 /\ UNCHANGED pieceIdx
    <3>1. <<>> \in Seq(Slots) /\ ReqLine \in Seq(Slots)
      BY FixedTexts, EmptySeq
    <3>2. 0 <= Len(ReqLine) /\ <<>> \o SubSeq(ReqLine, 1, 0) = <<>>
      BY <3>1, NothingSent
    <3>3. Sending(<<>>, ReqLine)'
      BY <2>1, <2>2, <3>2 DEF Sending, ReqLine
    <3> QED BY <2>1, <2>2, <3>3 DEF RequestOut, HeadOut, BodyOut, EndOut, RespStates
  <2>3. CASE state' = "FINISHED"
    BY <2>1, <2>3, Closes
  <2>4. CASE UNCHANGED <<state, pieceIdx>>
    BY <2>1, <2>4 DEF RequestOut, HeadOut, BodyOut, EndOut, RespStates
  <2> QED BY <1>4, <2>2, <2>3, <2>4 DEF Connect, Goto, reqVars
<1>5. CASE Close
  <2>1. state = "CLOSE" /\ state' \in {"CLOSE", "FINISHED"} /\ UNCHANGED <<out, req>>
    BY <1>5 DEF Close, ownVars, reqVars
  <2> QED BY <2>1, Closes
<1> QED BY <1>1, <1>2, <1>3, <1>4, <1>5

\* The text being sent is in step with the request in every state.
LEMMA OutAlways == Spec => []RequestOut
<1>1. Init => RequestOut
  BY DEF Init, RequestOut, HeadOut, BodyOut, EndOut, RespStates
<1>2. IInv /\ RequestOut /\ [Next]_vars => RequestOut'
  BY RequestStepOut, ResponseOut, OtherOut, OutStutters DEF IInv, Next, Handler
<1> QED BY <1>1, <1>2, Inductive, PTL DEF Spec

(***************************************************************************)
(* What the socket accepted is at all times the beginning of the one       *)
(* encoding of the request, and all of it when the response is read,       *)
(* however cb_sock_send cuts it up and whatever cb_read yields.            *)
(***************************************************************************)
THEOREM RequestAlwaysFaithful == Spec => []RequestFaithful
<1>1. IInv /\ RequestOut => RequestFaithful
  BY OutFaithful DEF IInv
<1> QED BY <1>1, OutAlways, Inductive, PTL

\* A sequence and its parts.
LEMMA SplitSeq ==
  ASSUME NEW S, NEW s \in Seq(S), NEW n \in 0..Len(s)
  PROVE  /\ SubSeq(s, 1, n) \in Seq(S) /\ SubSeq(s, n + 1, Len(s)) \in Seq(S)
         /\ Len(SubSeq(s, 1, n)) = n /\ Len(SubSeq(s, n + 1, Len(s))) = Len(s) - n
         /\ SubSeq(s, 1, n) \o SubSeq(s, n + 1, Len(s)) = s
<1> DEFINE a == SubSeq(s, 1, n)
           b == SubSeq(s, n + 1, Len(s))
<1>1. a \in Seq(S) /\ b \in Seq(S) /\ Len(a) = n /\ Len(b) = Len(s) - n
  OBVIOUS
<1>2. (\A i \in 1..n : a[i] = s[i]) /\ (\A i \in 1..Len(s) - n : b[i] = s[n + i])
  OBVIOUS
<1> HIDE DEF a, b
<1>3. a \o b \in Seq(S) /\ Len(a \o b) = Len(s)
  BY <1>1
<1>4. ASSUME NEW i \in 1..Len(s) PROVE (a \o b)[i] = s[i]
  <2>1. CASE i <= n
    <3>1. i \in 1..Len(a)
      BY <1>1, <2>1
    <3>2. (a \o b)[i] = a[i]
      BY <1>1, <3>1
    <3> QED BY <1>1, <1>2, <3>1, <3>2
  <2>2. CASE n < i
    <3>1. i - n \in 1..Len(s) - n /\ n + (i - n) = i /\ i \in Len(a) + 1..Len(a) + Len(b)
      BY <1>1, <2>2
    <3>2. (a \o b)[i] = b[i - n]
      BY <1>1, <3>1, ConcatProperties
    <3> QED BY <1>2, <3>1, <3>2
  <2>3. i <= n \/ n < i
    OBVIOUS
  <2> QED BY <2>1, <2>2, <2>3, Zenon
<1>5. a \o b = s
  BY <1>3, <1>4, SeqEqual
<1> QED BY <1>1, <1>5 DEF a, b

\* A sequence that begins another is the first part of it.
LEMMA ConcatSplit ==
  ASSUME NEW S, NEW s \in Seq(S), NEW t \in Seq(S)
  PROVE  /\ s \o t \in Seq(S) /\ Len(s \o t) = Len(s) + Len(t)
         /\ \A i \in 1..Len(s) : (s \o t)[i] = s[i]
         /\ \A i \in 1..Len(t) : (s \o t)[Len(s) + i] = t[i]
<1>1. s \o t \in Seq(S) /\ Len(s \o t) = Len(s) + Len(t)
  OBVIOUS
<1>2. \A i \in 1..Len(s) : (s \o t)[i] = s[i]
  OBVIOUS
<1>3. ASSUME NEW i \in 1..Len(t) PROVE (s \o t)[Len(s) + i] = t[i]
  <2>1. Len(s) + i \in Len(s) + 1..Len(s) + Len(t) /\ (Len(s) + i) - Len(s) = i
    OBVIOUS
  <2> QED BY <2>1, ConcatProperties
<1> QED BY <1>1, <1>2, <1>3

\* What follows the same beginning in the same text is the same as far as both go.
LEMMA Compared ==
  ASSUME NEW S, NEW base \in Seq(S), NEW s \in Seq(S), NEW t \in Seq(S), NEW u \in Seq(S),
         IsPrefix(base \o s, u), IsPrefix(base \o t, u)
  PROVE  \A k \in 1..Len(s) : k <= Len(t) => s[k] = t[k]
<1> SUFFICES ASSUME NEW k \in 1..Len(s), k <= Len(t) PROVE s[k] = t[k]
  OBVIOUS
<1> DEFINE bs == base \o s
           bt == base \o t
           n == Len(base) + k
<1>1. /\ bs \in Seq(S) /\ Len(bs) = Len(base) + Len(s) /\ bs[n] = s[k]
      /\ bt \in Seq(S) /\ Len(bt) = Len(base) + Len(t) /\ bt[n] = t[k]
  <2>1. k \in 1..Len(t)
    OBVIOUS
  <2> QED BY <2>1, ConcatSplit
<1> HIDE DEF bs, bt
<1>2. IsPrefix(bs, u) /\ IsPrefix(bt, u)
  BY DEF bs, bt
<1>3. n \in 1..Len(bs) /\ n \in 1..Len(bt)
  BY <1>1
<1> HIDE DEF n
<1>4. bs[n] = u[n] /\ bt[n] = u[n]
  BY <1>1, <1>2, <1>3, PrefixByElement
<1> QED BY <1>1, <1>4

\* The same beginning taken off a text and a longer one.
LEMMA PrefixCancel ==
  ASSUME NEW S, NEW s \in Seq(S), NEW t \in Seq(S), NEW u \in Seq(S), IsPrefix(s \o t, s \o u)
  PROVE  IsPrefix(t, u)
<1> DEFINE st == s \o t
           su == s \o u
<1>1. /\ st \in Seq(S) /\ Len(st) = Len(s) + Len(t) /\ \A i \in 1..Len(t) : st[Len(s) + i] = t[i]
      /\ su \in Seq(S) /\ Len(su) = Len(s) + Len(u) /\ \A i \in 1..Len(u) : su[Len(s) + i] = u[i]
  BY ConcatSplit
<1> HIDE DEF st, su
<1>0. IsPrefix(st, su)
  BY DEF st, su
<1>2. Len(st) <= Len(su) /\ \A i \in 1..Len(st) : st[i] = su[i]
  <2>1. st \in Seq(S) /\ su \in Seq(S)
    BY <1>1
  <2> QED BY <1>0, <2>1, PrefixByElement
<1>3. Len(t) <= Len(u)
  BY <1>1, <1>2
<1>4. ASSUME NEW i \in 1..Len(t) PROVE t[i] = u[i]
  <2>1. i \in 1..Len(u) /\ Len(s) + i \in 1..Len(st)
    BY <1>1, <1>3
  <2> QED BY <1>1, <1>2, <2>1
<1> QED BY <1>3, <1>4, PrefixByElement

\* The first parts of a list of texts.
LEMMA FlattenParts ==
  ASSUME NEW S, NEW ss \in Seq(Seq(S))
  PROVE  /\ \A i \in 0..Len(ss) : FlattenSeq(SubSeq(ss, 1, i)) \in Seq(S)
         /\ FlattenSeq(SubSeq(ss, 1, 0)) = <<>>
         /\ FlattenSeq(SubSeq(ss, 1, Len(ss))) = FlattenSeq(ss)
         /\ \A i, j \in 0..Len(ss) : i <= j =>
              IsPrefix(FlattenSeq(SubSeq(ss, 1, i)), FlattenSeq(SubSeq(ss, 1, j)))
<1>1. ASSUME NEW i \in 0..Len(ss) PROVE FlattenSeq(SubSeq(ss, 1, i)) \in Seq(S)
  <2>1. SubSeq(ss, 1, i) \in Seq(Seq(S))
    OBVIOUS
  <2> QED BY <2>1, FlattenType
<1>2. SubSeq(ss, 1, 0) = <<>> /\ SubSeq(ss, 1, Len(ss)) = ss
  OBVIOUS
<1>3. ASSUME NEW i \in 0..Len(ss), NEW j \in 0..Len(ss), i <= j
      PROVE  IsPrefix(FlattenSeq(SubSeq(ss, 1, i)), FlattenSeq(SubSeq(ss, 1, j)))
  <2> DEFINE tt == SubSeq(ss, 1, j)
  <2>1. tt \in Seq(Seq(S)) /\ Len(tt) = j /\ i \in 0..Len(tt)
    BY <1>3
  <2>2. SubSeq(tt, 1, i) = SubSeq(ss, 1, i)
    BY <1>3
  <2> HIDE DEF tt
  <2>3. IsPrefix(FlattenSeq(SubSeq(tt, 1, i)), FlattenSeq(tt))
    BY <2>1, FlattenPrefix
  <2> QED BY <2>2, <2>3 DEF tt
<1> QED BY <1>1, <1>2, <1>3, FlattenEmpty

-----------------------------------------------------------------------------
(* The response on the wire, part by part.                                 *)

LineTexts(ls) == [i \in DOMAIN ls |-> ls[i] \o CRLF]
HeadSections(r) == [i \in DOMAIN r.heads |-> Lines(r.heads[i]) \o CRLF]

\* The response up to section h, and up to line l of it.
BeforeHead(r, h) == FlattenSeq(SubSeq(HeadSections(r), 1, h - 1))
BeforeLine(r, h, l) == BeforeHead(r, h) \o FlattenSeq(SubSeq(LineTexts(r.heads[h]), 1, l - 1))

\* What is told of it before that line.
FitBefore(r, h, l) ==
  FlattenSeq(SubSeq(FittingHeads(r), 1, h - 1)) \o FlattenSeq(SubSeq(Fitting(r.heads[h]), 1, l - 1))
TEBefore(r, h, l) ==
  \/ \E i \in 1..h - 1 : \E k \in DOMAIN r.heads[i] : r.heads[i][k][1] = "TE"
  \/ \E k \in 1..l - 1 : r.heads[h][k][1] = "TE"

\* The body up to chunk i, and n slots into it.
GotChunks(r, i) == FlattenSeq(SubSeq(r.pieces, 1, i))
AfterChunks(r, i) == HeadWire(r) \o FlattenSeq(SubSeq(Chunks(r.pieces), 1, i))
InChunk(r, i, n) == AfterChunks(r, i - 1) \o SizeLine(r.pieces[i]) \o SubSeq(r.pieces[i], 1, n)

\* The parts of a response.
LEMMA ResponseType ==
  ASSUME NEW r \in Responses
  PROVE  /\ Len(r.heads) \in Nat /\ Len(r.pieces) \in Nat /\ r.chunked \in BOOLEAN
         /\ \A h \in 1..Len(r.heads) :
              /\ r.heads[h] \in Seq(Seq(Slots)) /\ Len(r.heads[h]) \in Nat /\ Len(r.heads[h]) >= 1
              /\ \A l \in 1..Len(r.heads[h]) :
                   r.heads[h][l] \in Seq(Slots) /\ Len(r.heads[h][l]) \in Nat /\ Len(r.heads[h][l]) >= 1
         /\ r.pieces \in Seq(Seq(Slots))
         /\ \A i \in 1..Len(r.pieces) :
              r.pieces[i] \in Seq(Slots) /\ Len(r.pieces[i]) \in Nat /\ Len(r.pieces[i]) >= 1
         /\ DOMAIN r.heads = 1..Len(r.heads)
         /\ \A h \in 1..Len(r.heads) : DOMAIN r.heads[h] = 1..Len(r.heads[h])
<1>1. /\ r.heads \in Seq(Seq(Seq(Slots) \ {<<>>}) \ {<<>>}) /\ r.chunked \in BOOLEAN
      /\ r.pieces \in Seq(Seq(Slots) \ {<<>>})
  BY ResponsesAssumption DEF ResponsesAssumption, IsResponse
<1>2. \A s \in Seq(Slots) \ {<<>>} : Len(s) \in Nat /\ Len(s) >= 1
  <2> TAKE s \in Seq(Slots) \ {<<>>}
  <2> QED BY EmptySeq
<1>3. ASSUME NEW h \in 1..Len(r.heads)
      PROVE  /\ r.heads[h] \in Seq(Seq(Slots)) /\ Len(r.heads[h]) \in Nat /\ Len(r.heads[h]) >= 1
             /\ \A l \in 1..Len(r.heads[h]) : r.heads[h][l] \in Seq(Slots) \ {<<>>}
             /\ DOMAIN r.heads[h] = 1..Len(r.heads[h])
  <2> DEFINE head == r.heads[h]
  <2>1. head \in Seq(Seq(Slots) \ {<<>>}) \ {<<>>}
    BY <1>1
  <2> HIDE DEF head
  <2>2. head \in Seq(Seq(Slots) \ {<<>>}) /\ head # <<>>
    BY <2>1
  <2>3. Len(head) \in Nat /\ Len(head) >= 1 /\ DOMAIN head = 1..Len(head)
    BY <2>2, EmptySeq
  <2>4. \A l \in 1..Len(head) : head[l] \in Seq(Slots) \ {<<>>}
    BY <2>2
  <2>5. head \in Seq(Seq(Slots))
    BY <2>2, <2>4
  <2> QED BY <2>3, <2>4, <2>5 DEF head
<1>4. r.pieces \in Seq(Seq(Slots)) /\ \A i \in 1..Len(r.pieces) : r.pieces[i] \in Seq(Slots) \ {<<>>}
  BY <1>1
<1>5. Len(r.heads) \in Nat /\ Len(r.pieces) \in Nat /\ DOMAIN r.heads = 1..Len(r.heads)
  BY <1>1
<1> QED BY <1>1, <1>2, <1>3, <1>4, <1>5

\* The lines of a section on the wire, and what is told of them.
LEMMA LineTextsType ==
  ASSUME NEW ls \in Seq(Seq(Slots))
  PROVE  /\ LineTexts(ls) \in Seq(Seq(Slots)) /\ Len(LineTexts(ls)) = Len(ls)
         /\ \A i \in 1..Len(ls) : LineTexts(ls)[i] = ls[i] \o CRLF
         /\ Lines(ls) = FlattenSeq(LineTexts(ls)) /\ Lines(ls) \in Seq(Slots)
         /\ Fitting(ls) \in Seq(Seq(Seq(Slots))) /\ Len(Fitting(ls)) = Len(ls)
         /\ \A i \in 1..Len(ls) : Fitting(ls)[i] = FittingLine(ls[i])
         /\ FlattenSeq(Fitting(ls)) \in Seq(Seq(Slots))
<1>1. Len(ls) \in Nat /\ DOMAIN ls = 1..Len(ls) /\ \A i \in 1..Len(ls) : ls[i] \in Seq(Slots)
  OBVIOUS
<1>2. \A i \in 1..Len(ls) : ls[i] \o CRLF \in Seq(Slots)
  BY <1>1, CRLFType, ConcatProperties
<1>3. LineTexts(ls) \in [1..Len(ls) -> Seq(Slots)]
  BY <1>1, <1>2 DEF LineTexts
<1>4. LineTexts(ls) \in Seq(Seq(Slots)) /\ Len(LineTexts(ls)) = Len(ls)
  BY <1>1, <1>3, FunctionSeq
<1>5. ASSUME NEW i \in 1..Len(ls) PROVE FittingLine(ls[i]) \in Seq(Seq(Slots))
  <2>1. <<ls[i]>> \in Seq(Seq(Slots)) /\ <<>> \in Seq(Seq(Slots))
    BY <1>1
  <2> QED BY <2>1 DEF FittingLine
<1>6. Fitting(ls) \in [1..Len(ls) -> Seq(Seq(Slots))]
  BY <1>1, <1>5 DEF Fitting
<1>7. Fitting(ls) \in Seq(Seq(Seq(Slots))) /\ Len(Fitting(ls)) = Len(ls)
  BY <1>1, <1>6, FunctionSeq
<1>8. \A i \in 1..Len(ls) : LineTexts(ls)[i] = ls[i] \o CRLF /\ Fitting(ls)[i] = FittingLine(ls[i])
  BY <1>1 DEF LineTexts, Fitting
<1>9. Lines(ls) = FlattenSeq(LineTexts(ls))
  BY DEF Lines, LineTexts
<1>10. FlattenSeq(Fitting(ls)) \in Seq(Seq(Slots))
  BY <1>7, FlattenType
<1> QED BY <1>4, <1>7, <1>8, <1>9, <1>10, LinesType

\* The sections of a response on the wire, and what is told of them.
LEMMA HeadSectionsType ==
  ASSUME NEW r \in Responses
  PROVE  /\ HeadSections(r) \in Seq(Seq(Slots)) /\ Len(HeadSections(r)) = Len(r.heads)
         /\ \A h \in 1..Len(r.heads) : HeadSections(r)[h] = Lines(r.heads[h]) \o CRLF
         /\ HeadWire(r) = FlattenSeq(HeadSections(r))
         /\ FittingHeads(r) \in Seq(Seq(Seq(Slots))) /\ Len(FittingHeads(r)) = Len(r.heads)
         /\ \A h \in 1..Len(r.heads) : FittingHeads(r)[h] = FlattenSeq(Fitting(r.heads[h]))
         /\ FittingLines(r) \in Seq(Seq(Slots))
<1>1. Len(r.heads) \in Nat /\ DOMAIN r.heads = 1..Len(r.heads)
      /\ \A h \in 1..Len(r.heads) : r.heads[h] \in Seq(Seq(Slots))
  BY ResponseType
<1>2. \A h \in 1..Len(r.heads) : /\ Lines(r.heads[h]) \in Seq(Slots)
                                 /\ FlattenSeq(Fitting(r.heads[h])) \in Seq(Seq(Slots))
  BY <1>1, LineTextsType
<1>3. \A h \in 1..Len(r.heads) : Lines(r.heads[h]) \o CRLF \in Seq(Slots)
  BY <1>2, CRLFType, ConcatProperties
<1>4. HeadSections(r) \in [1..Len(r.heads) -> Seq(Slots)]
      /\ FittingHeads(r) \in [1..Len(r.heads) -> Seq(Seq(Slots))]
  BY <1>1, <1>2, <1>3 DEF HeadSections, FittingHeads
<1>5. HeadSections(r) \in Seq(Seq(Slots)) /\ Len(HeadSections(r)) = Len(r.heads)
      /\ FittingHeads(r) \in Seq(Seq(Seq(Slots))) /\ Len(FittingHeads(r)) = Len(r.heads)
  BY <1>1, <1>4, FunctionSeq
<1>6. \A h \in 1..Len(r.heads) : /\ HeadSections(r)[h] = Lines(r.heads[h]) \o CRLF
                                 /\ FittingHeads(r)[h] = FlattenSeq(Fitting(r.heads[h]))
  BY <1>1 DEF HeadSections, FittingHeads
<1>7. HeadWire(r) = FlattenSeq(HeadSections(r))
  BY DEF HeadWire, HeadSections
<1>8. FittingLines(r) \in Seq(Seq(Slots))
  BY <1>5, FlattenType DEF FittingLines
<1> QED BY <1>5, <1>6, <1>7, <1>8

\* What has been used of a text, and what follows it: the rest starts with the next part t.
LEMMA Advance ==
  ASSUME NEW S, NEW base \in Seq(S), NEW t \in Seq(S), NEW rest \in Seq(S), NEW u \in Seq(S),
         IsPrefix(base \o rest, u), IsPrefix(base \o t, u), Len(t) <= Len(rest)
  PROVE  /\ SubSeq(rest, 1, Len(t)) = t
         /\ SubSeq(rest, Len(t) + 1, Len(rest)) \in Seq(S)
         /\ rest = t \o SubSeq(rest, Len(t) + 1, Len(rest))
         /\ IsPrefix((base \o t) \o SubSeq(rest, Len(t) + 1, Len(rest)), u)
<1> DEFINE a == SubSeq(rest, 1, Len(t))
           b == SubSeq(rest, Len(t) + 1, Len(rest))
<1>1. /\ a \in Seq(S) /\ b \in Seq(S) /\ Len(a) = Len(t) /\ a \o b = rest
      /\ \A i \in 1..Len(t) : a[i] = rest[i]
  <2>1. Len(t) \in 0..Len(rest)
    OBVIOUS
  <2>2. a \in Seq(S) /\ b \in Seq(S) /\ Len(a) = Len(t) /\ a \o b = rest
    BY <2>1, SplitSeq, ZenonT(60)
  <2>3. \A i \in 1..Len(t) : a[i] = rest[i]
    OBVIOUS
  <2> QED BY <2>2, <2>3
<1> HIDE DEF a, b
<1>2. \A i \in 1..Len(t) : rest[i] = t[i]
  <2>1. \A k \in 1..Len(rest) : k <= Len(t) => rest[k] = t[k]
    BY Compared
  <2> QED BY <2>1
<1>3. a = t
  BY <1>1, <1>2, SeqEqual
<1>4. base \o (t \o b) = (base \o t) \o b
  <2>1. Associates(base, t, b)
    BY <1>1, Associative
  <2> QED BY <2>1 DEF Associates
<1>5. IsPrefix((base \o t) \o b, u)
  BY <1>1, <1>3, <1>4
<1> QED BY <1>1, <1>3, <1>5 DEF a, b

\* A buffer and what will follow it.
LEMMA BufferFirst ==
  ASSUME NEW S, NEW buf \in Seq(S), NEW more \in Seq(S), NEW n \in 0..Len(buf)
  PROVE  /\ buf \o more \in Seq(S) /\ Len(buf \o more) = Len(buf) + Len(more)
         /\ \A i \in 1..Len(buf) : (buf \o more)[i] = buf[i]
         /\ SubSeq(buf \o more, n + 1, Len(buf \o more)) = SubSeq(buf, n + 1, Len(buf)) \o more
<1> DEFINE bm == buf \o more
           r == SubSeq(buf, n + 1, Len(buf))
           rm == r \o more
           z == SubSeq(bm, n + 1, Len(bm))
<1>1. /\ bm \in Seq(S) /\ Len(bm) = Len(buf) + Len(more)
      /\ (\A i \in 1..Len(buf) : bm[i] = buf[i]) /\ \A i \in 1..Len(more) : bm[Len(buf) + i] = more[i]
  BY ConcatSplit
<1>2. r \in Seq(S) /\ Len(r) = Len(buf) - n /\ \A i \in 1..Len(buf) - n : r[i] = buf[n + i]
  <2>1. r \in Seq(S) /\ Len(r) = Len(buf) - n
    BY SplitSeq
  <2>2. \A i \in 1..Len(buf) - n : r[i] = buf[n + i]
    OBVIOUS
  <2> QED BY <2>1, <2>2
<1> HIDE DEF r
<1>3. /\ rm \in Seq(S) /\ Len(rm) = Len(r) + Len(more)
      /\ (\A i \in 1..Len(r) : rm[i] = r[i]) /\ \A i \in 1..Len(more) : rm[Len(r) + i] = more[i]
  <2>1. r \in Seq(S)
    BY <1>2
  <2> QED BY <2>1, ConcatSplit
<1> HIDE DEF bm, rm
<1>4. z \in Seq(S) /\ Len(z) = Len(bm) - n /\ \A i \in 1..Len(bm) - n : z[i] = bm[n + i]
  <2>0. n \in 0..Len(bm)
    BY <1>1
  <2>1. z \in Seq(S) /\ Len(z) = Len(bm) - n
    BY <1>1, <2>0, SplitSeq
  <2>2. \A i \in 1..Len(bm) - n : z[i] = bm[n + i]
    BY <1>1, <2>0
  <2> QED BY <2>1, <2>2
<1> HIDE DEF z
<1>5. ASSUME NEW i \in 1..Len(z) PROVE z[i] = rm[i]
  <2>1. z[i] = bm[n + i]
    BY <1>4
  <2>2. CASE i <= Len(buf) - n
    <3>1. i \in 1..Len(r) /\ n + i \in 1..Len(buf) /\ i \in 1..Len(buf) - n
      BY <1>2, <2>2
    <3>2. bm[n + i] = buf[n + i] /\ rm[i] = r[i] /\ r[i] = buf[n + i]
      BY <1>1, <1>2, <1>3, <3>1
    <3> QED BY <2>1, <3>2
  <2>3. CASE i > Len(buf) - n
    <3> DEFINE k == i - (Len(buf) - n)
    <3>1. k \in 1..Len(more) /\ n + i = Len(buf) + k /\ i = Len(r) + k
      BY <1>1, <1>2, <1>4, <2>3
    <3> HIDE DEF k
    <3>2. bm[Len(buf) + k] = more[k] /\ rm[Len(r) + k] = more[k]
      BY <1>1, <1>3, <3>1
    <3> QED BY <2>1, <3>1, <3>2
  <2>4. i <= Len(buf) - n \/ i > Len(buf) - n
    BY <1>4
  <2> QED BY <2>2, <2>3, <2>4
<1>6. Len(z) = Len(rm)
  BY <1>1, <1>2, <1>3, <1>4
<1>7. z = rm
  BY <1>3, <1>4, <1>5, <1>6, SeqEqual
<1> QED BY <1>1, <1>7 DEF bm, rm, r, z

\* A line of the response has no CR and no LF in it.
Unbroken(line) == \A k \in 1..Len(line) : line[k] # "CR" /\ line[k] # "LF"

\* A line and the CRLF after it.
LEMMA LineText ==
  ASSUME NEW line \in Seq(Slots)
  PROVE  /\ line \o CRLF \in Seq(Slots) /\ Len(line \o CRLF) = Len(line) + 2
         /\ \A k \in 1..Len(line) : (line \o CRLF)[k] = line[k]
         /\ (line \o CRLF)[Len(line) + 1] = "CR" /\ (line \o CRLF)[Len(line) + 2] = "LF"
<1>1. CRLF \in Seq(Slots) /\ Len(CRLF) = 2 /\ CRLF[1] = "CR" /\ CRLF[2] = "LF"
  BY CRLFType DEF CRLF
<1>2. /\ line \o CRLF \in Seq(Slots) /\ Len(line \o CRLF) = Len(line) + Len(CRLF)
      /\ \A k \in 1..Len(line) : (line \o CRLF)[k] = line[k]
      /\ \A k \in 1..Len(CRLF) : (line \o CRLF)[Len(line) + k] = CRLF[k]
  BY CRLFType, ConcatSplit
<1>3. 1 \in 1..Len(CRLF) /\ 2 \in 1..Len(CRLF)
  BY <1>1
<1> QED BY <1>1, <1>2, <1>3

\* strstr finds the end of the line that a buffer begins with, when all of it is there.
LEMMA FirstBreak ==
  ASSUME NEW line \in Seq(Slots), Unbroken(line), NEW buf \in Seq(Slots),
         \A k \in 1..Len(buf) : k <= Len(line) + 2 => buf[k] = (line \o CRLF)[k]
  PROVE  /\ HasCRLF(buf) <=> Len(line) + 2 <= Len(buf)
         /\ HasCRLF(buf) => FirstCRLF(buf) = Len(line) + 1
<1> DEFINE t == line \o CRLF
           n == Len(line)
<1>1. /\ t \in Seq(Slots) /\ Len(t) = n + 2 /\ t[n + 1] = "CR" /\ t[n + 2] = "LF"
      /\ \A k \in 1..n : t[k] = line[k]
  BY LineText
<1>0. n \in Nat /\ Len(buf) \in Nat
  OBVIOUS
<1>2. \A k \in 1..Len(buf) : k <= n + 2 => buf[k] = t[k]
  OBVIOUS
<1>3. \A k \in 1..n : t[k] # "CR" /\ t[k] # "LF"
  BY <1>1 DEF Unbroken
<1> HIDE DEF t, n
<1>4. \A i \in CRLFAt(buf) : i >= n + 1
  <2> SUFFICES ASSUME NEW i \in CRLFAt(buf), i < n + 1 PROVE FALSE
    BY <1>0, <1>2 DEF CRLFAt
  <2>1. i \in 1..Len(buf) /\ i <= n + 2 /\ i \in 1..n /\ buf[i] = "CR"
    BY <1>0, <1>2 DEF CRLFAt
  <2> QED BY <1>0, <1>2, <1>3, <2>1
<1>5. ASSUME n + 2 <= Len(buf) PROVE n + 1 \in CRLFAt(buf)
  <2>1. n + 1 \in 1..Len(buf) /\ n + 2 \in 1..Len(buf) /\ n + 1 \in 1..Len(buf) - 1 /\ (n + 1) + 1 = n + 2
    BY <1>0, <1>2, <1>5
  <2>2. buf[n + 1] = "CR" /\ buf[n + 2] = "LF"
    BY <1>1, <1>0, <1>2, <2>1
  <2> QED BY <2>1, <2>2 DEF CRLFAt
<1>6. HasCRLF(buf) => n + 2 <= Len(buf)
  <2> SUFFICES ASSUME NEW i \in CRLFAt(buf) PROVE n + 2 <= Len(buf)
    BY DEF HasCRLF
  <2>1. i >= n + 1 /\ i \in 1..Len(buf) - 1
    BY <1>4 DEF CRLFAt
  <2> QED BY <1>0, <1>2, <2>1
<1>7. n + 2 <= Len(buf) => HasCRLF(buf) /\ FirstCRLF(buf) = n + 1
  <2> SUFFICES ASSUME n + 2 <= Len(buf) PROVE HasCRLF(buf) /\ FirstCRLF(buf) = n + 1
    OBVIOUS
  <2>1. n + 1 \in CRLFAt(buf)
    BY <1>5
  <2>2. \A i \in CRLFAt(buf) : n + 1 <= i
    BY <1>0, <1>2, <1>4 DEF CRLFAt
  <2>3. FirstCRLF(buf) \in CRLFAt(buf) /\ \A j \in CRLFAt(buf) : FirstCRLF(buf) <= j
    BY <2>1, <2>2 DEF FirstCRLF
  <2>4. FirstCRLF(buf) <= n + 1 /\ n + 1 <= FirstCRLF(buf) /\ FirstCRLF(buf) \in Nat
    BY <1>0, <1>2, <2>1, <2>2, <2>3 DEF CRLFAt
  <2>5. FirstCRLF(buf) = n + 1
    BY <1>0, <1>2, <2>4
  <2> QED BY <2>1, <2>5 DEF HasCRLF
<1> QED BY <1>6, <1>7 DEF n

\* So a buffer that begins where a line begins gives that line, and then begins where the next does.
LEMMA LineRead ==
  ASSUME NEW base \in Seq(Slots), NEW line \in Seq(Slots), Unbroken(line),
         NEW buf \in Seq(Slots), NEW more \in Seq(Slots), NEW u \in Seq(Slots),
         IsPrefix(base \o (buf \o more), u), IsPrefix(base \o (line \o CRLF), u)
  PROVE  /\ HasCRLF(buf) <=> Len(line) + 2 <= Len(buf)
         /\ HasCRLF(buf) => /\ LineOf(buf) = line
                            /\ AfterLine(buf) \in Seq(Slots)
                            /\ IsPrefix((base \o (line \o CRLF)) \o (AfterLine(buf) \o more), u)
         /\ \A k \in 1..Len(buf) : k <= Len(line) => buf[k] = line[k]
         /\ \A k \in 1..Len(buf) : k = Len(line) + 1 => buf[k] = "CR"
         /\ \A k \in 1..Len(buf) : k = Len(line) + 2 => buf[k] = "LF"
<1> DEFINE t == line \o CRLF
           rest == buf \o more
           n == Len(line)
<1>1. /\ t \in Seq(Slots) /\ Len(t) = n + 2 /\ t[n + 1] = "CR" /\ t[n + 2] = "LF"
      /\ \A k \in 1..n : t[k] = line[k]
  BY LineText
<1>2. /\ rest \in Seq(Slots) /\ Len(rest) = Len(buf) + Len(more)
      /\ \A i \in 1..Len(buf) : rest[i] = buf[i]
  BY ConcatSplit
<1>3. n \in Nat /\ Len(buf) \in Nat /\ Len(more) \in Nat
  OBVIOUS
<1>4. IsPrefix(base \o rest, u) /\ IsPrefix(base \o t, u)
  OBVIOUS
<1> HIDE DEF t, rest
<1>5. \A k \in 1..Len(rest) : k <= Len(t) => rest[k] = t[k]
  <2>1. rest \in Seq(Slots) /\ t \in Seq(Slots)
    BY <1>1, <1>2
  <2> QED BY <1>4, <2>1, Compared
<1>6. \A k \in 1..Len(buf) : k <= n + 2 => buf[k] = t[k]
  BY <1>1, <1>2, <1>3, <1>5
<1>7. (HasCRLF(buf) <=> n + 2 <= Len(buf)) /\ (HasCRLF(buf) => FirstCRLF(buf) = n + 1)
  BY <1>6, FirstBreak DEF t
<1>8. ASSUME HasCRLF(buf)
      PROVE  /\ LineOf(buf) = line
             /\ AfterLine(buf) \in Seq(Slots)
             /\ IsPrefix((base \o t) \o (AfterLine(buf) \o more), u)
  <2>1. n + 2 <= Len(buf) /\ FirstCRLF(buf) = n + 1
    BY <1>7, <1>8
  <2>2. LineOf(buf) = SubSeq(buf, 1, n) /\ AfterLine(buf) = SubSeq(buf, Len(t) + 1, Len(buf))
    BY <1>1, <1>3, <2>1 DEF LineOf, AfterLine
  <2>3. LineOf(buf) = line
    <3> DEFINE l == SubSeq(buf, 1, n)
    <3>1. l \in Seq(Slots) /\ Len(l) = n
      <4>1. n \in 0..Len(buf)
        BY <1>3, <2>1
      <4> QED BY <4>1, SplitSeq
    <3>2. \A i \in 1..n : l[i] = buf[i]
      BY <1>3, <2>1
    <3> HIDE DEF l
    <3>3. ASSUME NEW i \in 1..n PROVE l[i] = line[i]
      <4>1. i \in 1..Len(buf) /\ i <= n + 2
        BY <1>3, <2>1
      <4> QED BY <1>1, <1>6, <3>2, <4>1
    <3>4. l = line
      BY <3>1, <3>3, SeqEqual DEF n
    <3> QED BY <2>2, <3>4 DEF l
  <2>4. Len(t) \in 0..Len(buf) /\ Len(t) <= Len(rest)
    BY <1>1, <1>2, <1>3, <2>1
  <2>5. SubSeq(rest, Len(t) + 1, Len(rest)) = AfterLine(buf) \o more
    BY <2>2, <2>4, BufferFirst, ZenonT(60) DEF rest
  <2>6. IsPrefix((base \o t) \o SubSeq(rest, Len(t) + 1, Len(rest)), u)
    <3>1. rest \in Seq(Slots) /\ t \in Seq(Slots)
      BY <1>1, <1>2
    <3> QED BY <1>4, <2>4, <3>1, Advance
  <2>7. AfterLine(buf) \in Seq(Slots)
    BY <2>2, <2>4, SplitSeq
  <2> QED BY <2>3, <2>5, <2>6, <2>7
<1>9. \A k \in 1..Len(buf) : k <= n => buf[k] = line[k]
  BY <1>1, <1>3, <1>6
<1>10. \A k \in 1..Len(buf) : k = n + 1 => buf[k] = "CR"
  BY <1>1, <1>3, <1>6
<1>11. \A k \in 1..Len(buf) : k = n + 2 => buf[k] = "LF"
  BY <1>1, <1>3, <1>6
<1> QED BY <1>7, <1>8, <1>9, <1>10, <1>11 DEF t, n

\* A list of texts, cut at one of them.
LEMMA FlattenCut ==
  ASSUME NEW S, NEW ss \in Seq(Seq(S)), NEW n \in Nat \ {0}, n <= Len(ss) + 1
  PROVE  /\ FlattenSeq(SubSeq(ss, 1, n - 1)) \in Seq(S)
         /\ IsPrefix(FlattenSeq(SubSeq(ss, 1, n - 1)), FlattenSeq(ss))
         /\ n = 1 => FlattenSeq(SubSeq(ss, 1, n - 1)) = <<>>
         /\ n = Len(ss) + 1 => FlattenSeq(SubSeq(ss, 1, n - 1)) = FlattenSeq(ss)
         /\ n <= Len(ss) =>
              FlattenSeq(SubSeq(ss, 1, (n + 1) - 1)) = FlattenSeq(SubSeq(ss, 1, n - 1)) \o ss[n]
<1>1. n - 1 \in 0..Len(ss) /\ Len(ss) \in Nat
  OBVIOUS
<1>2. FlattenSeq(SubSeq(ss, 1, n - 1)) \in Seq(S)
      /\ IsPrefix(FlattenSeq(SubSeq(ss, 1, n - 1)), FlattenSeq(ss))
  BY <1>1, FlattenParts, FlattenPrefix
<1>3. n = 1 => FlattenSeq(SubSeq(ss, 1, n - 1)) = <<>>
  <2>1. n = 1 => n - 1 = 0
    BY <1>1
  <2> QED BY <2>1, FlattenParts
<1>4. n = Len(ss) + 1 => FlattenSeq(SubSeq(ss, 1, n - 1)) = FlattenSeq(ss)
  <2>1. n = Len(ss) + 1 => n - 1 = Len(ss)
    BY <1>1
  <2> QED BY <2>1, FlattenParts
<1>5. ASSUME n <= Len(ss)
      PROVE FlattenSeq(SubSeq(ss, 1, (n + 1) - 1)) = FlattenSeq(SubSeq(ss, 1, n - 1)) \o ss[n]
  <2>1. n - 1 \in 0..Len(ss) - 1 /\ (n - 1) + 1 = n /\ (n + 1) - 1 = n
    BY <1>1, <1>5
  <2>2. FlattenSeq(SubSeq(ss, 1, (n - 1) + 1)) = FlattenSeq(SubSeq(ss, 1, n - 1)) \o ss[(n - 1) + 1]
    BY <2>1, FlattenUpto
  <2> QED BY <2>1, <2>2
<1> QED BY <1>2, <1>3, <1>4, <1>5

\* The response up to line l of section h, and what comes next in it.
LEMMA LinePlace ==
  ASSUME NEW r \in Responses, NEW h \in 1..Len(r.heads), NEW l \in 1..Len(r.heads[h]) + 1
  PROVE  /\ BeforeLine(r, h, l) \in Seq(Slots)
         /\ IsPrefix(BeforeLine(r, h, l), ResponseWire(r))
         /\ l <= Len(r.heads[h]) => BeforeLine(r, h, l + 1) = BeforeLine(r, h, l) \o (r.heads[h][l] \o CRLF)
         /\ l = 1 => BeforeLine(r, h, l) = BeforeHead(r, h)
         /\ l = Len(r.heads[h]) + 1 => BeforeHead(r, h + 1) = BeforeLine(r, h, l) \o CRLF
         /\ BeforeHead(r, h) \in Seq(Slots) /\ BeforeHead(r, h + 1) \in Seq(Slots)
         /\ IsPrefix(BeforeHead(r, h + 1), ResponseWire(r))
         /\ h = 1 => BeforeHead(r, h) = <<>>
         /\ h = Len(r.heads) => BeforeHead(r, h + 1) = HeadWire(r)
<1> DEFINE ls == r.heads[h]
           ts == LineTexts(ls)
           hs == HeadSections(r)
           B == BeforeHead(r, h)
           T(k) == FlattenSeq(SubSeq(ts, 1, k - 1))
<1>1. /\ ls \in Seq(Seq(Slots)) /\ Len(ls) \in Nat /\ Len(r.heads) \in Nat
      /\ \A k \in 1..Len(ls) : ls[k] \in Seq(Slots)
  BY ResponseType
<1>2. /\ ts \in Seq(Seq(Slots)) /\ Len(ts) = Len(ls) /\ (\A k \in 1..Len(ls) : ts[k] = ls[k] \o CRLF)
      /\ Lines(ls) = FlattenSeq(ts) /\ Lines(ls) \in Seq(Slots)
  BY <1>1, LineTextsType
<1>3. hs \in Seq(Seq(Slots)) /\ Len(hs) = Len(r.heads) /\ hs[h] = Lines(ls) \o CRLF
      /\ HeadWire(r) = FlattenSeq(hs)
  BY HeadSectionsType
<1>4. /\ B \in Seq(Slots) /\ BeforeHead(r, h + 1) \in Seq(Slots)
      /\ BeforeHead(r, h + 1) = B \o hs[h]
      /\ IsPrefix(BeforeHead(r, h + 1), HeadWire(r))
      /\ h = 1 => B = <<>>
      /\ h = Len(r.heads) => BeforeHead(r, h + 1) = HeadWire(r)
  <2>1. h \in Nat \ {0} /\ h <= Len(hs) /\ h <= Len(hs) + 1
        /\ h + 1 \in Nat \ {0} /\ h + 1 <= Len(hs) + 1 /\ (h = Len(r.heads) => h + 1 = Len(hs) + 1)
    BY <1>1, <1>3
  <2>2. /\ B \in Seq(Slots) /\ h = 1 => B = <<>> /\ BeforeHead(r, h + 1) = B \o hs[h]
    BY <1>3, <2>1, FlattenCut DEF BeforeHead
  <2>3. /\ BeforeHead(r, h + 1) \in Seq(Slots) /\ IsPrefix(BeforeHead(r, h + 1), HeadWire(r))
        /\ h + 1 = Len(hs) + 1 => BeforeHead(r, h + 1) = HeadWire(r)
    BY <1>3, <2>1, FlattenCut DEF BeforeHead
  <2>4. B \in Seq(Slots) /\ BeforeHead(r, h + 1) = B \o hs[h] /\ (h = 1 => B = <<>>)
    BY <1>3, <2>1, FlattenCut DEF BeforeHead
  <2> QED BY <2>1, <2>3, <2>4
<1>5. IsPrefix(HeadWire(r), ResponseWire(r)) /\ HeadWire(r) \in Seq(Slots) /\ ResponseWire(r) \in Seq(Slots)
  <2>1. HeadWire(r) \in Seq(Slots) /\ ResponseWire(r) \in Seq(Slots)
    BY ResponseWireType
  <2>2. Payload(r) \in Seq(Slots)
    BY ResponseType, FlattenType DEF Payload
  <2>3. r.chunked => ChunkedBody(r.pieces) \in Seq(Slots)
    BY ResponseType, ChunksType, ChunksAssumption DEF ChunksAssumption, SizedPieces
  <2> QED BY <2>1, <2>2, <2>3, PrefixOfConcat DEF ResponseWire
<1>6. IsPrefix(BeforeHead(r, h + 1), ResponseWire(r))
  BY <1>4, <1>5, PrefixTransitive
<1>7. /\ T(l) \in Seq(Slots) /\ IsPrefix(T(l), Lines(ls))
      /\ l = 1 => T(l) = <<>>
      /\ l = Len(ls) + 1 => T(l) = Lines(ls)
      /\ l <= Len(ls) => T(l + 1) = T(l) \o (ls[l] \o CRLF)
  <2>1. l \in Nat \ {0} /\ l <= Len(ts) + 1 /\ (l <= Len(ls) => l \in 1..Len(ls))
    BY <1>1, <1>2
  <2> QED BY <1>2, <2>1, FlattenCut, ZenonT(60)
<1>8. BeforeLine(r, h, l) = B \o T(l) /\ BeforeLine(r, h, l + 1) = B \o T(l + 1)
  BY DEF BeforeLine
<1> HIDE DEF T, B, ts, hs, ls
<1>9. BeforeLine(r, h, l) \in Seq(Slots)
  BY <1>4, <1>7, <1>8, ConcatProperties
<1>10. BeforeHead(r, h + 1) = (B \o Lines(ls)) \o CRLF
  <2>1. B \in Seq(Slots) /\ Lines(ls) \in Seq(Slots)
    BY <1>2, <1>4
  <2>2. B \o (Lines(ls) \o CRLF) = (B \o Lines(ls)) \o CRLF
    <3>1. Associates(B, Lines(ls), CRLF)
      BY <2>1, CRLFType, Associative
    <3> QED BY <3>1 DEF Associates
  <2> QED BY <1>3, <1>4, <2>2
<1>11. IsPrefix(BeforeLine(r, h, l), ResponseWire(r))
  <2>1. IsPrefix(B \o T(l), B \o Lines(ls))
    BY <1>2, <1>4, <1>7, PrefixConcat
  <2>2. B \o Lines(ls) \in Seq(Slots)
    BY <1>2, <1>4, ConcatProperties
  <2>3. IsPrefix(B \o Lines(ls), BeforeHead(r, h + 1))
    BY <1>10, <2>2, CRLFType, PrefixOfConcat
  <2>4. IsPrefix(B \o T(l), BeforeHead(r, h + 1))
    BY <1>4, <1>8, <1>9, <2>1, <2>2, <2>3, PrefixTransitive
  <2> QED BY <1>4, <1>5, <1>6, <1>8, <1>9, <2>4, PrefixTransitive
<1>12. l <= Len(ls) => BeforeLine(r, h, l + 1) = BeforeLine(r, h, l) \o (ls[l] \o CRLF)
  <2> SUFFICES ASSUME l <= Len(ls)
               PROVE  B \o (T(l) \o (ls[l] \o CRLF)) = (B \o T(l)) \o (ls[l] \o CRLF)
    BY <1>7, <1>8
  <2> DEFINE t == ls[l] \o CRLF
  <2>1. t \in Seq(Slots)
    <3>1. l \in 1..Len(ls)
      BY <1>1
    <3>2. ls[l] \in Seq(Slots)
      BY <1>1, <3>1
    <3> QED BY <3>2, LineText
  <2> HIDE DEF t
  <2>2. B \o (T(l) \o t) = (B \o T(l)) \o t
    <3>1. B \in Seq(Slots) /\ T(l) \in Seq(Slots)
      BY <1>4, <1>7
    <3>2. Associates(B, T(l), t)
      BY <2>1, <3>1, Associative
    <3> QED BY <3>2 DEF Associates
  <2> QED BY <2>2 DEF t
<1>13. l = 1 => BeforeLine(r, h, l) = B
  <2> SUFFICES ASSUME l = 1 PROVE B \o <<>> = B
    BY <1>7, <1>8
  <2> QED BY <1>4, ConcatEmptySeq
<1>14. l = Len(ls) + 1 => BeforeHead(r, h + 1) = BeforeLine(r, h, l) \o CRLF
  BY <1>7, <1>8, <1>10
<1> QED BY <1>4, <1>6, <1>9, <1>11, <1>12, <1>13, <1>14 DEF ls, B

\* What is told of the response up to line l of section h.
LEMMA FitPlace ==
  ASSUME NEW r \in Responses, NEW h \in 1..Len(r.heads), NEW l \in 1..Len(r.heads[h]) + 1
  PROVE  /\ FitBefore(r, h, l) \in Seq(Seq(Slots))
         /\ IsPrefix(FitBefore(r, h, l), FittingLines(r))
         /\ l <= Len(r.heads[h]) => FitBefore(r, h, l + 1) = FitBefore(r, h, l) \o FittingLine(r.heads[h][l])
         /\ h = 1 /\ l = 1 => FitBefore(r, h, l) = <<>>
         /\ l = Len(r.heads[h]) + 1 /\ h < Len(r.heads) => FitBefore(r, h, l) = FitBefore(r, h + 1, 1)
         /\ l = Len(r.heads[h]) + 1 /\ h = Len(r.heads) => FitBefore(r, h, l) = FittingLines(r)
<1> DEFINE ls == r.heads[h]
           ts == Fitting(ls)
           hs == FittingHeads(r)
           B(k) == FlattenSeq(SubSeq(hs, 1, k - 1))
           T(k) == FlattenSeq(SubSeq(ts, 1, k - 1))
           W == FlattenSeq(ts)
<1>1. /\ ls \in Seq(Seq(Slots)) /\ Len(ls) \in Nat /\ Len(r.heads) \in Nat
      /\ \A k \in 1..Len(ls) : ls[k] \in Seq(Slots)
  BY ResponseType
<1>2. /\ ts \in Seq(Seq(Seq(Slots))) /\ Len(ts) = Len(ls) /\ (\A k \in 1..Len(ls) : ts[k] = FittingLine(ls[k]))
      /\ W \in Seq(Seq(Slots))
  BY <1>1, LineTextsType
<1>3. hs \in Seq(Seq(Seq(Slots))) /\ Len(hs) = Len(r.heads) /\ hs[h] = W
      /\ FittingLines(r) = FlattenSeq(hs) /\ FittingLines(r) \in Seq(Seq(Slots))
  BY HeadSectionsType DEF FittingLines
<1>4. /\ B(h) \in Seq(Seq(Slots)) /\ B(h + 1) \in Seq(Seq(Slots)) /\ B(h + 1) = B(h) \o W
      /\ IsPrefix(B(h + 1), FittingLines(r))
      /\ h = 1 => B(h) = <<>>
      /\ h = Len(r.heads) => B(h + 1) = FittingLines(r)
  <2>1. h \in Nat \ {0} /\ h <= Len(hs) /\ h <= Len(hs) + 1
        /\ h + 1 \in Nat \ {0} /\ h + 1 <= Len(hs) + 1 /\ (h = Len(r.heads) => h + 1 = Len(hs) + 1)
    BY <1>1, <1>3, SMTT(30)
  <2>2. B(h) \in Seq(Seq(Slots)) /\ B(h + 1) = B(h) \o hs[h] /\ (h = 1 => B(h) = <<>>)
    <3>1. hs \in Seq(Seq(Seq(Slots)))
      BY <1>3
    <3> HIDE DEF hs, ts, ls
    <3> QED BY <2>1, <3>1, FlattenCut, ZenonT(60)
  <2>3. /\ B(h + 1) \in Seq(Seq(Slots)) /\ IsPrefix(B(h + 1), FittingLines(r))
        /\ h + 1 = Len(hs) + 1 => B(h + 1) = FittingLines(r)
    <3>1. hs \in Seq(Seq(Seq(Slots))) /\ FittingLines(r) = FlattenSeq(hs)
      BY <1>3
    <3> HIDE DEF hs, ts, ls
    <3> QED BY <2>1, <3>1, FlattenCut, ZenonT(60)
  <2> QED BY <1>3, <2>1, <2>2, <2>3
<1>5. /\ T(l) \in Seq(Seq(Slots)) /\ IsPrefix(T(l), W)
      /\ l = 1 => T(l) = <<>>
      /\ l = Len(ls) + 1 => T(l) = W
      /\ l <= Len(ls) => T(l + 1) = T(l) \o FittingLine(ls[l])
  <2>1. l \in Nat \ {0} /\ l <= Len(ts) + 1 /\ (l <= Len(ls) => l \in 1..Len(ls))
    BY <1>1, <1>2
  <2> QED BY <1>2, <2>1, FlattenCut, ZenonT(60)
<1>6. FitBefore(r, h, l) = B(h) \o T(l) /\ FitBefore(r, h, l + 1) = B(h) \o T(l + 1)
  BY DEF FitBefore
<1>7. h < Len(r.heads) => FitBefore(r, h + 1, 1) = B(h + 1)
  <2>1. SubSeq(Fitting(r.heads[h + 1]), 1, 1 - 1) = <<>>
    OBVIOUS
  <2>2. FitBefore(r, h + 1, 1) = B(h + 1) \o <<>>
    BY <2>1, FlattenEmpty DEF FitBefore
  <2> QED BY <1>4, <2>2, ConcatEmptySeq
<1> HIDE DEF T, B, ts, hs, ls, W
<1>8. FitBefore(r, h, l) \in Seq(Seq(Slots))
  BY <1>4, <1>5, <1>6, ConcatProperties
<1>9. IsPrefix(FitBefore(r, h, l), FittingLines(r))
  <2>1. IsPrefix(B(h) \o T(l), B(h) \o W)
    BY <1>2, <1>4, <1>5, PrefixConcat
  <2> QED BY <1>3, <1>4, <1>6, <1>8, <2>1, PrefixTransitive
<1>10. l <= Len(ls) => FitBefore(r, h, l + 1) = FitBefore(r, h, l) \o FittingLine(ls[l])
  <2> SUFFICES ASSUME l <= Len(ls)
               PROVE  B(h) \o (T(l) \o FittingLine(ls[l])) = (B(h) \o T(l)) \o FittingLine(ls[l])
    BY <1>5, <1>6
  <2> DEFINE t == FittingLine(ls[l])
  <2>1. t \in Seq(Seq(Slots))
    <3>1. l \in 1..Len(ls)
      BY <1>1
    <3>2. ls[l] \in Seq(Slots)
      BY <1>1, <3>1
    <3>3. <<ls[l]>> \in Seq(Seq(Slots)) /\ <<>> \in Seq(Seq(Slots))
      BY <3>2
    <3> QED BY <3>3 DEF FittingLine
  <2> HIDE DEF t
  <2>2. B(h) \o (T(l) \o t) = (B(h) \o T(l)) \o t
    <3>1. B(h) \in Seq(Seq(Slots)) /\ T(l) \in Seq(Seq(Slots))
      BY <1>4, <1>5
    <3> DEFINE b == B(h)
               u == T(l)
               Q == Seq(Slots)
    <3>2. b \in Seq(Q) /\ u \in Seq(Q) /\ t \in Seq(Q)
      BY <2>1, <3>1
    <3> HIDE DEF b, u, Q
    <3>3. (b \o u) \o t = b \o (u \o t)
      <4>1. Associates(b, u, t)
        BY <3>2, Associative
      <4> QED BY <4>1 DEF Associates
    <3> QED BY <3>3 DEF b, u
  <2> QED BY <2>2 DEF t
<1>11. h = 1 /\ l = 1 => FitBefore(r, h, l) = <<>>
  <2> SUFFICES ASSUME h = 1, l = 1 PROVE <<>> \o <<>> = <<>>
    BY <1>4, <1>5, <1>6
  <2> QED OBVIOUS
<1>12. l = Len(ls) + 1 => FitBefore(r, h, l) = B(h + 1)
  BY <1>4, <1>5, <1>6
<1> QED BY <1>4, <1>7, <1>8, <1>9, <1>10, <1>11, <1>12 DEF ls

\* Whether a Transfer-Encoding line was among them.
LEMMA CodingPlace ==
  ASSUME NEW r \in Responses, NEW h \in 1..Len(r.heads), NEW l \in 1..Len(r.heads[h]) + 1
  PROVE  /\ TEBefore(r, h, l) \in BOOLEAN
         /\ l <= Len(r.heads[h]) => (TEBefore(r, h, l + 1) <=> r.heads[h][l][1] = "TE" \/ TEBefore(r, h, l))
         /\ h = 1 /\ l = 1 => ~TEBefore(r, h, l)
         /\ l = Len(r.heads[h]) + 1 /\ h < Len(r.heads) => (TEBefore(r, h, l) <=> TEBefore(r, h + 1, 1))
         /\ l = Len(r.heads[h]) + 1 /\ h = Len(r.heads) /\ CodingTold(r) => (TEBefore(r, h, l) <=> r.chunked)
<1> DEFINE n == Len(r.heads[h])
           N == Len(r.heads)
           te(i, k) == r.heads[i][k][1] = "TE"
<1>1. /\ n \in Nat /\ N \in Nat /\ DOMAIN r.heads = 1..N /\ DOMAIN r.heads[h] = 1..n /\ r.chunked \in BOOLEAN
  BY ResponseType
<1>2. \A i, k : te(i, k) \in BOOLEAN
  OBVIOUS
<1>3. TEBefore(r, h, l) <=> \/ \E i \in 1..h - 1 : \E k \in DOMAIN r.heads[i] : te(i, k)
                            \/ \E k \in 1..l - 1 : te(h, k)
  BY DEF TEBefore
<1>4. TEBefore(r, h, l + 1) <=> \/ \E i \in 1..h - 1 : \E k \in DOMAIN r.heads[i] : te(i, k)
                                \/ \E k \in 1..(l + 1) - 1 : te(h, k)
  BY DEF TEBefore
<1>5. TEBefore(r, h + 1, 1) <=> \/ \E i \in 1..(h + 1) - 1 : \E k \in DOMAIN r.heads[i] : te(i, k)
                                \/ \E k \in 1..1 - 1 : te(h + 1, k)
  BY DEF TEBefore
<1>6. CodingTold(r) => (r.chunked <=> \E i \in DOMAIN r.heads : \E k \in DOMAIN r.heads[i] : te(i, k))
  BY DEF CodingTold
<1>7. r.heads[h][l][1] = "TE" <=> te(h, l)
  OBVIOUS
<1>8. h \in Nat /\ l \in Nat /\ 1..(l + 1) - 1 = 1..l - 1 \cup {l} /\ 1..(h + 1) - 1 = 1..h - 1 \cup {h}
      /\ 1..1 - 1 = {} /\ (h = 1 => 1..h - 1 = {}) /\ (l = 1 => 1..l - 1 = {})
      /\ (l = n + 1 => 1..l - 1 = 1..n) /\ (h = N => 1..N = 1..h - 1 \cup {h})
  BY <1>1
<1> HIDE DEF te
<1>9. TEBefore(r, h, l) \in BOOLEAN
  BY DEF TEBefore
<1>10. TEBefore(r, h, l + 1) <=> te(h, l) \/ TEBefore(r, h, l)
  BY <1>3, <1>4, <1>8
<1>11. h = 1 /\ l = 1 => ~TEBefore(r, h, l)
  BY <1>3, <1>8
<1>12. l = n + 1 => (TEBefore(r, h, l) <=> TEBefore(r, h + 1, 1))
  BY <1>1, <1>3, <1>5, <1>8
<1>13. l = n + 1 /\ h = N /\ CodingTold(r) => (TEBefore(r, h, l) <=> r.chunked)
  <2> SUFFICES ASSUME l = n + 1, h = N, CodingTold(r) PROVE TEBefore(r, h, l) <=> r.chunked
    OBVIOUS
  <2>1. DOMAIN r.heads = 1..h - 1 \cup {h} /\ DOMAIN r.heads[h] = 1..l - 1
    BY <1>1, <1>8
  <2>2. r.chunked <=> \/ \E i \in 1..h - 1 : \E k \in DOMAIN r.heads[i] : te(i, k)
                      \/ \E k \in DOMAIN r.heads[h] : te(h, k)
    BY <1>6, <2>1, Zenon
  <2> QED BY <1>3, <2>1, <2>2
<1> QED BY <1>7, <1>9, <1>10, <1>11, <1>12, <1>13 DEF n

-----------------------------------------------------------------------------
(* The head of the response, as the handlers read it.                      *)

\* After text come the slots of rest, as far as they go.
Ahead(text, rest) == IsPrefix(text \o rest, ResponseWire(resp))

\* cb_header has had what fits of the lines before line l of section h.
AtLine(h, l) ==
  /\ h \in 1..Len(resp.heads) /\ l \in 1..Len(resp.heads[h]) + 1
  /\ hdrs = FitBefore(resp, h, l)
  /\ chunkedResp = TEBefore(resp, h, l)
  /\ got = <<>>

StatusKnown(h) == status = "1xx" <=> h < Len(resp.heads)

\* The buffer goes on at the d-th slot of a line too long for it, perhaps after a stray CR.
Skipping(h, l, d, stray) ==
  LET line == resp.heads[h][l] IN
  /\ l <= Len(resp.heads[h]) /\ FittingLine(line) = <<>>
  /\ d <= Len(line) /\ IsPrefix(stray, hbuf)
  /\ Ahead(BeforeLine(resp, h, l) \o SubSeq(line, 1, d),
           SubSeq(hbuf, Len(stray) + 1, Len(hbuf)) \o wire)
  /\ IF d = 0 THEN stray = <<>> /\ hbuf # <<>> ELSE line[1] # "TE"

NotYetRead ==
  state \in {"IDLE", "CONNECT"} \cup ReqStates =>
    /\ hdrs = <<>> /\ got = <<>> /\ chunkedResp = FALSE /\ hbuf = <<>>
    /\ app = "performing" => IsPrefix(wire, ResponseWire(resp))

StatusIn ==
  /\ state \in {"RESP_STATUS_READ", "RESP_STATUS_PARSE"} =>
       \E h \in 1..Len(resp.heads) : AtLine(h, 1) /\ Ahead(BeforeLine(resp, h, 1), hbuf \o wire)
  /\ state = "RESP_STATUS_PARSE" => HasCRLF(hbuf)

LinesIn ==
  state \in {"RESP_HEADER_CALLBACK", "RESP_HEADER_READ"} =>
    /\ RespHeaderBuffSize >= 3
    /\ \E h \in 1..Len(resp.heads) : \E l \in 1..Len(resp.heads[h]) + 1 :
         AtLine(h, l) /\ StatusKnown(h) /\ Ahead(BeforeLine(resp, h, l), hbuf \o wire)

SkipIn ==
  state = "RESP_HEADER_SKIP" =>
    /\ RespHeaderBuffSize >= 3 /\ ~HasCRLF(hbuf)
    /\ \E h \in 1..Len(resp.heads) : \E l \in 1..Len(resp.heads[h]) + 1 :
         /\ AtLine(h, l) /\ StatusKnown(h)
         /\ \E d \in Nat : \E stray \in {<<>>, <<"CR">>} : Skipping(h, l, d, stray)

PlainStates == {"RESP_BODY_FRAGMENT", "RESP_BODY_READ", "RESP_BODY_CALLBACK"}
ChunkedStates == {"RESP_BODY_PARSE_CHUNK_SIZE", "READ_CHUNK_SIZE_FROM_HEADER_BUFF",
  "RESP_BODY_READ_CHUNK_SIZE", "RESP_BODY_PARSE_CHUNK_BODY", "READ_CHUNK_BODY_FROM_HEADER_BUFF",
  "RESP_BODY_READ_CHUNK_BODY", "RESP_BODY_SKIP_CHUNK_BODY_CRLF", "RESP_BODY_SKIP_TRAILERS"}

\* The body is read after the last line, and as the head said.
PastHead ==
  /\ state \in PlainStates \cup ChunkedStates => hdrs = FittingLines(resp)
  /\ state \in PlainStates => ~resp.chunked
  /\ state \in ChunkedStates => resp.chunked

HeadInv == HeadersFaithful /\ NotYetRead /\ StatusIn /\ LinesIn /\ SkipIn /\ PastHead

\* What was received and what is still to come are what was to come before.
LEMMA ReceivedRest ==
  ASSUME wire \in Seq(Slots), NEW n \in Nat, NEW data \in Received(n), Consume(data),
         NEW kept \in Seq(Slots)
  PROVE  /\ data \in Seq(Slots) /\ wire' \in Seq(Slots) /\ kept \o data \in Seq(Slots)
         /\ Len(data) <= n
         /\ data \o wire' = wire
         /\ (kept \o data) \o wire' = kept \o wire
<1>1. data \in Seq(Slots) /\ Len(data) <= n /\ wire' \in Seq(Slots)
  BY ReceivedPart
<1>2. data \o wire' = wire
  <2>1. CASE data = <<>>
    <3>1. wire' = wire
      <4>1. Len(data) = 0
        BY <2>1
      <4>2. wire' = SubSeq(wire, 1, Len(wire))
        BY <4>1 DEF Consume
      <4> QED BY <4>2
    <3> QED BY <2>1, <3>1, ConcatEmptySeq
  <2>2. CASE data # <<>>
    <3>1. PICK k \in 1..Len(wire) : data = SubSeq(wire, 1, k)
      BY <2>2 DEF Received
    <3>2. k \in 0..Len(wire)
      OBVIOUS
    <3>3. Len(data) = k /\ SubSeq(wire, 1, k) \o SubSeq(wire, k + 1, Len(wire)) = wire
      BY <3>1, <3>2, SplitSeq
    <3>4. wire' = SubSeq(wire, k + 1, Len(wire))
      BY <3>3 DEF Consume
    <3> QED BY <3>1, <3>3, <3>4
  <2> QED BY <2>1, <2>2
<1>3. kept \o data \in Seq(Slots)
  BY <1>1, ConcatProperties
<1>4. (kept \o data) \o wire' = kept \o (data \o wire')
  <2>1. Associates(kept, data, wire')
    BY <1>1, Associative
  <2> QED BY <2>1 DEF Associates
<1> QED BY <1>1, <1>2, <1>3, <1>4

\* The end of a session, in the head or after it.
LEMMA HeadEnded ==
  ASSUME HeadersFaithful', state' \in {"CLOSE", "FINISHED"}
  PROVE  HeadInv'
BY DEF HeadInv, NotYetRead, StatusIn, LinesIn, SkipIn, PastHead, PlainStates, ChunkedStates, ReqStates

\* Nothing was told of the body yet.
LEMMA HeadFaithful ==
  ASSUME TypeOK, NEW h \in 1..Len(resp.heads), NEW l \in 1..Len(resp.heads[h]) + 1,
         hdrs = FitBefore(resp, h, l), got = <<>>
  PROVE  HeadersFaithful
<1>1. IsPrefix(FitBefore(resp, h, l), FittingLines(resp))
  BY FitPlace DEF TypeOK
<1> QED BY <1>1 DEF HeadersFaithful

\* What the fields of the head say about each other holds as long as none of them changes.
LEMMA AtLineKept ==
  ASSUME NEW h, NEW l, UNCHANGED <<resp, hdrs, chunkedResp, got>>
  PROVE  AtLine(h, l)' <=> AtLine(h, l)
BY DEF AtLine, FitBefore, TEBefore, FittingHeads, Fitting, FittingLine

\* Neither does a step that tells nothing change what was told.
LEMMA FaithfulKept ==
  ASSUME HeadersFaithful, UNCHANGED <<resp, hdrs, got>>
  PROVE  HeadersFaithful'
BY DEF HeadersFaithful, FittingLines, FittingHeads, Fitting, FittingLine

\* A call that is to be repeated and one that fails.
LEMMA HeadKept ==
  ASSUME HeadInv, UNCHANGED <<app, resp, state, hdrs, chunkedResp, got, hbuf, wire, status>>
  PROVE  HeadInv'
<1>1. HeadersFaithful' /\ NotYetRead'
  BY FaithfulKept DEF HeadInv, NotYetRead
<1>2. StatusIn'
  BY AtLineKept DEF HeadInv, StatusIn, Ahead, BeforeLine, BeforeHead, HasCRLF, CRLFAt
<1>3. \A h, l : (AtLine(h, l) /\ StatusKnown(h))' <=> AtLine(h, l) /\ StatusKnown(h)
  BY AtLineKept DEF StatusKnown
<1>4. LinesIn'
  BY <1>3 DEF HeadInv, LinesIn, Ahead, BeforeLine, BeforeHead
<1>5. \A h, l, d, stray : Skipping(h, l, d, stray)' <=> Skipping(h, l, d, stray)
  BY DEF Skipping, Ahead, BeforeLine, BeforeHead, FittingLine
<1>6. SkipIn'
  BY <1>3, <1>5 DEF HeadInv, SkipIn, HasCRLF, CRLFAt
<1>7. PastHead'
  BY DEF HeadInv, PastHead, FittingLines, FittingHeads, Fitting, FittingLine
<1> QED BY <1>1, <1>2, <1>4, <1>6, <1>7 DEF HeadInv

\* Reading and parsing the status line keeps the reader in step with the head.
LEMMA StatusReadHead ==
  ASSUME TypeOK, NoOverflow, HeadInv, RespStatusRead
  PROVE  HeadInv'
<1> USE DEF RespUnchanged, ownVars
<1>1. PICK h \in 1..Len(resp.heads) : AtLine(h, 1) /\ Ahead(BeforeLine(resp, h, 1), hbuf \o wire)
  BY DEF RespStatusRead, HeadInv, StatusIn
<1>2. CASE Again
  BY <1>2, HeadKept DEF Again, vars, respVars, parseVars
<1>3. CASE RecvFails /\ RespUnchanged
  <2>1. UNCHANGED <<resp, hdrs, got>> /\ state' = "CLOSE"
    BY <1>3 DEF RecvFails, respVars, parseVars, Abort
  <2> QED BY <2>1, FaithfulKept, HeadEnded DEF HeadInv
<1>4. ASSUME NEW data \in Received(HeaderRoom), Consume(data), hbuf' = hbuf \o data,
             IF HasCRLF(hbuf') THEN Goto("RESP_STATUS_PARSE") ELSE Abort("TOO_LARGE_DATA"),
             UNCHANGED <<app, resp, hdrs, chunkedResp, got, status>>
      PROVE  HeadInv'
  <2>1. HeaderRoom \in Nat /\ hbuf \in Seq(Slots) /\ wire \in Seq(Slots)
    BY RespHeaderBuffSizeAssumption DEF RespHeaderBuffSizeAssumption, HeaderRoom, TypeOK, NoOverflow
  <2>2. hbuf' \o wire' = hbuf \o wire
    BY <1>4, <2>1, ReceivedRest
  <2>3. CASE HasCRLF(hbuf')
    <3>1. state' = "RESP_STATUS_PARSE"
      BY <1>4, <2>3 DEF Goto
    <3>2. AtLine(h, 1)'
      BY <1>1, <1>4, AtLineKept
    <3>3. Ahead(BeforeLine(resp, h, 1), hbuf \o wire)'
      BY <1>1, <1>4, <2>2 DEF Ahead, BeforeLine, BeforeHead
    <3>4. StatusIn'
      BY <1>4, <2>3, <3>1, <3>2, <3>3 DEF StatusIn
    <3>5. HeadersFaithful'
      BY <1>4, FaithfulKept DEF HeadInv
    <3> QED BY <3>1, <3>4, <3>5 DEF HeadInv, NotYetRead, LinesIn, SkipIn, PastHead, PlainStates, ChunkedStates, ReqStates
  <2>4. CASE ~HasCRLF(hbuf')
    <3>1. state' = "CLOSE"
      BY <1>4, <2>4 DEF Abort
    <3> QED BY <1>4, <3>1, FaithfulKept, HeadEnded DEF HeadInv
  <2> QED BY <2>3, <2>4
<1> QED BY <1>2, <1>3, <1>4 DEF RespStatusRead

\* The first line of a buffer.
FirstLine(buf, line) == LineOf(buf) = line
FirstSlot(buf, line) == buf # <<>> => buf[1] = line[1]

\* A buffer that goes on at a line of the head.
LEMMA LineAt ==
  ASSUME TypeOK, AllWellFormed, NEW h \in 1..Len(resp.heads), NEW l \in 1..Len(resp.heads[h]),
         NEW buf \in Seq(Slots), NEW more \in Seq(Slots), Ahead(BeforeLine(resp, h, l), buf \o more)
  PROVE  /\ resp.heads[h][l] \in Seq(Slots) /\ Len(resp.heads[h][l]) >= 1
         /\ HasCRLF(buf) <=> Len(resp.heads[h][l]) + 2 <= Len(buf)
         /\ HasCRLF(buf) => FirstLine(buf, resp.heads[h][l]) /\ AfterLine(buf) \in Seq(Slots)
         /\ HasCRLF(buf) => Ahead(BeforeLine(resp, h, l + 1), AfterLine(buf) \o more)
         /\ FirstSlot(buf, resp.heads[h][l])
<1> DEFINE line == resp.heads[h][l]
           base == BeforeLine(resp, h, l)
           u == ResponseWire(resp)
<1>1. resp \in Responses /\ WellFormed(resp)
  BY DEF TypeOK, AllWellFormed
<1>2. /\ line \in Seq(Slots) /\ Len(line) >= 1 /\ Len(line) \in Nat /\ Len(resp.heads[h]) \in Nat
      /\ DOMAIN resp.heads = 1..Len(resp.heads) /\ DOMAIN resp.heads[h] = 1..Len(resp.heads[h])
  BY <1>1, ResponseType
<1>3. Unbroken(line)
  <2>1. \A k \in DOMAIN line : line[k] \notin {"CR", "LF"}
    BY <1>1, <1>2 DEF WellFormed, LinesUnbroken
  <2>2. DOMAIN line = 1..Len(line)
    BY <1>2
  <2> QED BY <2>1, <2>2 DEF Unbroken
<1>4. base \in Seq(Slots) /\ BeforeLine(resp, h, l + 1) = base \o (line \o CRLF)
      /\ IsPrefix(BeforeLine(resp, h, l + 1), u) /\ u \in Seq(Slots)
  <2>1. l \in 1..Len(resp.heads[h]) + 1 /\ l + 1 \in 1..Len(resp.heads[h]) + 1 /\ l <= Len(resp.heads[h])
    BY <1>2
  <2>2. IsPrefix(BeforeLine(resp, h, l + 1), u)
    BY <1>1, <2>1, LinePlace
  <2>3. base \in Seq(Slots) /\ BeforeLine(resp, h, l + 1) = base \o (line \o CRLF)
    BY <1>1, <2>1, LinePlace
  <2>4. u \in Seq(Slots)
    BY <1>1, ResponseWireType
  <2> QED BY <2>2, <2>3, <2>4
<1>5. IsPrefix(base \o (buf \o more), u)
  BY DEF Ahead
<1> HIDE DEF line, base, u
<1>6. /\ HasCRLF(buf) <=> Len(line) + 2 <= Len(buf)
      /\ HasCRLF(buf) => /\ LineOf(buf) = line
                         /\ AfterLine(buf) \in Seq(Slots)
                         /\ IsPrefix((base \o (line \o CRLF)) \o (AfterLine(buf) \o more), u)
      /\ \A k \in 1..Len(buf) : k <= Len(line) => buf[k] = line[k]
  <2>1. IsPrefix(base \o (line \o CRLF), u)
    BY <1>4
  <2> QED BY <1>2, <1>3, <1>4, <1>5, <2>1, LineRead
<1>7. FirstSlot(buf, line)
  <2> SUFFICES ASSUME buf # <<>> PROVE buf[1] = line[1]
    BY DEF FirstSlot
  <2>1. 1 \in 1..Len(buf) /\ 1 <= Len(line)
    BY <1>2, EmptySeq
  <2> QED BY <1>6, <2>1
<1>8. HasCRLF(buf) => Ahead(BeforeLine(resp, h, l + 1), AfterLine(buf) \o more)
  BY <1>4, <1>6 DEF Ahead, u
<1>9. HasCRLF(buf) => FirstLine(buf, line)
  BY <1>6 DEF FirstLine
<1> QED BY <1>2, <1>6, <1>7, <1>8, <1>9 DEF line

\* A buffer that goes on at the empty line after a section.
LEMMA EndAt ==
  ASSUME TypeOK, NEW h \in 1..Len(resp.heads), NEW l, l = Len(resp.heads[h]) + 1,
         NEW buf \in Seq(Slots), NEW more \in Seq(Slots), Ahead(BeforeLine(resp, h, l), buf \o more)
  PROVE  /\ HasCRLF(buf) <=> 2 <= Len(buf)
         /\ HasCRLF(buf) => /\ LineOf(buf) = <<>>
                            /\ AfterLine(buf) \in Seq(Slots)
                            /\ Ahead(BeforeHead(resp, h + 1), AfterLine(buf) \o more)
<1> DEFINE base == BeforeLine(resp, h, l)
           u == ResponseWire(resp)
           line == <<>>
<1>1. resp \in Responses
  BY DEF TypeOK
<1>2. base \in Seq(Slots) /\ BeforeHead(resp, h + 1) = base \o CRLF
      /\ IsPrefix(BeforeHead(resp, h + 1), u) /\ u \in Seq(Slots)
  <2>1. l \in 1..Len(resp.heads[h]) + 1
    BY <1>1, ResponseType
  <2>2. base \in Seq(Slots) /\ BeforeHead(resp, h + 1) = base \o CRLF /\ IsPrefix(BeforeHead(resp, h + 1), u)
    BY <1>1, <2>1, LinePlace
  <2> QED BY <1>1, <2>2, ResponseWireType
<1>3. line \in Seq(Slots) /\ Len(line) = 0 /\ Unbroken(line) /\ line \o CRLF = CRLF
  <2>1. line \in Seq(Slots) /\ Len(line) = 0 /\ Unbroken(line)
    BY DEF Unbroken
  <2> QED BY <2>1, CRLFType, ConcatEmptySeq
<1>4. IsPrefix(base \o (buf \o more), u)
  BY DEF Ahead
<1> HIDE DEF line, base, u
<1>5. /\ HasCRLF(buf) <=> Len(line) + 2 <= Len(buf)
      /\ HasCRLF(buf) => /\ LineOf(buf) = line
                         /\ AfterLine(buf) \in Seq(Slots)
                         /\ IsPrefix((base \o (line \o CRLF)) \o (AfterLine(buf) \o more), u)
  <2>1. IsPrefix(base \o (line \o CRLF), u)
    BY <1>2, <1>3
  <2> QED BY <1>2, <1>3, <1>4, <2>1, LineRead, ZenonT(60)
<1>6. HasCRLF(buf) <=> 2 <= Len(buf)
  BY <1>3, <1>5
<1>7. HasCRLF(buf) => Ahead(BeforeHead(resp, h + 1), AfterLine(buf) \o more)
  BY <1>2, <1>3, <1>5 DEF Ahead, u
<1> QED BY <1>5, <1>6, <1>7 DEF line

\* The status line says whether the section is an interim one.
LEMMA StatusParseHead ==
  ASSUME TypeOK, NoOverflow, AllWellFormed, HeadInv, RespStatusParse
  PROVE  HeadInv'
<1> USE DEF RespUnchanged, ownVars
<1>0. state = "RESP_STATUS_PARSE" /\ UNCHANGED <<resp, hbuf, wire, hdrs, got, chunkedResp>>
  BY DEF RespStatusParse
<1>1. PICK h \in 1..Len(resp.heads) : AtLine(h, 1) /\ Ahead(BeforeLine(resp, h, 1), hbuf \o wire)
  BY <1>0 DEF HeadInv, StatusIn
<1>2. HeadersFaithful'
  BY <1>0, FaithfulKept DEF HeadInv
<1>3. CASE hbuf[1] \notin {"s1xx", "s200"}
  <2>1. state' = "CLOSE"
    BY <1>3 DEF RespStatusParse, Abort
  <2> QED BY <1>2, <2>1, HeadEnded
<1>4. CASE hbuf[1] \in {"s1xx", "s200"}
  <2> DEFINE line == resp.heads[h][1]
  <2>1. resp \in Responses /\ WellFormed(resp) /\ hbuf \in Seq(Slots) /\ wire \in Seq(Slots) /\ HasCRLF(hbuf)
    BY <1>0 DEF TypeOK, AllWellFormed, HeadInv, StatusIn
  <2>2. 1 \in 1..Len(resp.heads[h]) /\ 1 \in 1..Len(resp.heads[h]) + 1 /\ DOMAIN resp.heads = 1..Len(resp.heads)
        /\ Len(resp.heads) \in Nat
    <3>1. /\ Len(resp.heads[h]) \in Nat /\ Len(resp.heads[h]) >= 1 /\ Len(resp.heads) \in Nat
          /\ DOMAIN resp.heads = 1..Len(resp.heads)
      BY <2>1, ResponseType
    <3> QED BY <3>1
  <2>3. line \in Seq(Slots) /\ Len(line) >= 1 /\ Len(line) + 2 <= Len(hbuf) /\ FirstSlot(hbuf, line)
    <3>1. Ahead(BeforeLine(resp, h, 1), hbuf \o wire)
      BY <1>1
    <3>2. hbuf \in Seq(Slots) /\ wire \in Seq(Slots) /\ HasCRLF(hbuf) /\ 1 \in 1..Len(resp.heads[h])
      BY <2>1, <2>2
    <3>3. line \in Seq(Slots) /\ Len(line) >= 1 /\ (HasCRLF(hbuf) <=> Len(line) + 2 <= Len(hbuf))
      BY <3>1, <3>2, LineAt
    <3>4. FirstSlot(hbuf, line)
      BY <3>1, <3>2, LineAt
    <3> QED BY <3>2, <3>3, <3>4
  <2>4. hbuf[1] = line[1] /\ Len(hbuf) >= 3 /\ Len(hbuf) \in Nat
    <3>1. Len(hbuf) \in Nat /\ Len(line) \in Nat
      BY <2>1, <2>3
    <3>2. Len(hbuf) >= 3
      BY <2>3, <3>1
    <3>3. hbuf # <<>>
      BY <3>2, EmptySeq
    <3> QED BY <2>3, <3>1, <3>2, <3>3 DEF FirstSlot
  <2>5. RespHeaderBuffSize >= 3
    BY <2>4, RespHeaderBuffSizeAssumption DEF NoOverflow, RespHeaderBuffSizeAssumption
  <2>6. (line[1] = "s1xx" => h < Len(resp.heads)) /\ (line[1] = "s200" => h = Len(resp.heads))
    BY <2>1, <2>2 DEF WellFormed, InterimFirst
  <2> HIDE DEF line
  <2>7. state' = "RESP_HEADER_CALLBACK" /\ status' = IF hbuf[1] = "s1xx" THEN "1xx" ELSE "final"
    BY <1>4 DEF RespStatusParse, Goto
  <2>8. StatusKnown(h)'
    <3>1. hbuf[1] = "s1xx" \/ hbuf[1] = "s200"
      BY <1>4
    <3>2. hbuf[1] = "s1xx" <=> h < Len(resp.heads)
      BY <2>2, <2>4, <2>6, <3>1
    <3> QED BY <1>0, <2>7, <3>2 DEF StatusKnown
  <2>9. AtLine(h, 1)' /\ Ahead(BeforeLine(resp, h, 1), hbuf \o wire)'
    BY <1>0, <1>1, AtLineKept DEF Ahead, BeforeLine, BeforeHead
  <2>10. LinesIn'
    BY <1>0, <2>2, <2>5, <2>8, <2>9 DEF LinesIn
  <2> QED BY <1>2, <2>7, <2>10 DEF HeadInv, NotYetRead, StatusIn, SkipIn, PastHead, PlainStates, ChunkedStates, ReqStates
<1> QED BY <1>3, <1>4

\* The buffer is full, or more of a line is read.
LEMMA IncompleteHead ==
  ASSUME TypeOK, NoOverflow, AllWellFormed, HeadInv, state = "RESP_HEADER_CALLBACK",
         HeaderIncomplete, RespUnchanged
  PROVE  HeadInv'
<1>0. UNCHANGED <<app, resp, hbuf, wire, hdrs, got, chunkedResp, status>> /\ ~HasCRLF(hbuf)
      /\ state' = (IF HeaderRoom = 0 THEN "RESP_HEADER_SKIP" ELSE "RESP_HEADER_READ")
  BY DEF HeaderIncomplete, RespUnchanged, ownVars, respVars, parseVars, Goto
<1>a. PICK h \in 1..Len(resp.heads) : \E l \in 1..Len(resp.heads[h]) + 1 :
        AtLine(h, l) /\ StatusKnown(h) /\ Ahead(BeforeLine(resp, h, l), hbuf \o wire)
  BY DEF HeadInv, LinesIn
<1>1. PICK l \in 1..Len(resp.heads[h]) + 1 :
        AtLine(h, l) /\ StatusKnown(h) /\ Ahead(BeforeLine(resp, h, l), hbuf \o wire)
  BY <1>a
<1>2. HeadersFaithful'
  BY <1>0, FaithfulKept DEF HeadInv
<1>3. AtLine(h, l)' /\ StatusKnown(h)' /\ RespHeaderBuffSize >= 3
  BY <1>0, <1>1, AtLineKept DEF StatusKnown, HeadInv, LinesIn
<1>4. CASE HeaderRoom # 0
  <2>1. Ahead(BeforeLine(resp, h, l), hbuf \o wire)'
    BY <1>0, <1>1 DEF Ahead, BeforeLine, BeforeHead
  <2>2. LinesIn'
    BY <1>0, <1>3, <2>1 DEF LinesIn
  <2> QED
    BY <1>0, <1>2, <1>4, <2>2
    DEF HeadInv, NotYetRead, StatusIn, SkipIn, PastHead, PlainStates, ChunkedStates, ReqStates
<1>5. CASE HeaderRoom = 0
  <2> DEFINE line == resp.heads[h][l]
             base == BeforeLine(resp, h, l)
  <2>1. hbuf \in Seq(Slots) /\ wire \in Seq(Slots) /\ resp \in Responses
    BY DEF TypeOK
  <2>2. Len(hbuf) \in Nat /\ Len(hbuf) = RespHeaderBuffSize - 1 /\ Len(hbuf) >= 2 /\ RespHeaderBuffSize \in Nat
    BY <1>3, <1>5, <2>1, RespHeaderBuffSizeAssumption DEF HeaderRoom, RespHeaderBuffSizeAssumption
  <2>3. Len(resp.heads[h]) \in Nat
    BY <2>1, ResponseType
  <2>4. l # Len(resp.heads[h]) + 1
    BY <1>0, <1>1, <2>1, <2>2, EndAt
  <2>5. l \in 1..Len(resp.heads[h]) /\ l <= Len(resp.heads[h])
    BY <2>3, <2>4
  <2>6. line \in Seq(Slots) /\ (HasCRLF(hbuf) <=> Len(line) + 2 <= Len(hbuf))
    BY <1>1, <2>1, <2>5, LineAt
  <2>7. FittingLine(line) = <<>>
    <3>1. Len(line) \in Nat
      BY <2>6
    <3>2. ~(Len(line) + 2 < RespHeaderBuffSize)
      BY <1>0, <2>2, <2>6, <3>1
    <3> QED BY <3>2 DEF FittingLine
  <2>8. hbuf # <<>>
    BY <2>2, EmptySeq
  <2>9. base \in Seq(Slots)
    BY <2>1, LinePlace
  <2>10. base \o SubSeq(line, 1, 0) = base /\ SubSeq(hbuf, Len(<<>>) + 1, Len(hbuf)) = hbuf
    <3>1. SubSeq(line, 1, 0) = <<>> /\ Len(<<>>) + 1 = 1 /\ SubSeq(hbuf, 1, Len(hbuf)) = hbuf
      BY <2>1, <2>6
    <3>2. base \o <<>> = base
      BY <2>9, ConcatEmptySeq
    <3> QED BY <3>1, <3>2
  <2>11. Ahead(base \o SubSeq(line, 1, 0), SubSeq(hbuf, Len(<<>>) + 1, Len(hbuf)) \o wire)
    BY <1>1, <2>10
  <2>12. IsPrefix(<<>>, hbuf)
    <3>1. <<>> \o hbuf = hbuf /\ <<>> \in Seq(Slots)
      BY <2>1, ConcatEmptySeq
    <3> QED BY <2>1, <3>1, PrefixOfConcat
  <2>13. 0 <= Len(line)
    BY <2>6
  <2>14. Skipping(h, l, 0, <<>>)
    BY <2>5, <2>7, <2>8, <2>11, <2>12, <2>13 DEF Skipping
  <2>15. Skipping(h, l, 0, <<>>)'
    BY <1>0, <2>14 DEF Skipping, Ahead, BeforeLine, BeforeHead, FittingLine
  <2>16. SkipIn'
    <3>1. ~HasCRLF(hbuf)' /\ 0 \in Nat /\ <<>> \in {<<>>, <<"CR">>}
      BY <1>0 DEF HasCRLF, CRLFAt
    <3> QED BY <1>0, <1>3, <2>15, <3>1 DEF SkipIn
  <2> QED
    BY <1>0, <1>2, <1>5, <2>16
    DEF HeadInv, NotYetRead, StatusIn, LinesIn, PastHead, PlainStates, ChunkedStates, ReqStates
<1> QED BY <1>4, <1>5

\* The line given to cb_header is the next one that fits.
LEMMA LineTold ==
  ASSUME TypeOK, NoOverflow, AllWellFormed, HeadInv, state = "RESP_HEADER_CALLBACK",
         HasCRLF(hbuf), LineOf(hbuf) # <<>>,
         NEW h \in 1..Len(resp.heads), NEW l \in 1..Len(resp.heads[h]) + 1,
         AtLine(h, l), Ahead(BeforeLine(resp, h, l), hbuf \o wire)
  PROVE  /\ l + 1 \in 1..Len(resp.heads[h]) + 1
         /\ Append(hdrs, LineOf(hbuf)) = FitBefore(resp, h, l + 1)
         /\ (LineOf(hbuf)[1] = "TE" \/ chunkedResp) = TEBefore(resp, h, l + 1)
         /\ Ahead(BeforeLine(resp, h, l + 1), AfterLine(hbuf) \o wire)
<1> DEFINE line == resp.heads[h][l]
<1>1. hbuf \in Seq(Slots) /\ wire \in Seq(Slots) /\ resp \in Responses /\ hdrs \in Seq(Seq(Slots))
      /\ chunkedResp \in BOOLEAN
  BY DEF TypeOK
<1>2. Len(resp.heads[h]) \in Nat
  BY <1>1, ResponseType
<1>3. l # Len(resp.heads[h]) + 1
  BY <1>1, EndAt
<1>4. l \in 1..Len(resp.heads[h]) /\ l <= Len(resp.heads[h]) /\ l + 1 \in 1..Len(resp.heads[h]) + 1
  BY <1>2, <1>3
<1>5. /\ line \in Seq(Slots) /\ Len(line) + 2 <= Len(hbuf) /\ LineOf(hbuf) = line
      /\ Ahead(BeforeLine(resp, h, l + 1), AfterLine(hbuf) \o wire)
  <2>1. hbuf \in Seq(Slots) /\ wire \in Seq(Slots) /\ l \in 1..Len(resp.heads[h])
    BY <1>1, <1>4
  <2>2. line \in Seq(Slots) /\ (HasCRLF(hbuf) <=> Len(line) + 2 <= Len(hbuf))
    BY <2>1, LineAt
  <2>3. FirstLine(hbuf, line) /\ Ahead(BeforeLine(resp, h, l + 1), AfterLine(hbuf) \o wire)
    BY <2>1, LineAt
  <2> QED BY <2>2, <2>3 DEF FirstLine
<1>6. FittingLine(line) = <<line>>
  <2>1. Len(line) + 2 < RespHeaderBuffSize
    BY <1>1, <1>5, RespHeaderBuffSizeAssumption DEF RespHeaderBuffSizeAssumption, NoOverflow
  <2> QED BY <2>1 DEF FittingLine
<1>7. FitBefore(resp, h, l + 1) = FitBefore(resp, h, l) \o FittingLine(line)
  BY <1>1, <1>4, FitPlace
<1>8. TEBefore(resp, h, l + 1) <=> line[1] = "TE" \/ TEBefore(resp, h, l)
  BY <1>1, <1>4, CodingPlace
<1>9. TEBefore(resp, h, l + 1) \in BOOLEAN
  BY <1>1, <1>4, CodingPlace
<1> HIDE DEF line
<1>10. Append(hdrs, line) = hdrs \o <<line>>
  BY <1>1, <1>5
<1>11. Append(hdrs, LineOf(hbuf)) = FitBefore(resp, h, l + 1)
  BY <1>5, <1>6, <1>7, <1>10 DEF AtLine
<1>12. (LineOf(hbuf)[1] = "TE" \/ chunkedResp) = TEBefore(resp, h, l + 1)
  <2>1. chunkedResp <=> TEBefore(resp, h, l)
    BY <1>1 DEF AtLine
  <2> QED BY <1>5, <1>8, <1>9, <2>1
<1> QED BY <1>4, <1>5, <1>11, <1>12

\* A line that cb_header takes, or refuses.
LEMMA LineHead ==
  ASSUME TypeOK, NoOverflow, AllWellFormed, HeadInv, state = "RESP_HEADER_CALLBACK",
         HeaderLine \/ HeaderRefused, RespUnchanged
  PROVE  HeadInv'
<1>0. UNCHANGED <<resp, wire, got, status>> /\ HasCRLF(hbuf) /\ LineOf(hbuf) # <<>>
      /\ hdrs' = Append(hdrs, LineOf(hbuf))
  BY DEF HeaderLine, HeaderRefused, RespUnchanged, ownVars
<1>a. PICK h \in 1..Len(resp.heads) : \E l \in 1..Len(resp.heads[h]) + 1 :
        AtLine(h, l) /\ StatusKnown(h) /\ Ahead(BeforeLine(resp, h, l), hbuf \o wire)
  BY DEF HeadInv, LinesIn
<1>1. PICK l \in 1..Len(resp.heads[h]) + 1 :
        AtLine(h, l) /\ StatusKnown(h) /\ Ahead(BeforeLine(resp, h, l), hbuf \o wire)
  BY <1>a
<1>2. /\ l + 1 \in 1..Len(resp.heads[h]) + 1
      /\ Append(hdrs, LineOf(hbuf)) = FitBefore(resp, h, l + 1)
      /\ (LineOf(hbuf)[1] = "TE" \/ chunkedResp) = TEBefore(resp, h, l + 1)
      /\ Ahead(BeforeLine(resp, h, l + 1), AfterLine(hbuf) \o wire)
  BY <1>0, <1>1, LineTold
<1>3. HeadersFaithful'
  <2>1. IsPrefix(FitBefore(resp, h, l + 1), FittingLines(resp))
    BY <1>2, FitPlace DEF TypeOK
  <2>2. got' = <<>>
    BY <1>0, <1>1 DEF AtLine
  <2> QED BY <1>0, <1>2, <2>1, <2>2 DEF HeadersFaithful, FittingLines, FittingHeads, Fitting, FittingLine
<1>4. CASE HeaderRefused
  <2>1. state' = "CLOSE"
    BY <1>4 DEF HeaderRefused, Abort
  <2> QED BY <1>3, <2>1, HeadEnded
<1>5. CASE HeaderLine
  <2>1. /\ state' = "RESP_HEADER_CALLBACK" /\ hbuf' = AfterLine(hbuf)
        /\ chunkedResp' = (LineOf(hbuf)[1] = "TE" \/ chunkedResp)
    BY <1>5 DEF HeaderLine
  <2>2. AtLine(h, l + 1)'
    <3>1. hdrs' = FitBefore(resp', h, l + 1)
      BY <1>0, <1>2
    <3>2. chunkedResp' = TEBefore(resp', h, l + 1)
      BY <1>0, <1>2, <2>1
    <3>3. h \in 1..Len(resp'.heads) /\ l + 1 \in 1..Len(resp'.heads[h]) + 1 /\ got' = <<>>
      BY <1>0, <1>1, <1>2 DEF AtLine
    <3> QED BY <3>1, <3>2, <3>3 DEF AtLine, FitBefore, TEBefore, FittingHeads, Fitting, FittingLine
  <2>3. StatusKnown(h)' /\ RespHeaderBuffSize >= 3
    BY <1>0, <1>1 DEF StatusKnown, HeadInv, LinesIn
  <2>4. Ahead(BeforeLine(resp, h, l + 1), hbuf \o wire)'
    BY <1>0, <1>2, <2>1 DEF Ahead, BeforeLine, BeforeHead
  <2>5. LinesIn'
    BY <1>0, <1>2, <2>1, <2>2, <2>3, <2>4 DEF LinesIn
  <2> QED
    BY <1>3, <2>1, <2>5
    DEF HeadInv, NotYetRead, StatusIn, SkipIn, PastHead, PlainStates, ChunkedStates, ReqStates
<1> QED BY <1>4, <1>5

\* The empty line ends a section.
LEMMA SectionEnd ==
  ASSUME TypeOK, AllWellFormed, HeadInv, state = "RESP_HEADER_CALLBACK",
         HasCRLF(hbuf), LineOf(hbuf) = <<>>
  PROVE  \E h \in 1..Len(resp.heads) :
           /\ StatusKnown(h) /\ got = <<>> /\ AfterLine(hbuf) \in Seq(Slots)
           /\ Ahead(BeforeHead(resp, h + 1), AfterLine(hbuf) \o wire)
           /\ h < Len(resp.heads) => hdrs = FitBefore(resp, h + 1, 1) /\ chunkedResp = TEBefore(resp, h + 1, 1)
           /\ h = Len(resp.heads) => hdrs = FittingLines(resp) /\ chunkedResp = resp.chunked
<1>a. PICK h \in 1..Len(resp.heads) : \E l \in 1..Len(resp.heads[h]) + 1 :
        AtLine(h, l) /\ StatusKnown(h) /\ Ahead(BeforeLine(resp, h, l), hbuf \o wire)
  BY DEF HeadInv, LinesIn
<1>1. PICK l \in 1..Len(resp.heads[h]) + 1 :
        AtLine(h, l) /\ StatusKnown(h) /\ Ahead(BeforeLine(resp, h, l), hbuf \o wire)
  BY <1>a
<1>2. hbuf \in Seq(Slots) /\ wire \in Seq(Slots) /\ resp \in Responses /\ chunkedResp \in BOOLEAN
      /\ CodingTold(resp)
  BY DEF TypeOK, AllWellFormed, WellFormed
<1>3. Len(resp.heads[h]) \in Nat /\ Len(resp.heads) \in Nat /\ resp.chunked \in BOOLEAN
  BY <1>2, ResponseType
<1>4. l = Len(resp.heads[h]) + 1
  <2> SUFFICES ASSUME l # Len(resp.heads[h]) + 1 PROVE FALSE
    OBVIOUS
  <2>1. l \in 1..Len(resp.heads[h])
    BY <1>3
  <2>2. resp.heads[h][l] \in Seq(Slots) /\ Len(resp.heads[h][l]) >= 1
    BY <1>1, <1>2, <2>1, LineAt
  <2>3. FirstLine(hbuf, resp.heads[h][l])
    BY <1>1, <1>2, <2>1, LineAt
  <2>4. resp.heads[h][l] = <<>>
    BY <2>3 DEF FirstLine
  <2> QED BY <2>2, <2>4
<1>5. AfterLine(hbuf) \in Seq(Slots) /\ Ahead(BeforeHead(resp, h + 1), AfterLine(hbuf) \o wire)
  BY <1>1, <1>2, <1>4, EndAt
<1>6. /\ h < Len(resp.heads) => FitBefore(resp, h, l) = FitBefore(resp, h + 1, 1)
      /\ h = Len(resp.heads) => FitBefore(resp, h, l) = FittingLines(resp)
  BY <1>2, <1>4, FitPlace
<1>7. /\ h < Len(resp.heads) => (TEBefore(resp, h, l) <=> TEBefore(resp, h + 1, 1))
      /\ h = Len(resp.heads) => (TEBefore(resp, h, l) <=> resp.chunked)
  BY <1>2, <1>4, CodingPlace
<1>8. h < Len(resp.heads) => TEBefore(resp, h + 1, 1) \in BOOLEAN
  BY DEF TEBefore
<1>9. /\ hdrs = FitBefore(resp, h, l) /\ (chunkedResp <=> TEBefore(resp, h, l)) /\ got = <<>>
  BY <1>1, <1>2 DEF AtLine
<1>10. /\ h < Len(resp.heads) => chunkedResp = TEBefore(resp, h + 1, 1)
       /\ h = Len(resp.heads) => chunkedResp = resp.chunked
  BY <1>2, <1>3, <1>7, <1>8, <1>9
<1> QED BY <1>1, <1>5, <1>6, <1>9, <1>10

\* After the last section the body is read, as it was told.
LEMMA SectionEndHead ==
  ASSUME TypeOK, NoOverflow, AllWellFormed, HeadInv, state = "RESP_HEADER_CALLBACK",
         HeadersEnd, RespUnchanged
  PROVE  HeadInv'
<1>0. UNCHANGED <<resp, wire, got, hdrs, chunkedResp, status>> /\ hbuf' = AfterLine(hbuf)
      /\ HasCRLF(hbuf) /\ LineOf(hbuf) = <<>>
  BY DEF HeadersEnd, RespUnchanged, ownVars, parseVars
<1>1. PICK h \in 1..Len(resp.heads) :
           /\ StatusKnown(h) /\ got = <<>> /\ AfterLine(hbuf) \in Seq(Slots)
           /\ Ahead(BeforeHead(resp, h + 1), AfterLine(hbuf) \o wire)
           /\ h < Len(resp.heads) => hdrs = FitBefore(resp, h + 1, 1) /\ chunkedResp = TEBefore(resp, h + 1, 1)
           /\ h = Len(resp.heads) => hdrs = FittingLines(resp) /\ chunkedResp = resp.chunked
  BY <1>0, SectionEnd
<1>2. HeadersFaithful'
  BY <1>0, FaithfulKept DEF HeadInv
<1>3. resp \in Responses /\ Len(resp.heads) \in Nat /\ chunkedResp \in BOOLEAN /\ resp.chunked \in BOOLEAN
  <2>1. resp \in Responses /\ chunkedResp \in BOOLEAN
    BY DEF TypeOK
  <2> QED BY <2>1, ResponseType
<1>4. CASE status = "1xx"
  <2>1. state' = "RESP_STATUS_READ" /\ h < Len(resp.heads)
    BY <1>1, <1>4 DEF HeadersEnd, Goto, StatusKnown
  <2>2. h + 1 \in 1..Len(resp.heads)
    BY <1>3, <2>1
  <2>3. 1 \in 1..Len(resp.heads[h + 1]) + 1
    <3>1. Len(resp.heads[h + 1]) \in Nat
      BY <1>3, <2>2, ResponseType
    <3> QED BY <3>1
  <2>4. BeforeLine(resp, h + 1, 1) = BeforeHead(resp, h + 1)
    BY <1>3, <2>2, <2>3, LinePlace
  <2>5. AtLine(h + 1, 1)
    BY <1>1, <2>1, <2>2, <2>3 DEF AtLine
  <2>6. AtLine(h + 1, 1)'
    BY <1>0, <2>5, AtLineKept
  <2>7. Ahead(BeforeLine(resp, h + 1, 1), hbuf \o wire)'
    BY <1>0, <1>1, <2>4 DEF Ahead, BeforeLine, BeforeHead
  <2>8. StatusIn'
    BY <1>0, <2>1, <2>2, <2>6, <2>7 DEF StatusIn
  <2> QED
    BY <1>2, <2>1, <2>8
    DEF HeadInv, NotYetRead, LinesIn, SkipIn, PastHead, PlainStates, ChunkedStates, ReqStates
<1>5. CASE status # "1xx"
  <2>1. h = Len(resp.heads)
    BY <1>1, <1>3, <1>5 DEF StatusKnown
  <2>2. state' = IF chunkedResp THEN "RESP_BODY_PARSE_CHUNK_SIZE" ELSE "RESP_BODY_FRAGMENT"
    BY <1>3, <1>5 DEF HeadersEnd, Goto
  <2>3. hdrs = FittingLines(resp) /\ chunkedResp = resp.chunked
    BY <1>1, <2>1
  <2>4. PastHead'
    <3>1. hdrs' = FittingLines(resp)'
      BY <1>0, <2>3 DEF FittingLines, FittingHeads, Fitting, FittingLine
    <3>2. state' \in PlainStates => ~resp'.chunked
      BY <1>0, <2>2, <2>3 DEF PlainStates
    <3>3. state' \in ChunkedStates => resp'.chunked
      BY <1>0, <2>2, <2>3 DEF ChunkedStates
    <3> QED BY <3>1, <3>2, <3>3 DEF PastHead
  <2>5. state' \in {"RESP_BODY_PARSE_CHUNK_SIZE", "RESP_BODY_FRAGMENT"}
    BY <2>2
  <2> QED BY <1>2, <2>4, <2>5 DEF HeadInv, NotYetRead, StatusIn, LinesIn, SkipIn, ReqStates
<1> QED BY <1>4, <1>5

\* More of the head is read.
LEMMA HeaderReadHead ==
  ASSUME TypeOK, NoOverflow, HeadInv, RespHeaderRead
  PROVE  HeadInv'
<1> USE DEF RespUnchanged, ownVars
<1>a. PICK h \in 1..Len(resp.heads) : \E l \in 1..Len(resp.heads[h]) + 1 :
        AtLine(h, l) /\ StatusKnown(h) /\ Ahead(BeforeLine(resp, h, l), hbuf \o wire)
  BY DEF RespHeaderRead, HeadInv, LinesIn
<1>1. PICK l \in 1..Len(resp.heads[h]) + 1 :
        AtLine(h, l) /\ StatusKnown(h) /\ Ahead(BeforeLine(resp, h, l), hbuf \o wire)
  BY <1>a
<1>2. CASE Again
  BY <1>2, HeadKept DEF Again, vars, respVars, parseVars
<1>3. CASE RecvFails /\ RespUnchanged
  <2>1. UNCHANGED <<resp, hdrs, got>> /\ state' = "CLOSE"
    BY <1>3 DEF RecvFails, respVars, parseVars, Abort
  <2> QED BY <2>1, FaithfulKept, HeadEnded DEF HeadInv
<1>4. ASSUME NEW data \in Received(HeaderRoom), Consume(data), hbuf' = hbuf \o data,
             state' = "RESP_HEADER_CALLBACK",
             UNCHANGED <<app, resp, hdrs, chunkedResp, got, status>>
      PROVE  HeadInv'
  <2>1. HeaderRoom \in Nat /\ hbuf \in Seq(Slots) /\ wire \in Seq(Slots)
    BY RespHeaderBuffSizeAssumption DEF RespHeaderBuffSizeAssumption, HeaderRoom, TypeOK, NoOverflow
  <2>2. hbuf' \o wire' = hbuf \o wire
    BY <1>4, <2>1, ReceivedRest
  <2>3. AtLine(h, l)' /\ StatusKnown(h)' /\ RespHeaderBuffSize >= 3
    BY <1>1, <1>4, AtLineKept DEF StatusKnown, HeadInv, LinesIn, RespHeaderRead
  <2>4. Ahead(BeforeLine(resp, h, l), hbuf \o wire)'
    BY <1>1, <1>4, <2>2 DEF Ahead, BeforeLine, BeforeHead
  <2>5. LinesIn'
    BY <1>4, <2>3, <2>4 DEF LinesIn
  <2>6. HeadersFaithful'
    BY <1>4, FaithfulKept DEF HeadInv
  <2> QED BY <1>4, <2>5, <2>6 DEF HeadInv, NotYetRead, StatusIn, SkipIn, PastHead, PlainStates, ChunkedStates, ReqStates
<1> QED BY <1>2, <1>3, <1>4 DEF RespHeaderRead, Goto

\* A text, and the two parts it is used in.
SameText(base, x, more, p, k) == base \o (x \o more) = (base \o p) \o (k \o more)

\* The first m slots of a buffer are used.
LEMMA TextMoves ==
  ASSUME NEW base \in Seq(Slots), NEW x \in Seq(Slots), NEW more \in Seq(Slots), NEW m \in 0..Len(x)
  PROVE  SameText(base, x, more, SubSeq(x, 1, m), SubSeq(x, m + 1, Len(x)))
<1> DEFINE a == SubSeq(x, 1, m)
           b == SubSeq(x, m + 1, Len(x))
<1>1. a \in Seq(Slots) /\ b \in Seq(Slots) /\ a \o b = x
  BY SplitSeq
<1> HIDE DEF a, b
<1>0. a \in Seq(Slots) /\ b \in Seq(Slots)
  BY <1>1
<1>2. base \o (a \o (b \o more)) = (base \o a) \o (b \o more)
  <2> DEFINE c == b \o more
  <2>1. c \in Seq(Slots)
    BY <1>0, ConcatProperties
  <2> HIDE DEF c
  <2>2. base \o (a \o c) = (base \o a) \o c
    <3>1. Associates(base, a, c)
      BY <1>0, <2>1, Associative
    <3> QED BY <3>1 DEF Associates
  <2> QED BY <2>2 DEF c
<1>3. (a \o b) \o more = a \o (b \o more)
  <2>1. Associates(a, b, more)
    BY <1>0, Associative
  <2> QED BY <2>1 DEF Associates
<1>5. base \o (x \o more) = (base \o a) \o (b \o more)
  BY <1>1, <1>2, <1>3
<1> QED BY <1>5 DEF a, b, SameText

\* A slot before a buffer, which does not make a CRLF with its first.
LEMMA BreakBehind ==
  ASSUME NEW x \in Seq(Slots), NEW c \in Slots,
         c = "CR" => \A k \in 1..Len(x) : k = 1 => x[k] # "LF"
  PROVE  /\ <<c>> \o x \in Seq(Slots) /\ Len(<<c>> \o x) = Len(x) + 1
         /\ HasCRLF(<<c>> \o x) <=> HasCRLF(x)
         /\ HasCRLF(x) => AfterLine(<<c>> \o x) = AfterLine(x)
         /\ SubSeq(<<c>> \o x, 2, Len(<<c>> \o x)) = x
<1> DEFINE b == <<c>> \o x
<1>1. /\ b \in Seq(Slots) /\ Len(b) = Len(x) + 1 /\ b[1] = c /\ \A k \in 1..Len(x) : b[k + 1] = x[k]
  <2>1. <<c>> \in Seq(Slots) /\ Len(<<c>>) = 1 /\ <<c>>[1] = c /\ 1 \in 1..Len(<<c>>)
    OBVIOUS
  <2>2. /\ b \in Seq(Slots) /\ Len(b) = Len(<<c>>) + Len(x)
        /\ \A k \in 1..Len(<<c>>) : b[k] = <<c>>[k]
        /\ \A k \in 1..Len(x) : b[Len(<<c>>) + k] = x[k]
    BY <2>1, ConcatSplit
  <2>3. \A k \in 1..Len(x) : k + 1 = 1 + k
    OBVIOUS
  <2> QED BY <2>1, <2>2, <2>3
<1> HIDE DEF b
<1>2. Len(x) \in Nat
  OBVIOUS
<1>3. CRLFAt(b) = {k + 1 : k \in CRLFAt(x)}
  <2>1. ASSUME NEW i \in CRLFAt(b) PROVE i - 1 \in CRLFAt(x) /\ i = (i - 1) + 1
    <3>1. i \in 1..Len(x) /\ b[i] = "CR" /\ b[i + 1] = "LF"
      BY <1>1, <1>2 DEF CRLFAt
    <3>2. x[i] = "LF"
      BY <1>1, <3>1
    <3>3. i # 1
      BY <1>1, <3>1, <3>2
    <3>4. i - 1 \in 1..Len(x) - 1 /\ i - 1 \in 1..Len(x) /\ (i - 1) + 1 = i
      BY <1>2, <3>1, <3>3
    <3>5. x[i - 1] = "CR"
      BY <1>1, <3>1, <3>4
    <3> QED BY <3>2, <3>4, <3>5 DEF CRLFAt
  <2>2. ASSUME NEW k \in CRLFAt(x) PROVE k + 1 \in CRLFAt(b)
    <3>1. k \in 1..Len(x) - 1 /\ x[k] = "CR" /\ x[k + 1] = "LF" /\ k \in 1..Len(x) /\ k + 1 \in 1..Len(x)
          /\ k + 1 \in 1..Len(b) - 1
      BY <1>1, <1>2 DEF CRLFAt
    <3>2. b[k + 1] = "CR" /\ b[(k + 1) + 1] = "LF"
      BY <1>1, <3>1
    <3> QED BY <3>1, <3>2 DEF CRLFAt
  <2> QED BY <2>1, <2>2
<1>4. HasCRLF(b) <=> HasCRLF(x)
  BY <1>3 DEF HasCRLF
<1>5. ASSUME HasCRLF(x) PROVE AfterLine(b) = AfterLine(x)
  <2>1. FirstCRLF(x) \in CRLFAt(x) /\ \A j \in CRLFAt(x) : FirstCRLF(x) <= j
    <3>1. CRLFAt(x) \subseteq Nat /\ CRLFAt(x) # {}
      BY <1>5 DEF HasCRLF, CRLFAt
    <3>2. \E n \in CRLFAt(x) : \A m \in CRLFAt(x) : n <= m
      BY <3>1, LeastNumber
    <3> QED BY <3>2 DEF FirstCRLF
  <2> DEFINE n == FirstCRLF(x)
  <2> HIDE DEF n
  <2>2. n \in CRLFAt(x) /\ n \in 1..Len(x) - 1 /\ (\A j \in CRLFAt(x) : n <= j) /\ \A j \in CRLFAt(x) : j \in Nat
    BY <2>1 DEF n, CRLFAt
  <2>3. n + 1 \in CRLFAt(b) /\ \A j \in CRLFAt(b) : n + 1 <= j
    <3>1. n + 1 \in CRLFAt(b)
      BY <1>3, <2>2
    <3>2. ASSUME NEW j \in CRLFAt(b) PROVE n + 1 <= j
      <4>1. PICK k \in CRLFAt(x) : j = k + 1
        BY <1>3
      <4>2. k \in Nat /\ n \in Nat /\ n <= k
        BY <2>2
      <4> QED BY <4>1, <4>2
    <3> QED BY <3>1, <3>2
  <2>4. FirstCRLF(b) \in CRLFAt(b) /\ \A j \in CRLFAt(b) : FirstCRLF(b) <= j
    BY <2>3 DEF FirstCRLF
  <2>5. \A j \in CRLFAt(b) : j \in Nat
    BY DEF CRLFAt
  <2>6. FirstCRLF(b) = n + 1
    <3>1. FirstCRLF(b) \in Nat /\ FirstCRLF(b) <= n + 1 /\ n + 1 <= FirstCRLF(b)
      BY <2>3, <2>4, <2>5
    <3>2. n \in Nat
      BY <2>2
    <3> QED BY <3>1, <3>2
  <2> DEFINE p == SubSeq(b, n + 3, Len(b))
             q == SubSeq(x, n + 2, Len(x))
  <2>7. AfterLine(b) = p /\ AfterLine(x) = q
    <3>1. n \in Nat /\ (n + 1) + 2 = n + 3
      BY <2>2
    <3>2. AfterLine(b) = SubSeq(b, (n + 1) + 2, Len(b)) /\ AfterLine(x) = SubSeq(x, n + 2, Len(x))
      BY <2>6 DEF AfterLine, n
    <3> QED BY <3>1, <3>2
  <2>8. /\ p \in Seq(Slots) /\ Len(p) = Len(b) - (n + 2) /\ \A i \in 1..Len(b) - (n + 2) : p[i] = b[(n + 2) + i]
    BY <1>1, <1>2, <2>2
  <2>9. /\ q \in Seq(Slots) /\ Len(q) = Len(x) - (n + 1) /\ \A i \in 1..Len(x) - (n + 1) : q[i] = x[(n + 1) + i]
    BY <1>2, <2>2
  <2> HIDE DEF p, q
  <2>10. Len(p) = Len(q)
    BY <1>1, <1>2, <2>2, <2>8, <2>9
  <2>11. ASSUME NEW i \in 1..Len(p) PROVE p[i] = q[i]
    <3>1. i \in 1..Len(b) - (n + 2) /\ i \in 1..Len(x) - (n + 1) /\ (n + 1) + i \in 1..Len(x)
          /\ ((n + 1) + i) + 1 = (n + 2) + i
      BY <1>1, <1>2, <2>2, <2>8, <2>9
    <3>2. p[i] = b[(n + 2) + i] /\ q[i] = x[(n + 1) + i] /\ b[((n + 1) + i) + 1] = x[(n + 1) + i]
      BY <1>1, <2>8, <2>9, <3>1
    <3> QED BY <3>1, <3>2
  <2>12. p = q
    BY <2>8, <2>9, <2>10, <2>11, SeqEqual
  <2> QED BY <2>7, <2>12
<1>6. SubSeq(b, 2, Len(b)) = x
  <2> DEFINE p == SubSeq(b, 2, Len(b))
  <2>1. p \in Seq(Slots) /\ Len(p) = Len(x) /\ \A i \in 1..Len(x) : p[i] = b[i + 1]
    BY <1>1, <1>2
  <2> HIDE DEF p
  <2>2. \A i \in 1..Len(p) : p[i] = x[i]
    BY <1>1, <2>1
  <2>3. p = x
    BY <2>1, <2>2, SeqEqual
  <2> QED BY <2>3 DEF p
<1> QED BY <1>1, <1>4, <1>5, <1>6 DEF b

\* A stray CR before a buffer that does not begin with LF.
LEMMA StrayBreak ==
  ASSUME NEW x \in Seq(Slots), \A k \in 1..Len(x) : k = 1 => x[k] # "LF"
  PROVE  /\ <<"CR">> \o x \in Seq(Slots) /\ Len(<<"CR">> \o x) = Len(x) + 1
         /\ HasCRLF(<<"CR">> \o x) <=> HasCRLF(x)
         /\ HasCRLF(x) => AfterLine(<<"CR">> \o x) = AfterLine(x)
         /\ SubSeq(<<"CR">> \o x, 2, Len(<<"CR">> \o x)) = x
<1>1. "CR" \in Slots
  BY SlotsAssumption DEF SlotsAssumption
<1> QED BY <1>1, BreakBehind

\* The slots of the rest of a text.
LEMMA TailElements ==
  ASSUME NEW S, NEW s \in Seq(S), NEW n \in 0..Len(s)
  PROVE  \A k \in 1..Len(s) - n : SubSeq(s, n + 1, Len(s))[k] = s[n + k]
OBVIOUS

\* The last slot of a text, as a text.
LEMMA LastSlot ==
  ASSUME NEW S, NEW s \in Seq(S), NEW n \in Nat, n = Len(s), n >= 1
  PROVE  SubSeq(s, n, n) = <<s[n]>>
<1> DEFINE a == SubSeq(s, n, n)
           b == <<s[n]>>
<1>1. s[n] \in S
  OBVIOUS
<1>2. a \in Seq(S) /\ Len(a) = 1 /\ a[1] = s[n]
  OBVIOUS
<1>3. b \in Seq(S) /\ Len(b) = 1 /\ b[1] = s[n]
  BY <1>1
<1> HIDE DEF a, b
<1>4. a = b
  BY <1>2, <1>3, SeqEqual
<1> QED BY <1>4 DEF a, b

\* A beginning, slot by slot.
LEMMA StartsWith ==
  ASSUME NEW S, NEW s \in Seq(S), NEW t \in Seq(S), IsPrefix(s, t)
  PROVE  /\ Len(s) <= Len(t)
         /\ \A i \in 1..Len(s) : s[i] = t[i]
BY PrefixByElement

\* What follows the first n slots of a buffer begins with CR.
BreakAfter(buf, n) == \A k \in 1..Len(buf) : k = n + 1 => buf[k] = "CR"

\* A buffer that goes on inside a line.
LEMMA LineLeft ==
  ASSUME TypeOK, AllWellFormed, NEW h \in 1..Len(resp.heads), NEW l \in 1..Len(resp.heads[h]),
         NEW line, line = resp.heads[h][l], NEW e \in 0..Len(line),
         NEW buf \in Seq(Slots), NEW more \in Seq(Slots),
         Ahead(BeforeLine(resp, h, l) \o SubSeq(line, 1, e), buf \o more)
  PROVE  /\ line \in Seq(Slots) /\ Len(line) >= 1
         /\ HasCRLF(buf) <=> (Len(line) - e) + 2 <= Len(buf)
         /\ HasCRLF(buf) => AfterLine(buf) \in Seq(Slots)
         /\ HasCRLF(buf) => Ahead(BeforeLine(resp, h, l + 1), AfterLine(buf) \o more)
         /\ \A k \in 1..Len(buf) : k <= Len(line) - e => buf[k] = line[e + k] /\ buf[k] # "CR" /\ buf[k] # "LF"
         /\ BreakAfter(buf, Len(line) - e)
<1> DEFINE B == BeforeLine(resp, h, l)
           a == SubSeq(line, 1, e)
           t == SubSeq(line, e + 1, Len(line))
           u == ResponseWire(resp)
<1>1. resp \in Responses /\ WellFormed(resp)
  BY DEF TypeOK, AllWellFormed
<1>2. /\ line \in Seq(Slots) /\ Len(line) >= 1 /\ Len(line) \in Nat /\ Len(resp.heads[h]) \in Nat
      /\ DOMAIN resp.heads = 1..Len(resp.heads) /\ DOMAIN resp.heads[h] = 1..Len(resp.heads[h])
  BY <1>1, ResponseType
<1>3. Unbroken(line)
  <2>1. \A k \in DOMAIN line : line[k] \notin {"CR", "LF"}
    BY <1>1, <1>2 DEF WellFormed, LinesUnbroken
  <2>2. DOMAIN line = 1..Len(line)
    BY <1>2
  <2> QED BY <2>1, <2>2 DEF Unbroken
<1>4. B \in Seq(Slots) /\ BeforeLine(resp, h, l + 1) = B \o (line \o CRLF)
      /\ IsPrefix(BeforeLine(resp, h, l + 1), u) /\ u \in Seq(Slots)
  <2>1. l \in 1..Len(resp.heads[h]) + 1 /\ l + 1 \in 1..Len(resp.heads[h]) + 1 /\ l <= Len(resp.heads[h])
    BY <1>2
  <2>2. IsPrefix(BeforeLine(resp, h, l + 1), u)
    BY <1>1, <2>1, LinePlace
  <2>3. B \in Seq(Slots) /\ BeforeLine(resp, h, l + 1) = B \o (line \o CRLF)
    BY <1>1, <2>1, LinePlace
  <2>4. u \in Seq(Slots)
    BY <1>1, ResponseWireType
  <2> QED BY <2>2, <2>3, <2>4
<1>5. /\ a \in Seq(Slots) /\ t \in Seq(Slots) /\ Len(t) = Len(line) - e /\ a \o t = line
      /\ \A k \in 1..Len(line) - e : t[k] = line[e + k]
  <2>1. \A k \in 1..Len(line) - e : t[k] = line[e + k]
    BY <1>2, TailElements
  <2> QED BY <1>2, <2>1, SplitSeq, ZenonT(60)
<1>6. Unbroken(t)
  <2> SUFFICES ASSUME NEW k \in 1..Len(t) PROVE t[k] # "CR" /\ t[k] # "LF"
    BY DEF Unbroken
  <2>1. k \in 1..Len(line) - e /\ e + k \in 1..Len(line)
    BY <1>2, <1>5
  <2> QED BY <1>3, <1>5, <2>1 DEF Unbroken
<1>7. IsPrefix((B \o a) \o (buf \o more), u)
  BY DEF Ahead
<1> HIDE DEF B, a, t, u
<1>8. B \o a \in Seq(Slots) /\ a \in Seq(Slots) /\ t \in Seq(Slots)
  BY <1>4, <1>5, ConcatProperties
<1>9. (B \o a) \o (t \o CRLF) = B \o (line \o CRLF)
  <2> DEFINE c == t \o CRLF
  <2>1. c \in Seq(Slots)
    BY <1>8, LineText
  <2>2. (a \o t) \o CRLF = a \o c
    <3>1. Associates(a, t, CRLF)
      BY <1>8, CRLFType, Associative
    <3> QED BY <3>1 DEF Associates
  <2> HIDE DEF c
  <2>3. (B \o a) \o c = B \o (a \o c)
    <3>1. B \in Seq(Slots)
      BY <1>4
    <3>2. Associates(B, a, c)
      BY <1>8, <2>1, <3>1, Associative
    <3> QED BY <3>2 DEF Associates
  <2> QED BY <1>5, <2>2, <2>3 DEF c
<1>10. /\ HasCRLF(buf) <=> Len(t) + 2 <= Len(buf)
       /\ HasCRLF(buf) => /\ AfterLine(buf) \in Seq(Slots)
                          /\ IsPrefix(((B \o a) \o (t \o CRLF)) \o (AfterLine(buf) \o more), u)
       /\ \A k \in 1..Len(buf) : k <= Len(t) => buf[k] = t[k]
       /\ \A k \in 1..Len(buf) : k = Len(t) + 1 => buf[k] = "CR"
  <2> DEFINE ba == B \o a
  <2>1. IsPrefix(ba \o (t \o CRLF), u) /\ u \in Seq(Slots) /\ IsPrefix(ba \o (buf \o more), u)
    BY <1>4, <1>7, <1>9
  <2>2. ba \in Seq(Slots) /\ t \in Seq(Slots)
    BY <1>8
  <2> HIDE DEF ba
  <2>3. /\ HasCRLF(buf) <=> Len(t) + 2 <= Len(buf)
        /\ HasCRLF(buf) => /\ AfterLine(buf) \in Seq(Slots)
                           /\ IsPrefix((ba \o (t \o CRLF)) \o (AfterLine(buf) \o more), u)
        /\ \A k \in 1..Len(buf) : k <= Len(t) => buf[k] = t[k]
        /\ \A k \in 1..Len(buf) : k = Len(t) + 1 => buf[k] = "CR"
    BY <1>6, <2>1, <2>2, LineRead
  <2> QED BY <2>3 DEF ba
<1>11. HasCRLF(buf) => Ahead(BeforeLine(resp, h, l + 1), AfterLine(buf) \o more)
  BY <1>4, <1>9, <1>10 DEF Ahead, u
<1>12. ASSUME NEW k \in 1..Len(buf), k <= Len(line) - e
       PROVE  buf[k] = line[e + k] /\ buf[k] # "CR" /\ buf[k] # "LF"
  <2>1. k \in 1..Len(t) /\ k \in 1..Len(line) - e
    BY <1>2, <1>5, <1>12
  <2>2. buf[k] = t[k] /\ t[k] = line[e + k]
    BY <1>5, <1>10, <2>1
  <2> QED BY <1>6, <2>1, <2>2 DEF Unbroken
<1>13. HasCRLF(buf) <=> (Len(line) - e) + 2 <= Len(buf)
  BY <1>5, <1>10
<1>14. BreakAfter(buf, Len(line) - e)
  <2>1. \A k \in 1..Len(buf) : k = (Len(line) - e) + 1 => buf[k] = "CR"
    BY <1>5, <1>10
  <2> QED BY <2>1 DEF BreakAfter
<1> QED BY <1>2, <1>10, <1>11, <1>12, <1>13, <1>14

\* The slots kept: s stays before the line for good, and k may belong to its end.
DropsTo(h, l, line, kept) ==
  \E e \in 1..Len(line) : \E s \in {<<>>, <<"CR">>} : \E k \in {<<>>, <<"CR">>} :
    /\ kept = s \o k /\ line[1] # "TE"
    /\ Ahead(BeforeLine(resp, h, l) \o SubSeq(line, 1, e), k \o wire)

\* What the handler drops of the line and what it keeps.
LEMMA Dropped ==
  ASSUME TypeOK, AllWellFormed, NEW h \in 1..Len(resp.heads), NEW l \in 1..Len(resp.heads[h]),
         NEW line, line = resp.heads[h][l], NEW d \in Nat, NEW stray \in {<<>>, <<"CR">>}, Skipping(h, l, d, stray),
         ~HasCRLF(hbuf), hbuf # <<>> => hbuf[1] \notin {"CL", "TE"},
         NEW kept \in SkipKeeps
  PROVE  DropsTo(h, l, line, kept)
<1> DEFINE B == BeforeLine(resp, h, l)
           a == SubSeq(line, 1, d)
           x == SubSeq(hbuf, Len(stray) + 1, Len(hbuf))
           m == IF Len(x) <= Len(line) - d THEN Len(x) ELSE Len(line) - d
           p == SubSeq(x, 1, m)
           k == SubSeq(x, m + 1, Len(x))
<1>1. /\ resp \in Responses /\ hbuf \in Seq(Slots) /\ wire \in Seq(Slots) /\ Len(hbuf) \in Nat
      /\ \A i \in 1..Len(hbuf) : hbuf[i] \in Slots
  BY DEF TypeOK
<1>2. /\ d <= Len(line) /\ IsPrefix(stray, hbuf) /\ Ahead(B \o a, x \o wire)
      /\ IF d = 0 THEN stray = <<>> /\ hbuf # <<>> ELSE line[1] # "TE"
  BY DEF Skipping
<1>3. line \in Seq(Slots) /\ Len(line) >= 1 /\ Len(line) \in Nat /\ d \in 0..Len(line)
  <2>1. line \in Seq(Slots) /\ Len(line) >= 1 /\ Len(line) \in Nat
    BY <1>1, ResponseType
  <2> QED BY <1>2, <2>1
<1>4. stray = <<>> \/ (stray = <<"CR">> /\ Len(hbuf) >= 1 /\ hbuf[1] = "CR")
  <2> SUFFICES ASSUME stray = <<"CR">> PROVE Len(hbuf) >= 1 /\ hbuf[1] = "CR"
    OBVIOUS
  <2>1. stray \in Seq(Slots) /\ Len(stray) = 1 /\ stray[1] = "CR"
    BY SlotsAssumption DEF SlotsAssumption
  <2>2. Len(stray) <= Len(hbuf) /\ \A i \in 1..Len(stray) : stray[i] = hbuf[i]
    <3>1. stray \in Seq(Slots) /\ hbuf \in Seq(Slots) /\ IsPrefix(stray, hbuf)
      BY <1>1, <1>2, <2>1
    <3> DEFINE a1 == stray
               b1 == hbuf
    <3>2. a1 \in Seq(Slots) /\ b1 \in Seq(Slots) /\ IsPrefix(a1, b1)
      BY <3>1
    <3> HIDE DEF a1, b1
    <3>3. Len(a1) <= Len(b1) /\ \A i \in 1..Len(a1) : a1[i] = b1[i]
      BY <3>2, StartsWith
    <3> QED BY <3>3 DEF a1, b1
  <2> QED BY <2>1, <2>2
<1>5. /\ Len(stray) \in 0..1 /\ Len(stray) <= Len(hbuf) /\ x \in Seq(Slots) /\ Len(x) = Len(hbuf) - Len(stray)
      /\ \A i \in 1..Len(x) : x[i] = hbuf[Len(stray) + i]
  <2>1. Len(stray) \in 0..1 /\ Len(stray) \in 0..Len(hbuf)
    BY <1>1, <1>4
  <2>2. x \in Seq(Slots) /\ Len(x) = Len(hbuf) - Len(stray)
    BY <1>1, <2>1, SplitSeq
  <2>3. \A i \in 1..Len(hbuf) - Len(stray) : x[i] = hbuf[Len(stray) + i]
    BY <1>1, <2>1
  <2> QED BY <2>1, <2>2, <2>3
<1> HIDE DEF x
<1>6. ~HasCRLF(x)
  <2> SUFFICES ASSUME NEW i \in CRLFAt(x) PROVE FALSE
    BY DEF HasCRLF
  <2>1. i \in 1..Len(x) - 1 /\ x[i] = "CR" /\ x[i + 1] = "LF" /\ i \in 1..Len(x) /\ i + 1 \in 1..Len(x)
    BY <1>5 DEF CRLFAt
  <2>2. hbuf[Len(stray) + i] = "CR" /\ hbuf[Len(stray) + (i + 1)] = "LF"
    BY <1>5, <2>1
  <2>3. Len(stray) + i \in 1..Len(hbuf) - 1 /\ (Len(stray) + i) + 1 = Len(stray) + (i + 1)
    BY <1>1, <1>5, <2>1
  <2>4. Len(stray) + i \in CRLFAt(hbuf)
    BY <2>2, <2>3 DEF CRLFAt
  <2> QED BY <2>4 DEF HasCRLF
<1>7. /\ HasCRLF(x) <=> (Len(line) - d) + 2 <= Len(x)
      /\ \A i \in 1..Len(x) : i <= Len(line) - d => x[i] = line[d + i] /\ x[i] # "CR" /\ x[i] # "LF"
      /\ \A i \in 1..Len(x) : i = (Len(line) - d) + 1 => x[i] = "CR"
  <2>1. Ahead(B \o a, x \o wire) /\ x \in Seq(Slots) /\ wire \in Seq(Slots) /\ d \in 0..Len(line)
    BY <1>1, <1>2, <1>3, <1>5
  <2>2. HasCRLF(x) <=> (Len(line) - d) + 2 <= Len(x)
    BY <2>1, LineLeft
  <2>3. \A i \in 1..Len(x) : i <= Len(line) - d => x[i] = line[d + i] /\ x[i] # "CR" /\ x[i] # "LF"
    BY <2>1, LineLeft
  <2>4. BreakAfter(x, Len(line) - d)
    BY <2>1, LineLeft
  <2> QED BY <2>2, <2>3, <2>4 DEF BreakAfter
<1>8. Len(x) \in Nat /\ Len(x) <= (Len(line) - d) + 1
  BY <1>3, <1>5, <1>6, <1>7, SMTT(30)
<1>9. m \in 0..Len(x) /\ d + m \in 1..Len(line) /\ d + m \in Nat /\ m \in Nat
  <2>1. m \in 0..Len(x) /\ d + m <= Len(line) /\ m \in Nat
    BY <1>3, <1>8
  <2>2. d = 0 => m >= 1
    <3> SUFFICES ASSUME d = 0 PROVE m >= 1
      OBVIOUS
    <3>1. stray = <<>> /\ hbuf # <<>>
      BY <1>2
    <3>2. Len(hbuf) >= 1 /\ Len(stray) = 0
      BY <1>1, <3>1, EmptySeq
    <3> QED BY <1>1, <1>3, <1>5, <3>2
  <2> QED BY <1>3, <2>1, <2>2
<1>10. line[1] # "TE"
  <2>1. CASE d = 0
    <3>1. stray = <<>> /\ hbuf # <<>>
      BY <1>2, <2>1
    <3>2. Len(hbuf) >= 1 /\ Len(stray) = 0
      BY <1>1, <3>1, EmptySeq
    <3>3. 1 \in 1..Len(x) /\ 1 <= Len(line) - d /\ Len(stray) + 1 = 1 /\ d + 1 = 1
      BY <1>1, <1>3, <1>5, <2>1, <3>2
    <3>4. x[1] = line[1] /\ x[1] = hbuf[1]
      BY <1>5, <1>7, <3>3
    <3> QED BY <3>1, <3>4
  <2>2. CASE d # 0
    BY <1>2, <2>2
  <2> QED BY <2>1, <2>2
<1> HIDE DEF m
<1>11. p \in Seq(Slots) /\ k \in Seq(Slots)
       /\ (B \o a) \o (x \o wire) = ((B \o a) \o p) \o (k \o wire)
  <2>1. B \in Seq(Slots)
    <3>1. l \in 1..Len(resp.heads[h]) + 1
      BY <1>1, ResponseType
    <3> QED BY <1>1, <3>1, LinePlace
  <2>2. a \in Seq(Slots)
    BY <1>3, SplitSeq
  <2> DEFINE ba == B \o a
  <2>3. ba \in Seq(Slots)
    BY <2>1, <2>2, ConcatProperties
  <2> HIDE DEF ba
  <2>4. m \in 0..Len(x) /\ x \in Seq(Slots) /\ wire \in Seq(Slots)
    BY <1>1, <1>5, <1>9
  <2> DEFINE more == wire
  <2>a. more \in Seq(Slots)
    BY <2>4
  <2> HIDE DEF more
  <2>5. p \in Seq(Slots) /\ k \in Seq(Slots) /\ ba \o (x \o more) = (ba \o p) \o (k \o more)
    <3>1. SubSeq(x, 1, m) \in Seq(Slots) /\ SubSeq(x, m + 1, Len(x)) \in Seq(Slots)
      BY <2>4, SplitSeq
    <3>2. SameText(ba, x, more, SubSeq(x, 1, m), SubSeq(x, m + 1, Len(x)))
      BY <2>3, <2>4, <2>a, TextMoves
    <3>3. SameText(ba, x, more, p, k)
      BY <3>2
    <3> HIDE DEF p, k
    <3>4. ba \o (x \o more) = (ba \o p) \o (k \o more)
      BY <3>3 DEF SameText
    <3> QED BY <3>1, <3>4 DEF p, k
  <2> QED BY <2>5 DEF ba, more
<1>12. (B \o a) \o p = B \o SubSeq(line, 1, d + m)
  <2> DEFINE q == SubSeq(line, d + 1, d + m)
  <2>1. p \in Seq(Slots) /\ Len(p) = m /\ \A i \in 1..m : p[i] = x[i]
    <3>1. \A i \in 1..m : p[i] = x[i]
      BY <1>5, <1>9
    <3> QED BY <1>5, <1>9, <3>1, SplitSeq
  <2>2. q \in Seq(Slots) /\ Len(q) = m /\ \A i \in 1..m : q[i] = line[d + i]
    BY <1>3, <1>9, SMTT(30)
  <2> HIDE DEF p, q
  <2>3. ASSUME NEW i \in 1..m PROVE p[i] = q[i]
    <3>1. i \in 1..Len(x) /\ i <= Len(line) - d
      BY <1>3, <1>8, <1>9, SMTT(30)
    <3> QED BY <1>7, <2>1, <2>2, <3>1
  <2>4. p = q
    BY <2>1, <2>2, <2>3, SeqEqual
  <2>5. B \in Seq(Slots)
    <3>1. l \in 1..Len(resp.heads[h]) + 1
      BY <1>1, ResponseType
    <3> QED BY <1>1, <3>1, LinePlace
  <2>6. (B \o SubSeq(line, 1, d)) \o SubSeq(line, d + 1, d + m) = B \o SubSeq(line, 1, d + m)
    <3>1. d \in Nat /\ m \in Nat /\ d + m <= Len(line) /\ line \in Seq(Slots)
      BY <1>3, <1>9
    <3>2. Joined(B, line, d, m)
      BY <2>5, <3>1, PartJoins
    <3> QED BY <3>2 DEF Joined
  <2> QED BY <2>4, <2>6 DEF q
<1>13. Ahead(B \o SubSeq(line, 1, d + m), k \o wire)
  BY <1>2, <1>11, <1>12 DEF Ahead
<1>14. \E s \in {<<>>, <<"CR">>} : k \in {<<>>, <<"CR">>} /\ kept = s \o k
  <2>1. CASE Len(x) = (Len(line) - d) + 1
    <3>1. m = Len(x) - 1 /\ Len(x) \in 1..Len(x) /\ m + 1 = Len(x)
      BY <1>3, <1>8, <2>1 DEF m
    <3>2. x[Len(x)] = "CR"
      BY <1>7, <2>1, <3>1
    <3>3. k = <<"CR">>
      <4>1. k = SubSeq(x, Len(x), Len(x))
        BY <3>1
      <4>2. SubSeq(x, Len(x), Len(x)) = <<x[Len(x)]>>
        <5>1. x \in Seq(Slots) /\ Len(x) \in Nat /\ Len(x) >= 1
          BY <1>5, <3>1
        <5> QED BY <5>1, LastSlot
      <4> QED BY <3>2, <4>1, <4>2
    <3>4. Len(hbuf) >= 1 /\ hbuf[Len(hbuf)] = "CR" /\ hbuf # <<>>
      <4>1. Len(stray) + Len(x) = Len(hbuf) /\ Len(hbuf) >= 1
        BY <1>1, <1>5, <3>1
      <4> QED BY <1>5, <3>1, <3>2, <4>1, EmptySeq, SMTT(30)
    <3>5. kept = <<"CR">>
      BY <3>4 DEF SkipKeeps, Last
    <3>6. <<>> \o <<"CR">> = <<"CR">>
      OBVIOUS
    <3> QED BY <3>3, <3>5, <3>6
  <2>2. CASE Len(x) <= Len(line) - d
    <3>1. m = Len(x)
      BY <2>2 DEF m
    <3>2. k = <<>>
      BY <1>5, <3>1
    <3>3. kept \in {<<>>, <<"CR">>}
      BY DEF SkipKeeps
    <3>4. <<>> \o <<>> = <<>> /\ <<"CR">> \o <<>> = <<"CR">>
      OBVIOUS
    <3> QED BY <3>2, <3>3, <3>4
  <2>3. Len(x) = (Len(line) - d) + 1 \/ Len(x) <= Len(line) - d
    BY <1>3, <1>8
  <2> HIDE DEF k
  <2> QED BY <2>1, <2>2, <2>3
<1> QED BY <1>9, <1>10, <1>13, <1>14 DEF DropsTo

\* A buffer inside a line, after a CR that may have been kept: what is searched for the end
\* of the line, and what is left.
LEMMA SkipSearch ==
  ASSUME TypeOK, AllWellFormed, NEW h \in 1..Len(resp.heads), NEW l \in 1..Len(resp.heads[h]),
         NEW line, line = resp.heads[h][l], NEW e \in 1..Len(line),
         NEW s \in {<<>>, <<"CR">>}, NEW x \in Seq(Slots), NEW more \in Seq(Slots),
         Ahead(BeforeLine(resp, h, l) \o SubSeq(line, 1, e), x \o more)
  PROVE  /\ s \o x \in Seq(Slots) /\ IsPrefix(s, s \o x)
         /\ SubSeq(s \o x, Len(s) + 1, Len(s \o x)) = x
         /\ HasCRLF(s \o x) => AfterLine(s \o x) \in Seq(Slots)
         /\ HasCRLF(s \o x) => Ahead(BeforeLine(resp, h, l + 1), AfterLine(s \o x) \o more)
<1>1. line \in Seq(Slots) /\ Len(line) \in Nat /\ e \in 0..Len(line)
  <2>1. line \in Seq(Slots) /\ Len(line) \in Nat
    BY ResponseType DEF TypeOK
  <2> QED BY <2>1
<1>2. /\ HasCRLF(x) => AfterLine(x) \in Seq(Slots)
      /\ HasCRLF(x) => Ahead(BeforeLine(resp, h, l + 1), AfterLine(x) \o more)
      /\ \A k \in 1..Len(x) : k <= Len(line) - e => x[k] = line[e + k] /\ x[k] # "CR" /\ x[k] # "LF"
      /\ \A k \in 1..Len(x) : k = (Len(line) - e) + 1 => x[k] = "CR"
  <2>1. HasCRLF(x) => AfterLine(x) \in Seq(Slots)
    BY <1>1, LineLeft
  <2>2. HasCRLF(x) => Ahead(BeforeLine(resp, h, l + 1), AfterLine(x) \o more)
    BY <1>1, LineLeft
  <2>3. \A k \in 1..Len(x) : k <= Len(line) - e => x[k] = line[e + k] /\ x[k] # "CR" /\ x[k] # "LF"
    BY <1>1, LineLeft
  <2>4. BreakAfter(x, Len(line) - e)
    BY <1>1, LineLeft
  <2> QED BY <2>1, <2>2, <2>3, <2>4 DEF BreakAfter
<1>3. \A k \in 1..Len(x) : k = 1 => x[k] # "LF"
  <2> SUFFICES ASSUME 1 \in 1..Len(x) PROVE x[1] # "LF"
    OBVIOUS
  <2>1. 1 <= Len(line) - e \/ 1 = (Len(line) - e) + 1
    BY <1>1
  <2>2. CASE 1 <= Len(line) - e
    BY <1>2, <2>2
  <2>3. CASE 1 = (Len(line) - e) + 1
    <3>1. x[1] = "CR"
      BY <1>2, <2>3
    <3> QED BY <3>1
  <2> QED BY <2>1, <2>2, <2>3
<1>4. CASE s = <<>>
  <2>1. s \o x = x /\ Len(s) + 1 = 1
    BY <1>4
  <2>2. SubSeq(x, 1, Len(x)) = x
    OBVIOUS
  <2>3. IsPrefix(s, x)
    <3>1. <<>> \in Seq(Slots) /\ <<>> \o x = x
      OBVIOUS
    <3>2. IsPrefix(<<>>, <<>> \o x)
      BY <3>1, PrefixOfConcat
    <3> QED BY <1>4, <3>1, <3>2
  <2> QED BY <1>2, <2>1, <2>2, <2>3
<1>5. CASE s = <<"CR">>
  <2>1. /\ s \o x \in Seq(Slots) /\ Len(s \o x) = Len(x) + 1
        /\ HasCRLF(s \o x) <=> HasCRLF(x)
        /\ HasCRLF(x) => AfterLine(s \o x) = AfterLine(x)
        /\ SubSeq(s \o x, 2, Len(s \o x)) = x
    BY <1>3, <1>5, StrayBreak
  <2>2. s \in Seq(Slots) /\ Len(s) + 1 = 2
    BY <1>5, SlotsAssumption DEF SlotsAssumption
  <2>3. IsPrefix(s, s \o x)
    BY <2>2, PrefixOfConcat
  <2> QED BY <1>2, <2>1, <2>2, <2>3
<1> QED BY <1>4, <1>5

\* The end of the line is found: the next line is read.
LEMMA SkipDone ==
  ASSUME TypeOK, AllWellFormed, HeadInv, RespHeaderBuffSize >= 3,
         NEW h \in 1..Len(resp.heads), NEW l \in 1..Len(resp.heads[h]),
         AtLine(h, l), StatusKnown(h), FittingLine(resp.heads[h][l]) = <<>>, resp.heads[h][l][1] # "TE",
         state' = "RESP_HEADER_CALLBACK", UNCHANGED <<app, resp, hdrs, chunkedResp, got, status>>,
         NEW buf, hbuf' = buf, Ahead(BeforeLine(resp, h, l + 1), buf \o wire')
  PROVE  HeadInv'
<1>1. /\ l \in 1..Len(resp.heads[h]) + 1 /\ l + 1 \in 1..Len(resp.heads[h]) + 1
      /\ resp \in Responses /\ l <= Len(resp.heads[h])
  <2>1. resp \in Responses /\ Len(resp.heads[h]) \in Nat
    BY ResponseType DEF TypeOK
  <2> QED BY <2>1
<1>2. FitBefore(resp, h, l + 1) = FitBefore(resp, h, l)
  <2>1. /\ FitBefore(resp, h, l) \in Seq(Seq(Slots))
        /\ FitBefore(resp, h, l + 1) = FitBefore(resp, h, l) \o FittingLine(resp.heads[h][l])
    BY <1>1, FitPlace
  <2> DEFINE f == FitBefore(resp, h, l)
  <2>2. f \o <<>> = f
    BY <2>1, ConcatEmptySeq
  <2> QED BY <2>1, <2>2
<1>3. TEBefore(resp, h, l + 1) = TEBefore(resp, h, l)
  <2>1. /\ TEBefore(resp, h, l) \in BOOLEAN
        /\ TEBefore(resp, h, l + 1) <=> resp.heads[h][l][1] = "TE" \/ TEBefore(resp, h, l)
    BY <1>1, CodingPlace
  <2>2. TEBefore(resp, h, l + 1) \in BOOLEAN
    BY <1>1, CodingPlace
  <2> QED BY <2>1, <2>2
<1>4. AtLine(h, l + 1)
  BY <1>1, <1>2, <1>3 DEF AtLine
<1>5. AtLine(h, l + 1)' /\ StatusKnown(h)'
  BY <1>4, AtLineKept DEF StatusKnown
<1>6. Ahead(BeforeLine(resp, h, l + 1), hbuf \o wire)'
  BY DEF Ahead, BeforeLine, BeforeHead
<1>7. LinesIn'
  BY <1>1, <1>5, <1>6 DEF LinesIn
<1>8. HeadersFaithful'
  BY FaithfulKept DEF HeadInv
<1> QED BY <1>7, <1>8
    DEF HeadInv, NotYetRead, StatusIn, SkipIn, PastHead, PlainStates, ChunkedStates, ReqStates

\* It is not: more of the line is dropped.
LEMMA SkipKept ==
  ASSUME TypeOK, AllWellFormed, HeadInv, RespHeaderBuffSize >= 3,
         NEW h \in 1..Len(resp.heads), NEW l \in 1..Len(resp.heads[h]),
         AtLine(h, l), StatusKnown(h), FittingLine(resp.heads[h][l]) = <<>>, resp.heads[h][l][1] # "TE",
         state' = "RESP_HEADER_SKIP", UNCHANGED <<app, resp, hdrs, chunkedResp, got, status>>,
         NEW e \in 1..Len(resp.heads[h][l]), NEW s \in {<<>>, <<"CR">>},
         NEW buf, hbuf' = buf, ~HasCRLF(buf), IsPrefix(s, buf),
         Ahead(BeforeLine(resp, h, l) \o SubSeq(resp.heads[h][l], 1, e), SubSeq(buf, Len(s) + 1, Len(buf)) \o wire')
  PROVE  HeadInv'
<1>1. l \in 1..Len(resp.heads[h]) + 1 /\ l <= Len(resp.heads[h]) /\ e \in Nat /\ e # 0 /\ e <= Len(resp.heads[h][l])
  <2>1. Len(resp.heads[h]) \in Nat /\ Len(resp.heads[h][l]) \in Nat
    BY ResponseType DEF TypeOK
  <2> QED BY <2>1
<1>2. AtLine(h, l)' /\ StatusKnown(h)'
  BY AtLineKept DEF StatusKnown
<1>3. Skipping(h, l, e, s)'
  BY <1>1 DEF Skipping, Ahead, BeforeLine, BeforeHead, FittingLine
<1>4. SkipIn'
  <2>1. ~HasCRLF(hbuf)'
    BY DEF HasCRLF, CRLFAt
  <2> QED BY <1>1, <1>2, <1>3, <2>1 DEF SkipIn
<1>5. HeadersFaithful'
  BY FaithfulKept DEF HeadInv
<1> QED BY <1>4, <1>5
    DEF HeadInv, NotYetRead, StatusIn, LinesIn, PastHead, PlainStates, ChunkedStates, ReqStates

\* What may be kept of a line that is skipped is no line.
LEMMA KeptFits ==
  ASSUME NEW s \in {<<>>, <<"CR">>}
  PROVE  s \in Seq(Slots) /\ Len(s) \in 0..1 /\ ~HasCRLF(s)
<1>1. CASE s = <<>>
  BY <1>1 DEF HasCRLF, CRLFAt
<1>2. CASE s = <<"CR">>
  BY <1>2, SlotsAssumption DEF HasCRLF, CRLFAt, SlotsAssumption
<1> QED BY <1>1, <1>2

\* It leaves room for the next read.
LEMMA KeptRoom ==
  ASSUME NEW n \in 0..1, RespHeaderBuffSize >= 3
  PROVE  RespHeaderBuffSize - n - 1 \in Nat
BY RespHeaderBuffSizeAssumption DEF RespHeaderBuffSizeAssumption

\* A line too long for the buffer is dropped, and the next one is found where it begins.
LEMMA SkipHead ==
  ASSUME TypeOK, NoOverflow, AllWellFormed, HeadInv, RespHeaderSkip
  PROVE  HeadInv'
<1>1. state = "RESP_HEADER_SKIP" /\ UNCHANGED <<app, resp>>
  BY DEF RespHeaderSkip, RespUnchanged, ownVars
<1>2. CASE hbuf # <<>> /\ hbuf[1] \in {"CL", "TE"}
  <2>1. state' = "CLOSE" /\ UNCHANGED <<resp, hdrs, got>>
    BY <1>1, <1>2 DEF RespHeaderSkip, Abort, respVars, parseVars
  <2>2. HeadersFaithful'
    BY <2>1, FaithfulKept DEF HeadInv
  <2> QED BY <2>1, <2>2, HeadEnded
<1>3. CASE ~(hbuf # <<>> /\ hbuf[1] \in {"CL", "TE"})
  <2>1. RespHeaderBuffSize >= 3 /\ ~HasCRLF(hbuf)
    BY <1>1 DEF HeadInv, SkipIn
  <2>2. \E h \in 1..Len(resp.heads) : \E l \in 1..Len(resp.heads[h]) + 1 :
          /\ AtLine(h, l) /\ StatusKnown(h)
          /\ \E d \in Nat : \E stray \in {<<>>, <<"CR">>} : Skipping(h, l, d, stray)
    BY <1>1 DEF HeadInv, SkipIn
  <2>3. PICK h \in 1..Len(resp.heads) : \E l \in 1..Len(resp.heads[h]) + 1 :
          /\ AtLine(h, l) /\ StatusKnown(h)
          /\ \E d \in Nat : \E stray \in {<<>>, <<"CR">>} : Skipping(h, l, d, stray)
    BY <2>2
  <2>4. PICK l \in 1..Len(resp.heads[h]) + 1 :
          /\ AtLine(h, l) /\ StatusKnown(h)
          /\ \E d \in Nat : \E stray \in {<<>>, <<"CR">>} : Skipping(h, l, d, stray)
    BY <2>3
  <2>5. PICK d \in Nat : \E stray \in {<<>>, <<"CR">>} : Skipping(h, l, d, stray)
    BY <2>4
  <2>6. PICK stray \in {<<>>, <<"CR">>} : Skipping(h, l, d, stray)
    BY <2>5
  <2>a. PICK line : line = resp.heads[h][l]
    OBVIOUS
  <2>7. /\ l \in 1..Len(resp.heads[h]) /\ FittingLine(line) = <<>>
        /\ line \in Seq(Slots) /\ Len(line) \in Nat
    <3>1. Len(resp.heads[h]) \in Nat
      BY ResponseType DEF TypeOK
    <3>2. l \in 1..Len(resp.heads[h]) /\ FittingLine(line) = <<>>
      BY <2>6, <2>a, <3>1 DEF Skipping
    <3> QED BY <2>a, <3>2, ResponseType DEF TypeOK
  <2>8. PICK kept \in SkipKeeps :
         \/ \E data \in Received(RespHeaderBuffSize - Len(kept) - 1) :
              /\ Consume(data)
              /\ readEnd' = (data = <<>> \/ readEnd)
              /\ IF HasCRLF(kept \o data)
                   THEN hbuf' = AfterLine(kept \o data) /\ Goto("RESP_HEADER_CALLBACK")
                   ELSE hbuf' = kept \o data /\ UNCHANGED <<state, result>>
              /\ UNCHANGED <<sbuf, status, chunkedResp, chunkSize, chunkWritten, hdrs, got>>
         \/ hbuf' = kept /\ Abort("SOCK_RECV") /\ UNCHANGED <<sbuf, parseVars>>
         \/ hbuf' = kept /\ UNCHANGED <<state, result, sbuf, parseVars>>
    BY <1>3 DEF RespHeaderSkip
  <2>9. DropsTo(h, l, line, kept)
    <3>1. hbuf # <<>> => hbuf[1] \notin {"CL", "TE"}
      BY <1>3
    <3> QED BY <2>1, <2>6, <2>7, <2>a, <3>1, Dropped
  <2>10. PICK e \in 1..Len(line) : \E s \in {<<>>, <<"CR">>} : \E k \in {<<>>, <<"CR">>} :
           /\ kept = s \o k /\ line[1] # "TE"
           /\ Ahead(BeforeLine(resp, h, l) \o SubSeq(line, 1, e), k \o wire)
    BY <2>9 DEF DropsTo
  <2>11. PICK s \in {<<>>, <<"CR">>} : \E k \in {<<>>, <<"CR">>} :
           /\ kept = s \o k /\ line[1] # "TE"
           /\ Ahead(BeforeLine(resp, h, l) \o SubSeq(line, 1, e), k \o wire)
    BY <2>10
  <2>12. PICK k \in {<<>>, <<"CR">>} :
           /\ kept = s \o k /\ line[1] # "TE"
           /\ Ahead(BeforeLine(resp, h, l) \o SubSeq(line, 1, e), k \o wire)
    BY <2>11
  <2>13. k \in Seq(Slots) /\ s \in Seq(Slots) /\ kept \in {<<>>, <<"CR">>} /\ wire \in Seq(Slots)
    <3>1. <<>> \in Seq(Slots) /\ <<"CR">> \in Seq(Slots)
      BY SlotsAssumption DEF SlotsAssumption
    <3>2. kept \in {<<>>, <<"CR">>}
      BY DEF SkipKeeps
    <3> QED BY <3>1, <3>2 DEF TypeOK
  <2>b. Len(kept) \in 0..1 /\ ~HasCRLF(kept)
    BY <2>13, KeptFits
  <2>14. CASE hbuf' = kept /\ Abort("SOCK_RECV") /\ UNCHANGED <<sbuf, parseVars>>
    <3>1. state' = "CLOSE" /\ UNCHANGED <<resp, hdrs, got>>
      BY <1>1, <2>14 DEF Abort, parseVars
    <3>2. HeadersFaithful'
      BY <3>1, FaithfulKept DEF HeadInv
    <3> QED BY <3>1, <3>2, HeadEnded
  <2>15. ASSUME NEW x \in Seq(Slots), s \o x \in Seq(Slots),
                Ahead(BeforeLine(resp, h, l) \o SubSeq(line, 1, e), x \o wire'), wire' \in Seq(Slots),
                UNCHANGED <<app, resp, hdrs, chunkedResp, got, status>>,
                \/ HasCRLF(s \o x) /\ hbuf' = AfterLine(s \o x) /\ state' = "RESP_HEADER_CALLBACK"
                \/ ~HasCRLF(s \o x) /\ hbuf' = s \o x /\ state' = "RESP_HEADER_SKIP"
         PROVE  HeadInv'
    <3>1. /\ s \o x \in Seq(Slots) /\ IsPrefix(s, s \o x)
          /\ SubSeq(s \o x, Len(s) + 1, Len(s \o x)) = x
          /\ HasCRLF(s \o x) => AfterLine(s \o x) \in Seq(Slots)
          /\ HasCRLF(s \o x) => Ahead(BeforeLine(resp, h, l + 1), AfterLine(s \o x) \o wire')
      <4> DEFINE more == wire'
      <4>1. more \in Seq(Slots) /\ Ahead(BeforeLine(resp, h, l) \o SubSeq(line, 1, e), x \o more)
        BY <2>15
      <4>2. x \in Seq(Slots)
        BY <2>15
      <4> HIDE DEF more
      <4>3. IsPrefix(s, s \o x)
        <5>1. s \in Seq(Slots)
          BY <2>13
        <5> QED BY <4>2, <5>1, PrefixOfConcat
      <4>6. SubSeq(s \o x, Len(s) + 1, Len(s \o x)) = x
        BY <2>7, <2>a, <4>1, <4>2, SkipSearch
      <4>4. HasCRLF(s \o x) => AfterLine(s \o x) \in Seq(Slots)
        BY <2>7, <2>a, <4>1, <4>2, SkipSearch
      <4>5. HasCRLF(s \o x) => Ahead(BeforeLine(resp, h, l + 1), AfterLine(s \o x) \o more)
        BY <2>7, <2>a, <4>1, <4>2, SkipSearch
      <4> QED BY <2>15, <4>3, <4>4, <4>5, <4>6 DEF more
    <3> DEFINE buf == s \o x
    <3>2. FittingLine(resp.heads[h][l]) = <<>> /\ resp.heads[h][l][1] # "TE"
      BY <2>7, <2>12, <2>a
    <3>3. CASE HasCRLF(buf) /\ hbuf' = AfterLine(buf) /\ state' = "RESP_HEADER_CALLBACK"
      <4>1. Ahead(BeforeLine(resp, h, l + 1), AfterLine(buf) \o wire')
        BY <3>1, <3>3
      <4> HIDE DEF buf
      <4> QED BY <2>1, <2>4, <2>7, <2>15, <3>2, <3>3, <4>1, SkipDone
    <3>4. CASE ~HasCRLF(buf) /\ hbuf' = buf /\ state' = "RESP_HEADER_SKIP"
      <4>1. /\ IsPrefix(s, buf)
            /\ Ahead(BeforeLine(resp, h, l) \o SubSeq(line, 1, e), SubSeq(buf, Len(s) + 1, Len(buf)) \o wire')
        BY <2>15, <3>1
      <4> HIDE DEF buf
      <4> QED BY <2>1, <2>4, <2>7, <2>15, <3>2, <3>4, <4>1, SkipKept, <2>a
    <3> QED BY <2>15, <3>3, <3>4
  <2>16. CASE hbuf' = kept /\ UNCHANGED <<state, result, sbuf, parseVars>>
    <3>1. UNCHANGED <<app, resp, hdrs, chunkedResp, got, status>> /\ wire' = wire /\ state' = "RESP_HEADER_SKIP"
      BY <1>1, <2>16 DEF parseVars
    <3>2. ~HasCRLF(kept)
      BY <2>b
    <3>3. Ahead(BeforeLine(resp, h, l) \o SubSeq(line, 1, e), k \o wire')
      BY <2>12, <3>1
    <3>4. ~HasCRLF(s \o k) /\ hbuf' = s \o k /\ s \o k \in Seq(Slots)
      BY <2>12, <2>13, <2>16, <3>2, ConcatProperties
    <3>5. wire' \in Seq(Slots)
      BY <2>13, <3>1
    <3> QED BY <2>13, <2>15, <3>1, <3>3, <3>4, <3>5
  <2>17. ASSUME NEW data \in Received(RespHeaderBuffSize - Len(kept) - 1), Consume(data),
                IF HasCRLF(kept \o data)
                   THEN hbuf' = AfterLine(kept \o data) /\ Goto("RESP_HEADER_CALLBACK")
                   ELSE hbuf' = kept \o data /\ UNCHANGED <<state, result>>,
                UNCHANGED <<sbuf, status, chunkedResp, chunkSize, chunkWritten, hdrs, got>>
         PROVE  HeadInv'
    <3>1. RespHeaderBuffSize - Len(kept) - 1 \in Nat
  BY <2>1, <2>b, KeptRoom
    <3>2. /\ data \in Seq(Slots) /\ wire' \in Seq(Slots) /\ k \o data \in Seq(Slots)
          /\ (k \o data) \o wire' = k \o wire
      BY <2>13, <2>17, <3>1, ReceivedRest
    <3> DEFINE x == k \o data
    <3>3. x \in Seq(Slots) /\ Ahead(BeforeLine(resp, h, l) \o SubSeq(line, 1, e), x \o wire')
      BY <2>12, <3>2
    <3>4. kept \o data = s \o x
      <4>1. s \in Seq(Slots) /\ k \in Seq(Slots) /\ data \in Seq(Slots)
        BY <2>13, <3>2
      <4>2. (s \o k) \o data = s \o (k \o data)
        <5>1. Associates(s, k, data)
          BY <4>1, Associative
        <5> QED BY <5>1 DEF Associates
      <4> QED BY <2>12, <4>2
    <3> HIDE DEF x
    <3>5. s \o x \in Seq(Slots)
      BY <2>13, <3>3, ConcatProperties
    <3>6. \/ HasCRLF(s \o x) /\ hbuf' = AfterLine(s \o x) /\ state' = "RESP_HEADER_CALLBACK"
          \/ ~HasCRLF(s \o x) /\ hbuf' = s \o x /\ state' = "RESP_HEADER_SKIP"
      BY <1>1, <2>17, <3>4 DEF Goto
    <3> QED BY <1>1, <2>15, <2>17, <3>2, <3>3, <3>5, <3>6
  <2> QED BY <2>8, <2>14, <2>16, <2>17
<1> QED BY <1>2, <1>3

BodyStates == PlainStates \cup ChunkedStates

\* While the body is read nothing more is told of the head.
LEMMA BodyKeepsHead ==
  ASSUME HeadInv, state \in BodyStates, UNCHANGED <<resp, hdrs>>,
         \/ state' = "CLOSE"
         \/ state \in PlainStates /\ state' \in PlainStates
         \/ state \in ChunkedStates /\ state' \in ChunkedStates
  PROVE  HeadInv'
<1>1. hdrs = FittingLines(resp)
  BY DEF HeadInv, PastHead, BodyStates
<1>2. (hdrs = FittingLines(resp))'
  BY <1>1 DEF FittingLines, FittingHeads, Fitting, FittingLine
<1>3. IsPrefix(hdrs, FittingLines(resp))'
  BY DEF HeadInv, HeadersFaithful, FittingLines, FittingHeads, Fitting, FittingLine
<1>4. HeadersFaithful'
  BY <1>2, <1>3 DEF HeadersFaithful
<1>5. CASE state' = "CLOSE"
  BY <1>4, <1>5, HeadEnded
<1>6. CASE state' # "CLOSE"
  <2>1. PastHead'
    BY <1>2, <1>6 DEF HeadInv, PastHead, PlainStates, ChunkedStates
  <2>2. state' \in BodyStates
    BY <1>6 DEF BodyStates
  <2> QED BY <1>4, <2>1, <2>2
    DEF HeadInv, NotYetRead, StatusIn, LinesIn, SkipIn, BodyStates, PlainStates, ChunkedStates, ReqStates
<1> QED BY <1>5, <1>6

\* The handlers of a body that ends with the connection.
LEMMA PlainBodyHead ==
  ASSUME HeadInv, RespBodyFragment \/ RespBodyRead \/ RespBodyCallback
  PROVE  HeadInv'
<1>1. /\ state \in PlainStates /\ UNCHANGED <<resp, hdrs>>
      /\ state' \in PlainStates \cup {"CLOSE"}
  <2> USE DEF PlainStates, Goto, Abort, RespUnchanged, RecvFails, Again, vars, ownVars, respVars, parseVars
  <2>1. CASE RespBodyFragment
    BY <2>1 DEF RespBodyFragment, WriteBody, AfterBody
  <2>2. CASE RespBodyRead
    BY <2>2 DEF RespBodyRead
  <2>3. CASE RespBodyCallback
    BY <2>3 DEF RespBodyCallback, WriteBody, AfterBody
  <2> QED BY <2>1, <2>2, <2>3
<1> QED BY <1>1, BodyKeepsHead DEF BodyStates

\* The handlers of a chunked body.
LEMMA ChunkedBodyHead ==
  ASSUME HeadInv,
         \/ RespBodyParseChunkSize \/ ReadChunkSizeFromHeaderBuff \/ ReadChunkBodyFromHeaderBuff
         \/ RespBodyReadChunkSize \/ RespBodyParseChunkBody \/ RespBodyReadChunkBody
         \/ RespBodySkipChunkBodyCRLF \/ RespBodySkipTrailers
  PROVE  HeadInv'
<1>1. /\ state \in ChunkedStates /\ UNCHANGED <<resp, hdrs>>
      /\ state' \in ChunkedStates \cup {"CLOSE"}
  <2> USE DEF ChunkedStates, Goto, Abort, RespUnchanged, RecvFails, Again, vars, ownVars, respVars, parseVars
  <2>1. CASE RespBodyParseChunkSize
    BY <2>1 DEF RespBodyParseChunkSize
  <2>2. CASE ReadChunkSizeFromHeaderBuff \/ ReadChunkBodyFromHeaderBuff
    BY <2>2 DEF ReadChunkSizeFromHeaderBuff, ReadChunkBodyFromHeaderBuff, MoveHeaderToStream
  <2>3. CASE RespBodyReadChunkSize \/ RespBodyReadChunkBody
    BY <2>3 DEF RespBodyReadChunkSize, RespBodyReadChunkBody, ReadChunk
  <2>4. CASE RespBodyParseChunkBody
    BY <2>4 DEF RespBodyParseChunkBody
  <2>5. CASE RespBodySkipChunkBodyCRLF
    BY <2>5 DEF RespBodySkipChunkBodyCRLF
  <2>6. CASE RespBodySkipTrailers
    BY <2>6 DEF RespBodySkipTrailers
  <2> QED BY <2>1, <2>2, <2>3, <2>4, <2>5, <2>6
<1> QED BY <1>1, BodyKeepsHead DEF BodyStates

\* One call of the handler that calls cb_header.
LEMMA CallbackHead ==
  ASSUME TypeOK, NoOverflow, AllWellFormed, HeadInv, RespHeaderCallback
  PROVE  HeadInv'
BY IncompleteHead, LineHead, SectionEndHead DEF RespHeaderCallback

\* Every response handler keeps the reader in step with the head.
LEMMA ResponseHead ==
  ASSUME TypeOK, NoOverflow, AllWellFormed, HeadInv, ResponseStep
  PROVE  HeadInv'
BY StatusReadHead, StatusParseHead, CallbackHead, HeaderReadHead, SkipHead, PlainBodyHead, ChunkedBodyHead
   DEF ResponseStep

-----------------------------------------------------------------------------
(* The steps before the response.                                          *)

\* What the request handlers leave of the header buffer.
LEMMA RequestHbuf ==
  ASSUME RequestStep
  PROVE  /\ hbuf' = hbuf \/ hbuf' = <<>>
         /\ state \in ReqStates /\ state' \in ReqStates \cup {"RESP_STATUS_READ", "CLOSE"}
         /\ UNCHANGED <<ownVars, parseVars>>
<1> USE DEF SendText, Goto, Abort, Again, vars, reqVars, respVars, ReqStates
<1>1. CASE SendReqLine
  BY <1>1 DEF SendReqLine, ReqLineSent
<1>2. CASE SendHostHeader
  BY <1>2 DEF SendHostHeader, HostHeaderSent
<1>3. CASE ReqHeader
  BY <1>3 DEF ReqHeader
<1>4. CASE SendHeader
  BY <1>4 DEF SendHeader, HeaderSent
<1>5. CASE SendHeaderCRLF
  BY <1>5 DEF SendHeaderCRLF, HeaderCRLFSent
<1>6. CASE SendHeaderEnd
  BY <1>6 DEF SendHeaderEnd, HeaderEndSent
<1>7. CASE ReqBodyRead
  BY <1>7 DEF ReqBodyRead
<1>8. CASE SendBodySize
  BY <1>8 DEF SendBodySize, BodySizeSent
<1>9. CASE SendBody
  BY <1>9 DEF SendBody, BodySent
<1>10. CASE SendBodyCRLF
  BY <1>10 DEF SendBodyCRLF, BodyCRLFSent
<1> QED
  BY <1>1, <1>2, <1>3, <1>4, <1>5, <1>6, <1>7, <1>8, <1>9, <1>10 DEF RequestStep

\* The first status line is read into an empty buffer.
LEMMA ResponseBegins ==
  ASSUME TypeOK, AllWellFormed, HeadersFaithful, hdrs = <<>>, got = <<>>, chunkedResp = FALSE,
         IsPrefix(wire, ResponseWire(resp)), hbuf' = <<>>, UNCHANGED <<ownVars, parseVars>>,
         state' = "RESP_STATUS_READ"
  PROVE  HeadInv'
<1>0. UNCHANGED <<app, resp, hdrs, chunkedResp, got, wire>>
  BY DEF ownVars, parseVars
<1>1. resp \in Responses /\ wire \in Seq(Slots) /\ resp.heads # <<>>
  BY DEF TypeOK, AllWellFormed, WellFormed
<1>2. 1 \in 1..Len(resp.heads) /\ 1 \in 1..Len(resp.heads[1]) + 1
  <2>1. DOMAIN resp.heads = 1..Len(resp.heads) /\ Len(resp.heads) \in Nat
    BY <1>1, ResponseType
  <2>2. resp.heads \in Seq(Seq(Seq(Slots) \ {<<>>}) \ {<<>>})
    BY <1>1, ResponsesAssumption DEF ResponsesAssumption, IsResponse
  <2>3. Len(resp.heads) # 0
    BY <1>1, <2>2, EmptySeq
  <2>4. Len(resp.heads[1]) \in Nat
    BY <1>1, <2>1, <2>3, ResponseType
  <2> QED BY <2>1, <2>3, <2>4
<1>3. /\ BeforeLine(resp, 1, 1) = <<>>
      /\ FitBefore(resp, 1, 1) = <<>>
      /\ TEBefore(resp, 1, 1) = FALSE
  <2>1. BeforeLine(resp, 1, 1) = BeforeHead(resp, 1) /\ BeforeHead(resp, 1) = <<>>
    BY <1>1, <1>2, LinePlace
  <2>2. FitBefore(resp, 1, 1) = <<>>
    BY <1>1, <1>2, FitPlace
  <2>3. TEBefore(resp, 1, 1) \in BOOLEAN /\ ~TEBefore(resp, 1, 1)
    BY <1>1, <1>2, CodingPlace
  <2> QED BY <2>1, <2>2, <2>3
<1>4. AtLine(1, 1)'
  <2>1. AtLine(1, 1)
    BY <1>2, <1>3 DEF AtLine
  <2> QED BY <1>0, <2>1, AtLineKept
<1>5. Ahead(BeforeLine(resp, 1, 1), hbuf \o wire)'
  <2>1. Ahead(BeforeLine(resp, 1, 1), <<>> \o wire)
    <3>1. <<>> \o wire = wire
      BY <1>1, ConcatEmptySeq
    <3> QED BY <1>3, <3>1 DEF Ahead
  <2> QED BY <1>0, <2>1 DEF Ahead, BeforeLine, BeforeHead
<1>6. StatusIn'
  <2>1. (1 \in 1..Len(resp.heads))'
    BY <1>0, <1>2
  <2> QED BY <1>4, <1>5, <2>1 DEF StatusIn
<1>7. HeadersFaithful'
  BY <1>0, FaithfulKept
<1> QED BY <1>6, <1>7
    DEF HeadInv, NotYetRead, LinesIn, SkipIn, PastHead, PlainStates, ChunkedStates, ReqStates

\* Nothing of the response is read before.
LEMMA NotYetReadKept ==
  ASSUME HeadInv, state \in {"IDLE", "CONNECT"} \cup ReqStates,
         state' \in {"IDLE", "CONNECT", "CLOSE", "FINISHED"} \cup ReqStates,
         hbuf' = hbuf \/ hbuf' = <<>>, UNCHANGED <<ownVars, parseVars>>
  PROVE  HeadInv'
<1>0. UNCHANGED <<app, resp, hdrs, chunkedResp, got, wire>>
  BY DEF ownVars, parseVars
<1>1. HeadersFaithful'
  BY <1>0, FaithfulKept DEF HeadInv
<1>2. CASE state' \in {"CLOSE", "FINISHED"}
  BY <1>1, <1>2, HeadEnded
<1>3. CASE state' \in {"IDLE", "CONNECT"} \cup ReqStates
  <2>1. /\ hdrs = <<>> /\ got = <<>> /\ chunkedResp = FALSE /\ hbuf = <<>>
        /\ app = "performing" => IsPrefix(wire, ResponseWire(resp))
    BY DEF HeadInv, NotYetRead
  <2>2. NotYetRead'
    BY <1>0, <2>1 DEF NotYetRead
  <2> QED BY <1>1, <1>3, <2>2
    DEF HeadInv, StatusIn, LinesIn, SkipIn, PastHead, PlainStates, ChunkedStates, ReqStates
<1> QED BY <1>2, <1>3

\* The request handlers tell nothing, and end with an empty header buffer.
LEMMA RequestHead ==
  ASSUME TypeOK, NotYetConnected, AllWellFormed, HeadInv, RequestStep
  PROVE  HeadInv'
<1>1. /\ hbuf' = hbuf \/ hbuf' = <<>>
      /\ state \in ReqStates /\ state' \in ReqStates \cup {"RESP_STATUS_READ", "CLOSE"}
      /\ UNCHANGED <<ownVars, parseVars>>
  BY RequestHbuf
<1>2. app = "performing"
  BY <1>1 DEF TypeOK, NotYetConnected, ReqStates
<1>3. /\ hdrs = <<>> /\ got = <<>> /\ chunkedResp = FALSE /\ hbuf = <<>>
      /\ IsPrefix(wire, ResponseWire(resp)) /\ HeadersFaithful
  BY <1>1, <1>2 DEF HeadInv, NotYetRead
<1>4. CASE state' = "RESP_STATUS_READ"
  BY <1>1, <1>3, <1>4, ResponseBegins
<1>5. CASE state' \in ReqStates \cup {"CLOSE"}
  BY <1>1, <1>5, NotYetReadKept
<1> QED BY <1>1, <1>4, <1>5

\* Neither do the first handlers of a session and the last.
LEMMA OtherHead ==
  ASSUME TypeOK, NotYetConnected, AllWellFormed, HeadInv, Idle \/ Connect \/ Close
  PROVE  HeadInv'
<1>1. CASE Idle
  BY <1>1, NotYetReadKept DEF Idle, Goto, respVars
<1>2. CASE Connect
  BY <1>2, NotYetReadKept DEF Connect, Goto, respVars, ReqStates
<1>3. CASE Close
  <2>1. state' \in {"CLOSE", "FINISHED"} /\ UNCHANGED <<resp, hdrs, got>>
    BY <1>3 DEF Close, ownVars, respVars, parseVars
  <2>2. HeadersFaithful'
    BY <2>1, FaithfulKept DEF HeadInv
  <2> QED BY <2>1, <2>2, HeadEnded
<1> QED BY <1>1, <1>2, <1>3

\* Between the sessions nothing has been told of a response.
LEMMA NothingTold ==
  ASSUME NEW r \in Responses
  PROVE  IsPrefix(<<>>, FittingLines(r))
<1> DEFINE f == FittingLines(r)
<1>1. f \in Seq(Seq(Slots)) /\ <<>> \in Seq(Seq(Slots)) /\ <<>> \o f = f
  BY HeadSectionsType, ConcatEmptySeq
<1> HIDE DEF f
<1>2. IsPrefix(<<>>, <<>> \o f)
  BY <1>1, PrefixOfConcat
<1> QED BY <1>1, <1>2 DEF f

\* A session begins with the response still to be read.
LEMMA PerformHead ==
  ASSUME TypeOK, NotYetConnected, AllWellFormed, HeadInv, Perform
  PROVE  HeadInv'
<1>1. resp' \in Responses
  BY ExchangesAssumption DEF Perform, ExchangesAssumption
<1>2. state = "IDLE" /\ state' = "IDLE" /\ UNCHANGED <<hdrs, got, chunkedResp, hbuf>>
  BY DEF Perform, NotYetConnected
<1>3. hdrs' = <<>> /\ got' = <<>> /\ chunkedResp' = FALSE /\ hbuf' = <<>>
  BY <1>2 DEF HeadInv, NotYetRead
<1>4. IsPrefix(wire', ResponseWire(resp'))
  <2> DEFINE u == ResponseWire(resp')
  <2>1. PICK n \in Cuts(resp') : wire' = SubSeq(u, 1, n)
    BY DEF Perform
  <2>2. u \in Seq(Slots)
    BY <1>1, ResponseWireType
  <2>3. n \in 0..Len(u)
    BY <1>1, <2>2, ResponseWireType DEF Cuts
  <2> HIDE DEF u
  <2>4. /\ SubSeq(u, 1, n) \in Seq(Slots) /\ SubSeq(u, n + 1, Len(u)) \in Seq(Slots)
        /\ SubSeq(u, 1, n) \o SubSeq(u, n + 1, Len(u)) = u
    BY <2>2, <2>3, SplitSeq
  <2> DEFINE a == SubSeq(u, 1, n)
             b == SubSeq(u, n + 1, Len(u))
  <2>5. a \in Seq(Slots) /\ b \in Seq(Slots) /\ a \o b = u
    BY <2>4
  <2> HIDE DEF a, b
  <2>6. IsPrefix(a, a \o b)
    BY <2>5, PrefixOfConcat
  <2> QED BY <2>1, <2>5, <2>6 DEF a, u
<1>5. NotYetRead'
  BY <1>3, <1>4 DEF NotYetRead
<1>6. HeadersFaithful'
  <2>1. IsPrefix(<<>>, FittingLines(resp'))
    BY <1>1, NothingTold
  <2>2. IsPrefix(hdrs, FittingLines(resp))'
    BY <1>3, <2>1 DEF FittingLines, FittingHeads, Fitting, FittingLine
  <2> QED BY <1>3, <2>2 DEF HeadersFaithful
<1> QED BY <1>2, <1>5, <1>6
  DEF HeadInv, StatusIn, LinesIn, SkipIn, PastHead, PlainStates, ChunkedStates, ReqStates

\* It is forgotten with the session.
LEMMA ReturnHead ==
  ASSUME TypeOK, Return
  PROVE  HeadInv'
<1>1. /\ hdrs' = <<>> /\ got' = <<>> /\ chunkedResp' = FALSE /\ hbuf' = <<>>
      /\ state' = "IDLE" /\ app' = "idle" /\ resp' \in Responses
  BY DEF Return, ResetExceptCb, TypeOK
<1>5. NotYetRead'
  BY <1>1 DEF NotYetRead
<1>6. HeadersFaithful'
  <2>1. IsPrefix(<<>>, FittingLines(resp'))
    BY <1>1, NothingTold
  <2>2. IsPrefix(hdrs, FittingLines(resp))'
    BY <1>1, <2>1 DEF FittingLines, FittingHeads, Fitting, FittingLine
  <2> QED BY <1>1, <2>2 DEF HeadersFaithful
<1> QED BY <1>1, <1>5, <1>6
  DEF HeadInv, StatusIn, LinesIn, SkipIn, PastHead, PlainStates, ChunkedStates, ReqStates

\* At first nothing has been read.
LEMMA InitHead ==
  ASSUME Init
  PROVE  HeadInv
<1>1. HeadersFaithful
  BY NothingTold DEF Init, HeadersFaithful
<1> QED BY <1>1 DEF Init, HeadInv, NotYetRead, StatusIn, LinesIn, SkipIn, PastHead, PlainStates,
  ChunkedStates, ReqStates

\* And a step that changes nothing changes nothing of it.
LEMMA StutterHead ==
  ASSUME HeadInv, UNCHANGED vars
  PROVE  HeadInv'
BY HeadKept DEF vars, ownVars, respVars, parseVars

\* The reader is in step with the head in every state of every session.
LEMMA HeadAlways ==
  ASSUME AllWellFormed
  PROVE  Spec => []HeadInv
<1>1. Init => HeadInv
  BY InitHead
<1>2. IInv /\ HeadInv /\ [Next]_vars => HeadInv'
  BY RequestHead, ResponseHead, OtherHead, PerformHead, ReturnHead, StutterHead DEF IInv, Next, Handler
<1> QED BY <1>1, <1>2, Inductive, PTL DEF Spec

(***************************************************************************)
(* Whatever the buffer size, and however cb_sock_recv cuts up the response *)
(* and wherever it ends, cb_header is called once for each line that fits  *)
(* in the buffer, in order, with the whole line and for no other, and a    *)
(* body is read only after the last of them: if the responses are well     *)
(* formed.                                                                 *)
(***************************************************************************)
THEOREM HeadersAlwaysFaithful ==
  ASSUME AllWellFormed
  PROVE  Spec => []HeadersFaithful
<1>1. HeadInv => HeadersFaithful
  BY DEF HeadInv
<1> QED BY <1>1, HeadAlways, PTL

-----------------------------------------------------------------------------
(* The body on the wire, part by part.                                     *)

\* What the chunk after the i-th carries; the last one carries nothing.
NextPiece(r, i) == IF i < Len(r.pieces) THEN r.pieces[i + 1] ELSE <<>>

\* A chunked response up to the size line that follows the i-th chunk, and its data so far.
LEMMA ChunkPlace ==
  ASSUME NEW r \in Responses, r.chunked, NEW i \in 0..Len(r.pieces)
  PROVE  /\ AfterChunks(r, i) \in Seq(Slots)
         /\ AfterChunks(r, 0) = HeadWire(r)
         /\ NextPiece(r, i) \in Seq(Slots) /\ Len(NextPiece(r, i)) \in Sizes
         /\ SizeLine(NextPiece(r, i)) \in Seq(Slots)
         /\ IsPrefix(AfterChunks(r, i) \o SizeLine(NextPiece(r, i)), ResponseWire(r))
<1> DEFINE cs == Chunks(r.pieces)
           F(k) == FlattenSeq(SubSeq(cs, 1, k))
           line == SizeLine(NextPiece(r, i))
           body == ChunkedBody(r.pieces)
           last == <<SizeSlot(0)>> \o CRLF
<1>1. /\ r.pieces \in Seq(Seq(Slots)) /\ Len(r.pieces) \in Nat
      /\ \A k \in 1..Len(r.pieces) : r.pieces[k] \in Seq(Slots) /\ Len(r.pieces[k]) \in Nat
      /\ HeadWire(r) \in Seq(Slots)
  BY ResponseType, ResponseWireType
<1>2. SizedPieces(r.pieces) /\ DOMAIN r.pieces = 1..Len(r.pieces)
  BY <1>1, ChunksAssumption DEF ChunksAssumption, SizedPieces
<1>3. /\ cs \in Seq(Seq(Slots)) /\ Len(cs) = Len(r.pieces)
      /\ body = FlattenSeq(cs) \o <<SizeSlot(0)>> \o CRLF \o CRLF /\ body \in Seq(Slots)
  BY <1>1, <1>2, ChunksType
<1>4. /\ \A k \in 0..Len(r.pieces) : F(k) \in Seq(Slots)
      /\ F(0) = <<>> /\ F(Len(r.pieces)) = FlattenSeq(cs) /\ IsPrefix(F(i), FlattenSeq(cs))
  BY <1>1, <1>3, FlattenParts, FlattenPrefix
<1>5. AfterChunks(r, i) = HeadWire(r) \o F(i) /\ AfterChunks(r, 0) = HeadWire(r) \o F(0)
  BY DEF AfterChunks
<1>6. AfterChunks(r, i) \in Seq(Slots) /\ AfterChunks(r, 0) = HeadWire(r)
  <2> DEFINE h == HeadWire(r)
             f == F(i)
  <2>1. h \in Seq(Slots) /\ f \in Seq(Slots) /\ F(0) = <<>>
    BY <1>1, <1>4
  <2> HIDE DEF h, f
  <2>2. h \o f \in Seq(Slots) /\ h \o <<>> = h
    BY <2>1, ConcatProperties, ConcatEmptySeq
  <2> HIDE DEF F
  <2> QED BY <1>5, <2>1, <2>2 DEF h, f
<1>7. NextPiece(r, i) \in Seq(Slots) /\ Len(NextPiece(r, i)) \in Sizes
  <2>1. CASE i < Len(r.pieces)
    <3>1. i + 1 \in 1..Len(r.pieces)
      BY <1>1, <2>1
    <3> QED BY <1>1, <1>2, <2>1, <3>1 DEF NextPiece, SizedPieces
  <2>2. CASE ~(i < Len(r.pieces))
    <3>1. NextPiece(r, i) = <<>> /\ Len(<<>>) = 0 /\ <<>> \in Seq(Slots)
      BY <2>2 DEF NextPiece
    <3> QED BY <3>1, SizeSlotType
  <2> QED BY <2>1, <2>2
<1>8. line \in Seq(Slots)
  <2>1. <<SizeSlot(Len(NextPiece(r, i)))>> \in Seq(Slots)
    BY <1>7, SizeSlotType
  <2> QED BY <2>1, CRLFType, ConcatProperties DEF SizeLine
<1>9. last \in Seq(Slots) /\ FlattenSeq(cs) \in Seq(Slots) /\ FlattenSeq(cs) \o last \in Seq(Slots)
  <2>1. <<SizeSlot(0)>> \in Seq(Slots) /\ FlattenSeq(cs) \in Seq(Slots)
    BY <1>3, SizeSlotType, FlattenType
  <2>2. last \in Seq(Slots)
    BY <2>1, CRLFType, ConcatProperties
  <2> QED BY <2>1, <2>2, ConcatProperties
<1>10. IsPrefix(FlattenSeq(cs) \o last, body) /\ IsPrefix(FlattenSeq(cs), body)
  <2> DEFINE f == FlattenSeq(cs)
             one == <<SizeSlot(0)>>
  <2>1. f \in Seq(Slots) /\ one \in Seq(Slots) /\ last = one \o CRLF
    BY <1>9, SizeSlotType
  <2>2. f \o last \in Seq(Slots) /\ body = ((f \o one) \o CRLF) \o CRLF
    BY <1>3, <1>9
  <2> HIDE DEF f, one, last, body
  <2>3. f \o (one \o CRLF) = (f \o one) \o CRLF
    <3>1. Associates(f, one, CRLF)
      BY <2>1, CRLFType, Associative
    <3> QED BY <3>1 DEF Associates
  <2>4. body = (f \o last) \o CRLF
    BY <2>1, <2>2, <2>3
  <2>5. IsPrefix(f \o last, body)
    BY <2>2, <2>4, CRLFType, PrefixOfConcat
  <2>6. IsPrefix(f, f \o last)
    BY <1>9, <2>1, PrefixOfConcat DEF last
  <2>7. IsPrefix(f, body)
    BY <1>3, <2>1, <2>2, <2>5, <2>6, PrefixTransitive DEF body
  <2> QED BY <2>5, <2>7 DEF f, body, last
<1>11. F(i) \o line \in Seq(Slots)
  BY <1>4, <1>8, ConcatProperties
<1>12. IsPrefix(F(i) \o line, body)
  <2>1. CASE i < Len(r.pieces)
    <3> DEFINE p == r.pieces[i + 1]
               tail == p \o CRLF
    <3>1. i + 1 \in 1..Len(r.pieces) /\ i \in 0..Len(cs) - 1 /\ i + 1 \in 0..Len(cs)
      BY <1>1, <1>3, <2>1
    <3>2. p \in Seq(Slots) /\ line = SizeLine(p) /\ cs[i + 1] = SizeLine(p) \o p \o CRLF
      BY <1>1, <1>2, <2>1, <3>1 DEF NextPiece, Chunks, SizeLine
    <3>3. F(i + 1) = F(i) \o cs[i + 1]
      BY <1>3, <3>1, FlattenUpto
    <3>4. F(i) \in Seq(Slots) /\ line \in Seq(Slots) /\ p \in Seq(Slots)
      BY <1>4, <1>8, <3>2
    <3> HIDE DEF F, line, p, body
    <3>5. F(i) \o (line \o p \o CRLF) = (F(i) \o line) \o (p \o CRLF)
      <4>1. line \o (p \o CRLF) = line \o p \o CRLF
        <5>1. Associates(line, p, CRLF)
          BY <3>4, CRLFType, Associative
        <5> QED BY <5>1 DEF Associates
      <4>2. tail \in Seq(Slots)
        BY <3>4, CRLFType, ConcatProperties
      <4> HIDE DEF tail
      <4>3. F(i) \o (line \o tail) = (F(i) \o line) \o tail
        <5>1. Associates(F(i), line, tail)
          BY <3>4, <4>2, Associative
        <5> QED BY <5>1 DEF Associates
      <4> QED BY <4>1, <4>3 DEF tail
    <3>6. IsPrefix(F(i) \o line, F(i + 1))
      <4>1. tail \in Seq(Slots)
        BY <3>4, CRLFType, ConcatProperties
      <4>2. F(i + 1) = (F(i) \o line) \o tail
        BY <3>2, <3>3, <3>5
      <4> QED BY <1>11, <4>1, <4>2, PrefixOfConcat
    <3>7. IsPrefix(F(i + 1), FlattenSeq(cs)) /\ F(i + 1) \in Seq(Slots)
      BY <1>3, <1>4, <3>1, FlattenPrefix DEF F
    <3>8. IsPrefix(F(i) \o line, FlattenSeq(cs))
      BY <1>9, <1>11, <3>6, <3>7, PrefixTransitive
    <3> QED BY <1>3, <1>9, <1>10, <1>11, <3>8, PrefixTransitive
  <2>2. CASE ~(i < Len(r.pieces))
    <3>1. i = Len(r.pieces)
      BY <1>1, <2>2
    <3>2. line = last
      <4>1. NextPiece(r, i) = <<>> /\ Len(<<>>) = 0
        BY <2>2 DEF NextPiece
      <4> QED BY <4>1 DEF SizeLine
    <3>3. F(i) = FlattenSeq(cs)
      BY <1>4, <3>1
    <3> QED BY <1>10, <3>2, <3>3
  <2> QED BY <2>1, <2>2
<1>13. ResponseWire(r) = HeadWire(r) \o body
  BY DEF ResponseWire
<1>14. IsPrefix(AfterChunks(r, i) \o line, ResponseWire(r))
  <2> DEFINE h == HeadWire(r)
             f == F(i)
  <2>1. h \in Seq(Slots) /\ f \in Seq(Slots) /\ line \in Seq(Slots) /\ f \o line \in Seq(Slots) /\ body \in Seq(Slots)
    BY <1>1, <1>3, <1>4, <1>8, <1>11
  <2>2. IsPrefix(f \o line, body)
    BY <1>12
  <2> HIDE DEF h, f, line, body
  <2>3. IsPrefix(h \o (f \o line), h \o body)
    BY <2>1, <2>2, PrefixConcat
  <2>4. h \o (f \o line) = (h \o f) \o line
    <3>1. Associates(h, f, line)
      BY <2>1, Associative
    <3> QED BY <3>1 DEF Associates
  <2> QED BY <1>5, <1>13, <2>3, <2>4 DEF h, f
<1> QED BY <1>6, <1>7, <1>8, <1>14

\* A chunked response up to the n-th slot of the i-th chunk, and its data so far.
LEMMA PiecePlace ==
  ASSUME NEW r \in Responses, r.chunked, NEW i \in 1..Len(r.pieces)
  PROVE  /\ r.pieces[i] \in Seq(Slots) /\ Len(r.pieces[i]) \in Nat
         /\ \A n \in 0..Len(r.pieces[i]) :
              InChunk(r, i, n) \in Seq(Slots) /\ IsPrefix(InChunk(r, i, n), ResponseWire(r))
         /\ InChunk(r, i, 0) = AfterChunks(r, i - 1) \o SizeLine(r.pieces[i])
         /\ \A m, n \in 0..Len(r.pieces[i]) :
              m <= n => InChunk(r, i, m) \o SubSeq(r.pieces[i], m + 1, n) = InChunk(r, i, n)
         /\ AfterChunks(r, i) = InChunk(r, i, Len(r.pieces[i])) \o CRLF
         /\ IsPrefix(AfterChunks(r, i), ResponseWire(r))
<1> DEFINE p == r.pieces[i]
           base == AfterChunks(r, i - 1)
           line == SizeLine(p)
           cs == Chunks(r.pieces)
           f == FlattenSeq(SubSeq(cs, 1, i - 1))
<1>1. /\ r.pieces \in Seq(Seq(Slots)) /\ Len(r.pieces) \in Nat /\ p \in Seq(Slots) /\ Len(p) \in Nat
      /\ HeadWire(r) \in Seq(Slots)
      /\ i - 1 \in 0..Len(r.pieces) /\ i \in 0..Len(r.pieces) /\ i - 1 < Len(r.pieces) /\ (i - 1) + 1 = i
  <2>1. /\ r.pieces \in Seq(Seq(Slots)) /\ Len(r.pieces) \in Nat /\ p \in Seq(Slots) /\ Len(p) \in Nat
        /\ HeadWire(r) \in Seq(Slots)
    BY ResponseType, ResponseWireType
  <2> QED BY <2>1
<1>2. NextPiece(r, i - 1) = p
  BY <1>1 DEF NextPiece
<1>3. base \in Seq(Slots) /\ line \in Seq(Slots)
  BY <1>1, <1>2, ChunkPlace
<1>4. AfterChunks(r, i) \in Seq(Slots)
      /\ IsPrefix(AfterChunks(r, i) \o SizeLine(NextPiece(r, i)), ResponseWire(r))
      /\ SizeLine(NextPiece(r, i)) \in Seq(Slots)
  BY <1>1, ChunkPlace
<1>5. ResponseWire(r) \in Seq(Slots)
  BY ResponseWireType
<1>6. IsPrefix(AfterChunks(r, i), ResponseWire(r))
  <2> DEFINE a == AfterChunks(r, i)
             t == SizeLine(NextPiece(r, i))
             u == ResponseWire(r)
  <2>1. a \in Seq(Slots) /\ t \in Seq(Slots) /\ u \in Seq(Slots) /\ IsPrefix(a \o t, u)
    BY <1>4, <1>5
  <2> HIDE DEF a, t, u
  <2>2. a \o t \in Seq(Slots) /\ IsPrefix(a, a \o t)
    BY <2>1, PrefixOfConcat, ConcatProperties
  <2>3. IsPrefix(a, u)
    BY <2>1, <2>2, PrefixTransitive
  <2> QED BY <2>3 DEF a, u
<1>7. /\ cs \in Seq(Seq(Slots)) /\ Len(cs) = Len(r.pieces) /\ cs[i] = line \o p \o CRLF
  <2>1. SizedPieces(r.pieces) /\ DOMAIN r.pieces = 1..Len(r.pieces)
    BY <1>1, ChunksAssumption DEF ChunksAssumption, SizedPieces
  <2>2. cs[i] = line \o p \o CRLF
    BY <2>1 DEF Chunks, SizeLine
  <2> QED BY <1>1, <2>1, <2>2, ChunksType
<1>8. f \in Seq(Slots) /\ FlattenSeq(SubSeq(cs, 1, i)) = f \o cs[i]
  <2>1. i - 1 \in 0..Len(cs) - 1 /\ i - 1 \in 0..Len(cs)
    BY <1>1, <1>7
  <2>2. f \in Seq(Slots)
    BY <1>7, <2>1, FlattenParts
  <2>3. FlattenSeq(SubSeq(cs, 1, (i - 1) + 1)) = f \o cs[(i - 1) + 1]
    BY <1>7, <2>1, FlattenUpto
  <2> QED BY <1>1, <2>2, <2>3
<1>9. base = HeadWire(r) \o f /\ AfterChunks(r, i) = HeadWire(r) \o (f \o (line \o p \o CRLF))
  BY <1>7, <1>8 DEF AfterChunks
<1>10. \A n : InChunk(r, i, n) = (base \o line) \o SubSeq(p, 1, n)
  BY DEF InChunk
<1>11. base \o line \in Seq(Slots) /\ SubSeq(p, 1, Len(p)) = p /\ SubSeq(p, 1, 0) = <<>>
  <2>1. base \o line \in Seq(Slots)
    BY <1>3, ConcatProperties
  <2>2. SubSeq(p, 1, Len(p)) = p /\ SubSeq(p, 1, 0) = <<>>
    BY <1>1
  <2> QED BY <2>1, <2>2
<1>12. AfterChunks(r, i) = ((base \o line) \o p) \o CRLF
  <2> DEFINE h == HeadWire(r)
  <2>1. h \in Seq(Slots) /\ f \in Seq(Slots) /\ line \in Seq(Slots) /\ p \in Seq(Slots)
    BY <1>1, <1>3, <1>8
  <2>2. base = h \o f /\ AfterChunks(r, i) = h \o (f \o (line \o p \o CRLF))
    BY <1>9
  <2> HIDE DEF h, f, line, p, base
  <2>3. h \o (f \o (line \o p \o CRLF)) = (((h \o f) \o line) \o p) \o CRLF
    <3> DEFINE hf == h \o f
               lp == line \o p
               t == lp \o CRLF
    <3>1. hf \in Seq(Slots) /\ lp \in Seq(Slots)
      BY <2>1, ConcatProperties
    <3>2. t \in Seq(Slots)
      BY <3>1, CRLFType, ConcatProperties
    <3> HIDE DEF t
    <3>3. h \o (f \o t) = hf \o t
      <4>1. Associates(h, f, t)
        BY <2>1, <3>2, Associative
      <4> QED BY <4>1 DEF Associates
    <3> HIDE DEF lp, hf
    <3>4. hf \o (lp \o CRLF) = (hf \o lp) \o CRLF
      <4>1. Associates(hf, lp, CRLF)
        BY <3>1, CRLFType, Associative
      <4> QED BY <4>1 DEF Associates
    <3>5. hf \o (line \o p) = (hf \o line) \o p
      <4>1. Associates(hf, line, p)
        BY <2>1, <3>1, Associative
      <4> QED BY <4>1 DEF Associates
    <3> QED BY <3>3, <3>4, <3>5 DEF hf, lp, t
  <2> QED BY <2>2, <2>3
<1>13. InChunk(r, i, Len(p)) = (base \o line) \o p /\ InChunk(r, i, 0) = base \o line
  <2> HIDE DEF base, line, p
  <2>1. (base \o line) \o <<>> = base \o line
    BY <1>11, ConcatEmptySeq
  <2> QED BY <1>10, <1>11, <2>1
<1>14. AfterChunks(r, i) = InChunk(r, i, Len(p)) \o CRLF
  BY <1>12, <1>13
<1>15. ASSUME NEW m \in 0..Len(p), NEW n \in 0..Len(p), m <= n
       PROVE  InChunk(r, i, m) \o SubSeq(p, m + 1, n) = InChunk(r, i, n)
  <2>1. ((base \o line) \o SubSeq(p, 1, m)) \o SubSeq(p, m + 1, n) = (base \o line) \o SubSeq(p, 1, n)
    <3>1. m \in Nat /\ n \in Nat /\ n <= Len(p)
      BY <1>1
    <3> QED BY <1>1, <1>11, <1>15, <3>1, PartsJoin, ZenonT(60)
  <2> QED BY <1>10, <2>1
<1>16. ASSUME NEW n \in 0..Len(p)
       PROVE  InChunk(r, i, n) \in Seq(Slots) /\ IsPrefix(InChunk(r, i, n), ResponseWire(r))
  <2> DEFINE x == InChunk(r, i, n)
             y == SubSeq(p, n + 1, Len(p))
             z == InChunk(r, i, Len(p))
  <2>1. SubSeq(p, 1, n) \in Seq(Slots) /\ y \in Seq(Slots)
    BY <1>1, SplitSeq
  <2>2. x \in Seq(Slots)
    <3> DEFINE b == base \o line
               s == SubSeq(p, 1, n)
    <3>1. b \in Seq(Slots) /\ s \in Seq(Slots) /\ x = b \o s
      BY <1>10, <1>11, <2>1
    <3> HIDE DEF b, s
    <3> QED BY <3>1, ConcatProperties
  <2>3. x \o y = z
    <3>1. Len(p) \in 0..Len(p) /\ n <= Len(p)
      BY <1>1
    <3> QED BY <1>15, <3>1
  <2> HIDE DEF x, y
  <2>4. z \in Seq(Slots) /\ IsPrefix(x, z)
    BY <2>1, <2>2, <2>3, PrefixOfConcat, ConcatProperties
  <2> HIDE DEF z
  <2>5. IsPrefix(z, AfterChunks(r, i))
    BY <1>14, <2>4, CRLFType, PrefixOfConcat DEF z
  <2>6. IsPrefix(z, ResponseWire(r))
    BY <1>4, <1>5, <1>6, <2>4, <2>5, PrefixTransitive
  <2>7. IsPrefix(x, ResponseWire(r))
    BY <1>5, <2>2, <2>4, <2>6, PrefixTransitive
  <2> QED BY <2>2, <2>7 DEF x
<1> QED BY <1>1, <1>6, <1>13, <1>14, <1>15, <1>16

\* The data of a response up to the i-th chunk, and up to the n-th slot of it.
LEMMA GotPlace ==
  ASSUME NEW r \in Responses
  PROVE  /\ Payload(r) \in Seq(Slots)
         /\ GotChunks(r, 0) = <<>> /\ GotChunks(r, Len(r.pieces)) = Payload(r)
         /\ \A i \in 0..Len(r.pieces) : GotChunks(r, i) \in Seq(Slots) /\ IsPrefix(GotChunks(r, i), Payload(r))
         /\ \A i \in 1..Len(r.pieces) : GotChunks(r, i) = GotChunks(r, i - 1) \o r.pieces[i]
         /\ \A i \in 1..Len(r.pieces) : \A n \in 0..Len(r.pieces[i]) :
              IsPrefix(GotChunks(r, i - 1) \o SubSeq(r.pieces[i], 1, n), Payload(r))
<1>1. /\ r.pieces \in Seq(Seq(Slots)) /\ Len(r.pieces) \in Nat
      /\ \A i \in 1..Len(r.pieces) : r.pieces[i] \in Seq(Slots) /\ Len(r.pieces[i]) \in Nat
  BY ResponseType
<1>2. Payload(r) \in Seq(Slots)
  BY <1>1, FlattenType DEF Payload
<1>3. GotChunks(r, 0) = <<>> /\ GotChunks(r, Len(r.pieces)) = Payload(r)
  BY <1>1, FlattenParts DEF GotChunks, Payload
<1>4. \A i \in 0..Len(r.pieces) : GotChunks(r, i) \in Seq(Slots) /\ IsPrefix(GotChunks(r, i), Payload(r))
  BY <1>1, FlattenParts, FlattenPrefix DEF GotChunks, Payload
<1>5. ASSUME NEW i \in 1..Len(r.pieces)
      PROVE  GotChunks(r, i) = GotChunks(r, i - 1) \o r.pieces[i]
  <2>1. i - 1 \in 0..Len(r.pieces) - 1 /\ (i - 1) + 1 = i
    BY <1>1
  <2>2. FlattenSeq(SubSeq(r.pieces, 1, (i - 1) + 1)) = FlattenSeq(SubSeq(r.pieces, 1, i - 1)) \o r.pieces[(i - 1) + 1]
    BY <1>1, <2>1, FlattenUpto
  <2> QED BY <2>1, <2>2 DEF GotChunks
<1>6. ASSUME NEW i \in 1..Len(r.pieces), NEW n \in 0..Len(r.pieces[i])
      PROVE  IsPrefix(GotChunks(r, i - 1) \o SubSeq(r.pieces[i], 1, n), Payload(r))
  <2> DEFINE p == r.pieces[i]
             g == GotChunks(r, i - 1)
             a == SubSeq(p, 1, n)
             b == SubSeq(p, n + 1, Len(p))
  <2>1. i - 1 \in 0..Len(r.pieces) /\ i \in 0..Len(r.pieces)
    BY <1>1
  <2>2. g \in Seq(Slots) /\ p \in Seq(Slots)
    BY <1>1, <1>4, <2>1
  <2>3. a \in Seq(Slots) /\ b \in Seq(Slots) /\ a \o b = p
    BY <2>2, SplitSeq
  <2> HIDE DEF a, b
  <2>4. IsPrefix(a, p)
    BY <2>3, PrefixOfConcat
  <2>5. GotChunks(r, i) \in Seq(Slots) /\ IsPrefix(GotChunks(r, i), Payload(r)) /\ GotChunks(r, i) = g \o p
    BY <1>4, <1>5, <2>1
  <2> HIDE DEF g, p
  <2>6. IsPrefix(g \o a, g \o p) /\ g \o a \in Seq(Slots)
    BY <2>2, <2>3, <2>4, PrefixConcat, ConcatProperties
  <2>7. IsPrefix(g \o a, Payload(r))
    BY <1>2, <2>5, <2>6, PrefixTransitive
  <2> QED BY <2>7 DEF g, a, p
<1> QED BY <1>2, <1>3, <1>4, <1>5, <1>6

-----------------------------------------------------------------------------
(* The body of the response, as the handlers read it.                      *)

\* What khc has received and not used, and what is still to be received.
Unread == sbuf \o (hbuf \o wire)

\* The body that ends with the connection: all that was read of it has been written.
PlainIn ==
  /\ state = "RESP_BODY_FRAGMENT" => Ahead(HeadWire(resp) \o got, hbuf \o wire)
  /\ state = "RESP_BODY_READ" => Ahead(HeadWire(resp) \o got, wire)
  /\ state = "RESP_BODY_CALLBACK" => Ahead(HeadWire(resp) \o got, sbuf \o wire)

\* The buffers go on after chunk i, of whose CRLF the LF may be left.
AtChunk(i) ==
  /\ got = GotChunks(resp, i)
  /\ \/ Ahead(AfterChunks(resp, i), Unread)
     \/ i >= 1 /\ Ahead(InChunk(resp, i, Len(resp.pieces[i])) \o <<"CR">>, Unread)

\* What is to come goes on inside chunk i, at the slot that chunkWritten says.
InPiece(i, rest) ==
  /\ chunkSize = Len(resp.pieces[i]) /\ chunkWritten < chunkSize
  /\ got = GotChunks(resp, i - 1) \o SubSeq(resp.pieces[i], 1, chunkWritten)
  /\ Ahead(InChunk(resp, i, chunkWritten), rest)

\* The buffers go on at the CRLF of chunk i.
AtPieceEnd(i) ==
  /\ got = GotChunks(resp, i)
  /\ Ahead(InChunk(resp, i, Len(resp.pieces[i])), Unread)

SizeStates == {"RESP_BODY_PARSE_CHUNK_SIZE", "READ_CHUNK_SIZE_FROM_HEADER_BUFF", "RESP_BODY_READ_CHUNK_SIZE"}

SizeIn ==
  /\ state \in SizeStates => \E i \in 0..Len(resp.pieces) : AtChunk(i)
  /\ state = "RESP_BODY_READ_CHUNK_SIZE" => hbuf = <<>>

PieceIn ==
  /\ state \in {"RESP_BODY_PARSE_CHUNK_BODY", "READ_CHUNK_BODY_FROM_HEADER_BUFF"} =>
       \E i \in 1..Len(resp.pieces) : InPiece(i, Unread)
  /\ state = "READ_CHUNK_BODY_FROM_HEADER_BUFF" => sbuf = <<>>
  /\ state = "RESP_BODY_READ_CHUNK_BODY" =>
       hbuf = <<>> /\ \E i \in 1..Len(resp.pieces) : InPiece(i, wire)

PieceEndIn == state = "RESP_BODY_SKIP_CHUNK_BODY_CRLF" => \E i \in 1..Len(resp.pieces) : AtPieceEnd(i)

\* All of a chunked body was written before the trailers are read, and so when a session ends well.
BodyDone ==
  /\ state = "RESP_BODY_SKIP_TRAILERS" => got = Payload(resp)
  /\ state \in {"CLOSE", "FINISHED"} /\ result = "OK" /\ resp.chunked => got = Payload(resp)

BodyInv == IsPrefix(got, Payload(resp)) /\ PlainIn /\ SizeIn /\ PieceIn /\ PieceEndIn /\ BodyDone

\* What a buffer holds of a text is used, and the rest of the text goes on in what is left.
LEMMA Used ==
  ASSUME NEW base \in Seq(Slots), NEW t \in Seq(Slots), NEW buf \in Seq(Slots), NEW more \in Seq(Slots),
         NEW u \in Seq(Slots),
         IsPrefix(base \o (buf \o more), u), IsPrefix(base \o t, u), Len(t) <= Len(buf)
  PROVE  /\ SubSeq(buf, 1, Len(t)) = t
         /\ SubSeq(buf, Len(t) + 1, Len(buf)) \in Seq(Slots)
         /\ IsPrefix((base \o t) \o (SubSeq(buf, Len(t) + 1, Len(buf)) \o more), u)
<1> DEFINE rest == buf \o more
<1>0. Len(t) \in 0..Len(buf)
  OBVIOUS
<1>1. /\ rest \in Seq(Slots) /\ Len(rest) = Len(buf) + Len(more)
      /\ \A i \in 1..Len(buf) : rest[i] = buf[i]
      /\ SubSeq(rest, Len(t) + 1, Len(rest)) = SubSeq(buf, Len(t) + 1, Len(buf)) \o more
  BY <1>0, BufferFirst, ZenonT(60)
<1>2. Len(t) <= Len(rest)
  BY <1>1
<1>3. IsPrefix(base \o rest, u)
  OBVIOUS
<1> HIDE DEF rest
<1>4. /\ SubSeq(rest, 1, Len(t)) = t
      /\ IsPrefix((base \o t) \o SubSeq(rest, Len(t) + 1, Len(rest)), u)
  <2>1. rest \in Seq(Slots)
    BY <1>1
  <2>2. SubSeq(rest, 1, Len(t)) = t
    BY <1>2, <1>3, <2>1, Advance
  <2>3. IsPrefix((base \o t) \o SubSeq(rest, Len(t) + 1, Len(rest)), u)
    BY <1>2, <1>3, <2>1, Advance
  <2> QED BY <2>2, <2>3
<1>5. SubSeq(buf, 1, Len(t)) = t
  <2> DEFINE a == SubSeq(buf, 1, Len(t))
             b == SubSeq(rest, 1, Len(t))
  <2>1. a \in Seq(Slots) /\ Len(a) = Len(t) /\ \A i \in 1..Len(t) : a[i] = buf[i]
    BY <1>0
  <2>2. \A i \in 1..Len(t) : b[i] = rest[i]
    BY <1>1, <1>2
  <2>3. b = t
    BY <1>4
  <2> HIDE DEF a, b
  <2>4. \A i \in 1..Len(t) : a[i] = t[i]
    BY <1>0, <1>1, <2>1, <2>2, <2>3
  <2>5. a = t
    BY <2>1, <2>4, SeqEqual
  <2> QED BY <2>5 DEF a
<1>6. SubSeq(buf, Len(t) + 1, Len(buf)) \in Seq(Slots)
  BY <1>0, SplitSeq
<1> QED BY <1>1, <1>4, <1>5, <1>6

\* The size line of the next chunk, found in a buffer.
LEMMA SizeLineRead ==
  ASSUME NEW r \in Responses, r.chunked, SizesReadable, NEW i \in 0..Len(r.pieces),
         NEW buf \in Seq(Slots), NEW more \in Seq(Slots), HasCRLF(buf),
         IsPrefix(AfterChunks(r, i) \o (buf \o more), ResponseWire(r))
  PROVE  /\ 1 \in 1..Len(buf) /\ buf[1] = SizeSlot(Len(NextPiece(r, i)))
         /\ AfterLine(buf) \in Seq(Slots)
         /\ IsPrefix((AfterChunks(r, i) \o SizeLine(NextPiece(r, i))) \o (AfterLine(buf) \o more), ResponseWire(r))
<1> DEFINE base == AfterChunks(r, i)
           k == Len(NextPiece(r, i))
           line == <<SizeSlot(k)>>
           u == ResponseWire(r)
<1>1. base \in Seq(Slots) /\ k \in Sizes /\ u \in Seq(Slots)
      /\ IsPrefix(base \o SizeLine(NextPiece(r, i)), u)
  BY ChunkPlace, ResponseWireType
<1>2. line \in Seq(Slots) /\ Len(line) = 1 /\ line[1] = SizeSlot(k) /\ Unbroken(line)
  <2>1. line \in Seq(Slots)
    BY <1>1, SizeSlotType
  <2>2. SizeSlot(k) # "CR" /\ SizeSlot(k) # "LF"
    BY <1>1 DEF SizesReadable
  <2> QED BY <2>1, <2>2 DEF Unbroken
<1>3. SizeLine(NextPiece(r, i)) = line \o CRLF
  BY DEF SizeLine
<1>4. IsPrefix(base \o (line \o CRLF), u) /\ IsPrefix(base \o (buf \o more), u)
  BY <1>1, <1>3
<1> HIDE DEF base, line, u
<1>5. /\ HasCRLF(buf) <=> Len(line) + 2 <= Len(buf)
      /\ AfterLine(buf) \in Seq(Slots)
      /\ IsPrefix((base \o (line \o CRLF)) \o (AfterLine(buf) \o more), u)
      /\ \A j \in 1..Len(buf) : j <= Len(line) => buf[j] = line[j]
  <2>1. base \in Seq(Slots) /\ line \in Seq(Slots) /\ Unbroken(line) /\ u \in Seq(Slots)
    BY <1>1, <1>2
  <2>2. HasCRLF(buf) <=> Len(line) + 2 <= Len(buf)
    BY <1>4, <2>1, LineRead
  <2>3. AfterLine(buf) \in Seq(Slots)
    BY <1>4, <2>1, LineRead
  <2>4. IsPrefix((base \o (line \o CRLF)) \o (AfterLine(buf) \o more), u)
    BY <1>4, <2>1, LineRead
  <2>5. \A j \in 1..Len(buf) : j <= Len(line) => buf[j] = line[j]
    BY <1>4, <2>1, LineRead
  <2> QED BY <2>2, <2>3, <2>4, <2>5
<1>6. 1 \in 1..Len(buf) /\ buf[1] = line[1]
  BY <1>2, <1>5
<1> QED BY <1>2, <1>3, <1>5, <1>6 DEF base, u

\* strtol finds the size in the first slot that is not white space.
LEMMA SizeParsed ==
  ASSUME SizesReadable, sbuf \in Seq(Slots), NEW k \in Sizes, NEW n \in 1..Len(sbuf),
         sbuf[n] = SizeSlot(k), \A i \in 1..n - 1 : sbuf[i] \in {"CR", "LF"},
         NEW size \in ParsedSizes
  PROVE  size = k
<1>1. SizesOf(sbuf[n]) = {k}
  BY DEF SizesReadable, SizesOf
<1>2. sbuf[n] \notin {"CR", "LF"} /\ n \in DOMAIN sbuf
  BY DEF SizesReadable
<1>3. size \in SizesOf(sbuf[n])
  BY <1>2 DEF ParsedSizes, LeadingBlanks
<1> QED BY <1>1, <1>3

\* A CRLF may lack its LF.
LEMMA HalfBreak ==
  ASSUME NEW base \in Seq(Slots)
  PROVE  /\ <<"CR">> \in Seq(Slots) /\ <<"LF">> \in Seq(Slots) /\ base \o <<"CR">> \in Seq(Slots)
         /\ base \o CRLF = (base \o <<"CR">>) \o <<"LF">>
         /\ IsPrefix(base \o <<"CR">>, base \o CRLF)
<1> DEFINE cr == <<"CR">>
           lf == <<"LF">>
<1>1. cr \in Seq(Slots) /\ lf \in Seq(Slots) /\ CRLF = cr \o lf
  BY SlotsAssumption DEF SlotsAssumption, CRLF
<1> HIDE DEF cr, lf
<1>2. base \o cr \in Seq(Slots)
  BY <1>1, ConcatProperties
<1>3. base \o (cr \o lf) = (base \o cr) \o lf
  <2>1. Associates(base, cr, lf)
    BY <1>1, Associative
  <2> QED BY <2>1 DEF Associates
<1>4. IsPrefix(base \o cr, (base \o cr) \o lf)
  BY <1>1, <1>2, PrefixOfConcat
<1> QED BY <1>1, <1>2, <1>3, <1>4 DEF cr, lf

-----------------------------------------------------------------------------
(* What the steps leave of it.                                             *)

\* Before the body and after it.
LEMMA BodyElsewhere ==
  ASSUME IsPrefix(got', Payload(resp')), state' \notin BodyStates,
         state' \in {"CLOSE", "FINISHED"} /\ result' = "OK" /\ resp'.chunked => got' = Payload(resp')
  PROVE  BodyInv'
BY DEF BodyInv, PlainIn, SizeIn, PieceIn, PieceEndIn, BodyDone, BodyStates, PlainStates, ChunkedStates,
  SizeStates, Payload

\* A session that fails.
LEMMA BodyFails ==
  ASSUME BodyInv, UNCHANGED <<resp, got>>, state' \in {"CLOSE", "FINISHED"}, result' # "OK"
  PROVE  BodyInv'
<1>1. IsPrefix(got', Payload(resp'))
  BY DEF BodyInv
<1>2. state' \notin BodyStates
  BY DEF BodyStates, PlainStates, ChunkedStates
<1> QED BY <1>1, <1>2, BodyElsewhere

\* A call that is to be repeated.
LEMMA BodyKept ==
  ASSUME BodyInv, UNCHANGED <<resp, state, result, got, hbuf, sbuf, wire, chunkSize, chunkWritten>>
  PROVE  BodyInv'
<1> USE DEF Ahead, HeadWire, AfterChunks, InChunk, GotChunks, Chunks, SizeLine, Unread
<1>1. IsPrefix(got', Payload(resp')) /\ BodyDone'
  BY DEF BodyInv, BodyDone, Payload
<1>2. PlainIn'
  BY DEF BodyInv, PlainIn
<1>3. SizeIn'
  <2>1. \A i : AtChunk(i)' <=> AtChunk(i)
    BY DEF AtChunk
  <2> QED BY <2>1 DEF BodyInv, SizeIn
<1>4. PieceIn'
  <2>1. \A i : InPiece(i, Unread)' <=> InPiece(i, Unread)
    BY DEF InPiece
  <2>2. \A i : InPiece(i, wire)' <=> InPiece(i, wire)
    BY DEF InPiece
  <2> QED BY <2>1, <2>2 DEF BodyInv, PieceIn
<1>5. PieceEndIn'
  <2>1. \A i : AtPieceEnd(i)' <=> AtPieceEnd(i)
    BY DEF AtPieceEnd
  <2> QED BY <2>1 DEF BodyInv, PieceEndIn
<1> QED BY <1>1, <1>2, <1>3, <1>4, <1>5, Zenon DEF BodyInv

\* Where the line with the size of a chunk is looked for.
LEMMA SizeNext ==
  ASSUME IsPrefix(got', Payload(resp')), state' \in SizeStates,
         \E i \in 0..Len(resp'.pieces) : AtChunk(i)',
         state' = "RESP_BODY_READ_CHUNK_SIZE" => hbuf' = <<>>
  PROVE  BodyInv'
<1>1. SizeIn'
  BY DEF SizeIn, SizeStates
<1>2. PlainIn' /\ PieceIn' /\ PieceEndIn' /\ BodyDone'
  BY DEF PlainIn, PieceIn, PieceEndIn, BodyDone, SizeStates
<1> QED BY <1>1, <1>2, Zenon DEF BodyInv

\* Inside a chunk, with part of it in the buffers.
LEMMA PieceNext ==
  ASSUME IsPrefix(got', Payload(resp')),
         state' \in {"RESP_BODY_PARSE_CHUNK_BODY", "READ_CHUNK_BODY_FROM_HEADER_BUFF"},
         \E i \in 1..Len(resp'.pieces) : InPiece(i, Unread)',
         state' = "READ_CHUNK_BODY_FROM_HEADER_BUFF" => sbuf' = <<>>
  PROVE  BodyInv'
<1>1. PieceIn'
  BY DEF PieceIn
<1>2. PlainIn' /\ SizeIn' /\ PieceEndIn' /\ BodyDone'
  BY DEF PlainIn, SizeIn, PieceEndIn, BodyDone, SizeStates
<1> QED BY <1>1, <1>2, Zenon DEF BodyInv

\* Inside a chunk, with the rest of it still to be received.
LEMMA PieceReadNext ==
  ASSUME IsPrefix(got', Payload(resp')), state' = "RESP_BODY_READ_CHUNK_BODY", hbuf' = <<>>,
         \E i \in 1..Len(resp'.pieces) : InPiece(i, wire)'
  PROVE  BodyInv'
<1>1. PieceIn'
  BY DEF PieceIn
<1>2. PlainIn' /\ SizeIn' /\ PieceEndIn' /\ BodyDone'
  BY DEF PlainIn, SizeIn, PieceEndIn, BodyDone, SizeStates
<1> QED BY <1>1, <1>2, Zenon DEF BodyInv

\* After the data of a chunk.
LEMMA PieceEndNext ==
  ASSUME IsPrefix(got', Payload(resp')), state' = "RESP_BODY_SKIP_CHUNK_BODY_CRLF",
         \E i \in 1..Len(resp'.pieces) : AtPieceEnd(i)'
  PROVE  BodyInv'
<1>1. PieceEndIn'
  BY DEF PieceEndIn
<1>2. PlainIn' /\ SizeIn' /\ PieceIn' /\ BodyDone'
  BY DEF PlainIn, SizeIn, PieceIn, BodyDone, SizeStates
<1> QED BY <1>1, <1>2, Zenon DEF BodyInv

\* After the last chunk.
LEMMA TrailersNext ==
  ASSUME IsPrefix(got', Payload(resp')), state' = "RESP_BODY_SKIP_TRAILERS", got' = Payload(resp')
  PROVE  BodyInv'
<1>1. BodyDone'
  BY DEF BodyDone, Payload
<1>2. PlainIn' /\ SizeIn' /\ PieceIn' /\ PieceEndIn'
  BY DEF PlainIn, SizeIn, PieceIn, PieceEndIn, SizeStates
<1> QED BY <1>1, <1>2, Zenon DEF BodyInv, Payload

\* In a body that ends with the connection.
LEMMA PlainNext ==
  ASSUME IsPrefix(got', Payload(resp')), state' \in PlainStates, PlainIn'
  PROVE  BodyInv'
<1>1. SizeIn' /\ PieceIn' /\ PieceEndIn' /\ BodyDone'
  BY DEF SizeIn, PieceIn, PieceEndIn, BodyDone, SizeStates, PlainStates
<1> QED BY <1>1, Zenon DEF BodyInv

\* The places stay the same when what is to come stays the same.
LEMMA AtChunkKept ==
  ASSUME NEW i, AtChunk(i), UNCHANGED <<resp, got>>, Unread' = Unread
  PROVE  AtChunk(i)'
BY DEF AtChunk, Ahead, HeadWire, AfterChunks, InChunk, GotChunks, Chunks, SizeLine

\* The same inside a chunk.
LEMMA InPieceKept ==
  ASSUME NEW i, NEW rest, InPiece(i, rest), UNCHANGED <<resp, got, chunkSize, chunkWritten>>, Unread' = rest
  PROVE  InPiece(i, Unread)'
BY DEF InPiece, Ahead, HeadWire, AfterChunks, InChunk, GotChunks, Chunks, SizeLine

\* Filling the stream buffer from the header buffer leaves what is to come as it is.
LEMMA MovedUnread ==
  ASSUME TypeOK, NEW n \in 0..Len(hbuf), sbuf' = sbuf \o SubSeq(hbuf, 1, n),
         hbuf' = SubSeq(hbuf, n + 1, Len(hbuf)), wire' = wire
  PROVE  Unread' = Unread
<1>1. sbuf \in Seq(Slots) /\ hbuf \in Seq(Slots) /\ wire \in Seq(Slots)
  BY DEF TypeOK
<1>2. SameText(sbuf, hbuf, wire, SubSeq(hbuf, 1, n), SubSeq(hbuf, n + 1, Len(hbuf)))
  BY <1>1, TextMoves
<1> QED BY <1>2 DEF SameText, Unread

\* What is read into the stream buffer when the header buffer is used up.
LEMMA ReceivedUnread ==
  ASSUME TypeOK, hbuf' = <<>>, NEW n \in Nat, NEW data \in Received(n), Consume(data),
         NEW kept \in Seq(Slots), sbuf' = kept \o data
  PROVE  Unread' = kept \o wire
<1>1. wire \in Seq(Slots)
  BY DEF TypeOK
<1>2. wire' \in Seq(Slots) /\ (kept \o data) \o wire' = kept \o wire
  BY <1>1, ReceivedRest
<1>3. Unread' = (kept \o data) \o (<<>> \o wire')
  BY DEF Unread
<1>4. <<>> \o wire' = wire'
  <2> DEFINE w == wire'
  <2>1. w \in Seq(Slots)
    BY <1>2
  <2> HIDE DEF w
  <2>2. <<>> \o w = w
    BY <2>1, ConcatEmptySeq
  <2> QED BY <2>2 DEF w
<1> QED BY <1>2, <1>3, <1>4

-----------------------------------------------------------------------------
(* A body that ends with the connection.                                   *)

\* Slots that follow others of the body.
Moved(base, g, x, w) == (base \o g) \o (x \o w) = (base \o (g \o x)) \o w
LEMMA PlainMoves ==
  ASSUME NEW base \in Seq(Slots), NEW g \in Seq(Slots), NEW x \in Seq(Slots), NEW w \in Seq(Slots)
  PROVE  g \o x \in Seq(Slots) /\ Moved(base, g, x, w)
<1> DEFINE bg == base \o g
<1>1. bg \in Seq(Slots) /\ g \o x \in Seq(Slots)
  BY ConcatProperties
<1>2. base \o (g \o x) = bg \o x
  <2>1. Associates(base, g, x)
    BY Associative
  <2> QED BY <2>1 DEF Associates
<1> HIDE DEF bg
<1>3. bg \o (x \o w) = (bg \o x) \o w
  <2>1. Associates(bg, x, w)
    BY <1>1, Associative
  <2> QED BY <2>1 DEF Associates
<1> QED BY <1>1, <1>2, <1>3 DEF bg, Moved

\* What comes after the head is the body.
LEMMA PlainPrefix ==
  ASSUME NEW r \in Responses, ~r.chunked, NEW g \in Seq(Slots), NEW w \in Seq(Slots),
         IsPrefix((HeadWire(r) \o g) \o w, ResponseWire(r))
  PROVE  IsPrefix(g, Payload(r))
<1> DEFINE h == HeadWire(r)
           p == Payload(r)
<1>1. h \in Seq(Slots) /\ p \in Seq(Slots) /\ ResponseWire(r) = h \o p
  BY ResponseWireType, GotPlace DEF ResponseWire
<1>2. IsPrefix((h \o g) \o w, h \o p)
  BY <1>1
<1> HIDE DEF h, p
<1>3. h \o g \in Seq(Slots) /\ h \o p \in Seq(Slots)
  BY <1>1, ConcatProperties
<1> DEFINE hg == h \o g
           hp == h \o p
<1>4. hg \in Seq(Slots) /\ hp \in Seq(Slots) /\ IsPrefix(hg \o w, hp)
  BY <1>2, <1>3
<1> HIDE DEF hg, hp
<1>5. hg \o w \in Seq(Slots) /\ IsPrefix(hg, hg \o w)
  BY <1>4, PrefixOfConcat, ConcatProperties
<1>6. IsPrefix(hg, hp)
  BY <1>4, <1>5, PrefixTransitive
<1>7. IsPrefix(g, p)
  BY <1>1, <1>6, PrefixCancel DEF hg, hp
<1> QED BY <1>7 DEF p

\* cb_write has the next slots of the body, or refuses them.
LEMMA PlainWrites ==
  ASSUME TypeOK, ~resp.chunked, BodyInv, NEW data \in Seq(Slots),
         Ahead(HeadWire(resp) \o got, data \o wire), WriteBody(data, AfterBody), UNCHANGED <<resp, wire>>
  PROVE  BodyInv'
<1>1. resp \in Responses /\ got \in Seq(Slots) /\ wire \in Seq(Slots)
  BY DEF TypeOK
<1>2. CASE Abort("WRITE_CALLBACK") /\ got' = got
  BY <1>2, BodyFails DEF Abort
<1>3. CASE got' = got \o data /\ Goto(AfterBody)
  <2> DEFINE g == got \o data
             h == HeadWire(resp)
  <2>0. h \in Seq(Slots)
    BY <1>1, ResponseWireType
  <2>1. g \in Seq(Slots) /\ (h \o got) \o (data \o wire) = (h \o g) \o wire
    <3>1. data \in Seq(Slots) /\ Moved(h, got, data, wire) /\ got \o data \in Seq(Slots)
      <4> HIDE DEF h
      <4> QED BY <1>1, <2>0, PlainMoves
    <3> QED BY <3>1 DEF Moved
  <2>2. IsPrefix((h \o g) \o wire, ResponseWire(resp))
    BY <2>1 DEF Ahead
  <2> HIDE DEF g
  <2>3. IsPrefix(g, Payload(resp))
    BY <1>1, <2>1, <2>2, PlainPrefix
  <2>4. got' = g /\ state' \in {"CLOSE", "RESP_BODY_READ"}
    BY <1>3 DEF Goto, AfterBody, g
  <2>5. IsPrefix(got', Payload(resp'))
    BY <2>3, <2>4
  <2>6. CASE state' = "CLOSE"
    BY <2>5, <2>6, BodyElsewhere DEF BodyStates, PlainStates, ChunkedStates
  <2>7. CASE state' = "RESP_BODY_READ"
    <3>1. PlainIn'
      BY <2>2, <2>4, <2>7 DEF PlainIn, Ahead, HeadWire
    <3> QED BY <2>5, <2>7, <3>1, PlainNext DEF PlainStates
  <2> QED BY <2>4, <2>6, <2>7
<1> QED BY <1>2, <1>3 DEF WriteBody

\* What was read ahead of the head, and what the stream buffer has.
LEMMA PlainWrittenBody ==
  ASSUME TypeOK, HeadInv, BodyInv, RespBodyFragment \/ RespBodyCallback
  PROVE  BodyInv'
<1>1. state \in PlainStates /\ UNCHANGED <<resp, wire>> /\ hbuf \in Seq(Slots) /\ sbuf \in Seq(Slots)
  BY DEF TypeOK, RespBodyFragment, RespBodyCallback, PlainStates, RespUnchanged, ownVars
<1>2. ~resp.chunked
  BY <1>1 DEF HeadInv, PastHead
<1>3. CASE RespBodyFragment
  <2>1. Ahead(HeadWire(resp) \o got, hbuf \o wire) /\ WriteBody(hbuf, AfterBody)
    BY <1>3 DEF RespBodyFragment, BodyInv, PlainIn
  <2> QED BY <1>1, <1>2, <2>1, PlainWrites
<1>4. CASE RespBodyCallback
  <2>1. Ahead(HeadWire(resp) \o got, sbuf \o wire) /\ WriteBody(sbuf, AfterBody)
    BY <1>4 DEF RespBodyCallback, BodyInv, PlainIn
  <2> QED BY <1>1, <1>2, <2>1, PlainWrites
<1> QED BY <1>3, <1>4

\* More of the body is read.
LEMMA PlainReadBody ==
  ASSUME TypeOK, HeadInv, BodyInv, RespBodyRead
  PROVE  BodyInv'
<1> USE DEF RespUnchanged, ownVars
<1>1. /\ state = "RESP_BODY_READ" /\ ~resp.chunked /\ Ahead(HeadWire(resp) \o got, wire)
      /\ IsPrefix(got, Payload(resp))
  BY DEF RespBodyRead, HeadInv, PastHead, PlainStates, BodyInv, PlainIn
<1>2. CASE Again
  BY <1>2, BodyKept DEF Again, vars, respVars, parseVars
<1>3. CASE RecvFails /\ RespUnchanged
  <2>1. UNCHANGED <<resp, got>> /\ state' = "CLOSE" /\ result' = "SOCK_RECV"
    BY <1>3 DEF RecvFails, respVars, parseVars, Abort
  <2> QED BY <2>1, BodyFails
<1>4. ASSUME NEW data \in Received(StreamBuffSize), Consume(data), sbuf' = data,
             Goto(IF data = <<>> THEN "CLOSE" ELSE "RESP_BODY_CALLBACK"), UNCHANGED <<resp, got>>
      PROVE  BodyInv'
  <2>0. StreamBuffSize \in Nat /\ wire \in Seq(Slots)
    BY StreamBuffSizeAssumption DEF StreamBuffSizeAssumption, TypeOK
  <2>1. data \o wire' = wire
    BY <1>4, <2>0, EmptySeq, ReceivedRest
  <2>2. IsPrefix(got', Payload(resp'))
    BY <1>1, <1>4
  <2>3. CASE data = <<>>
    <3>1. state' = "CLOSE"
      BY <1>4, <2>3 DEF Goto
    <3> QED BY <1>1, <1>4, <2>2, <3>1, BodyElsewhere DEF BodyStates, PlainStates, ChunkedStates
  <2>4. CASE data # <<>>
    <3>1. state' = "RESP_BODY_CALLBACK"
      BY <1>4, <2>4 DEF Goto
    <3>2. sbuf' \o wire' = wire
      BY <1>4, <2>1
    <3>3. PlainIn'
      BY <1>1, <1>4, <3>1, <3>2 DEF PlainIn, Ahead, HeadWire
    <3> QED BY <2>2, <3>1, <3>3, PlainNext DEF PlainStates
  <2> QED BY <2>3, <2>4
<1> QED BY <1>2, <1>3, <1>4 DEF RespBodyRead

-----------------------------------------------------------------------------
(* A chunked body.                                                         *)

\* The rest of the header buffer goes into the stream buffer.
LEMMA MoveBody ==
  ASSUME TypeOK, NoOverflow, BodyInv, ReadChunkSizeFromHeaderBuff \/ ReadChunkBodyFromHeaderBuff
  PROVE  BodyInv'
<1> DEFINE n == IF StreamRoom > Len(hbuf) THEN Len(hbuf) ELSE StreamRoom
<1>1. UNCHANGED <<resp, got, chunkSize, chunkWritten, wire>>
  BY DEF ReadChunkSizeFromHeaderBuff, ReadChunkBodyFromHeaderBuff, MoveHeaderToStream, RespUnchanged, ownVars, parseVars
<1>2. IsPrefix(got', Payload(resp'))
  BY <1>1 DEF BodyInv
<1>3. CASE Abort("TOO_LARGE_DATA")
  <2>1. state' = "CLOSE" /\ result' = "TOO_LARGE_DATA"
    BY <1>3 DEF Abort
  <2> QED BY <1>1, <2>1, BodyFails
<1>4. ASSUME StreamRoom # 0, sbuf' = sbuf \o SubSeq(hbuf, 1, n), hbuf' = SubSeq(hbuf, n + 1, Len(hbuf))
      PROVE  Unread' = Unread
  <2>1. n \in 0..Len(hbuf)
    BY StreamBuffSizeAssumption DEF StreamBuffSizeAssumption, StreamRoom, TypeOK, NoOverflow
  <2> QED BY <1>1, <1>4, <2>1, MovedUnread
<1>5. CASE ReadChunkSizeFromHeaderBuff /\ ~Abort("TOO_LARGE_DATA")
  <2>1. /\ StreamRoom # 0 /\ sbuf' = sbuf \o SubSeq(hbuf, 1, n) /\ hbuf' = SubSeq(hbuf, n + 1, Len(hbuf))
        /\ state' = "RESP_BODY_PARSE_CHUNK_SIZE" /\ state = "READ_CHUNK_SIZE_FROM_HEADER_BUFF"
    BY <1>5 DEF ReadChunkSizeFromHeaderBuff, MoveHeaderToStream, Goto
  <2>2. PICK i \in 0..Len(resp.pieces) : AtChunk(i)
    BY <2>1 DEF BodyInv, SizeIn, SizeStates
  <2>3. Unread' = Unread
    BY <1>4, <2>1
  <2>4. AtChunk(i)'
    BY <1>1, <2>2, <2>3, AtChunkKept
  <2>5. \E k \in 0..Len(resp'.pieces) : AtChunk(k)'
    BY <1>1, <2>4
  <2> QED BY <1>2, <2>1, <2>5, SizeNext DEF SizeStates
<1>6. CASE ReadChunkBodyFromHeaderBuff /\ ~Abort("TOO_LARGE_DATA")
  <2>1. /\ StreamRoom # 0 /\ sbuf' = sbuf \o SubSeq(hbuf, 1, n) /\ hbuf' = SubSeq(hbuf, n + 1, Len(hbuf))
        /\ state' = "RESP_BODY_PARSE_CHUNK_BODY" /\ state = "READ_CHUNK_BODY_FROM_HEADER_BUFF"
    BY <1>6 DEF ReadChunkBodyFromHeaderBuff, MoveHeaderToStream, Goto
  <2>2. PICK i \in 1..Len(resp.pieces) : InPiece(i, Unread)
    BY <2>1 DEF BodyInv, PieceIn
  <2>3. Unread' = Unread
    BY <1>4, <2>1
  <2>4. InPiece(i, Unread)'
    BY <1>1, <2>2, <2>3, InPieceKept
  <2>5. \E k \in 1..Len(resp'.pieces) : InPiece(k, Unread)'
    BY <1>1, <2>4
  <2> QED BY <1>2, <2>1, <2>5, PieceNext
<1> QED BY <1>3, <1>5, <1>6

\* More of a chunk, or of its size line, is read; the header buffer is empty.
LEMMA ReadChunkBody ==
  ASSUME TypeOK, NoOverflow, BodyInv, RespBodyReadChunkSize \/ RespBodyReadChunkBody
  PROVE  BodyInv'
<1> USE DEF RespUnchanged, ownVars
<1>1. CASE Again
  BY <1>1, BodyKept DEF Again, vars, respVars, parseVars
<1>2. CASE RecvFails /\ RespUnchanged
  <2>1. UNCHANGED <<resp, got>> /\ state' = "CLOSE" /\ result' = "SOCK_RECV"
    BY <1>2 DEF RecvFails, respVars, parseVars, Abort
  <2> QED BY <2>1, BodyFails
<1>3. CASE Abort("TOO_LARGE_DATA") /\ UNCHANGED respVars /\ RespUnchanged
  <2>1. UNCHANGED <<resp, got>> /\ state' = "CLOSE" /\ result' = "TOO_LARGE_DATA"
    BY <1>3 DEF respVars, parseVars, Abort
  <2> QED BY <2>1, BodyFails
<1>4. ASSUME NEW kept \in Seq(Slots), NEW room \in Nat, NEW next, NEW data \in Received(room), Consume(data),
             IF data = <<>> THEN Abort("FAIL") ELSE Goto(next),
             sbuf' = IF data = <<>> THEN sbuf ELSE kept \o data,
             UNCHANGED <<resp, hbuf, got, chunkSize, chunkWritten>>, hbuf = <<>>
      PROVE  \/ BodyInv'
             \/ state' = next /\ Unread' = kept \o wire
  <2>1. CASE data = <<>>
    <3>1. state' = "CLOSE" /\ result' = "FAIL"
      BY <1>4, <2>1 DEF Abort
    <3> QED BY <1>4, <3>1, BodyFails
  <2>2. CASE data # <<>>
    BY <1>4, <2>2, ReceivedUnread DEF Goto
  <2> QED BY <2>1, <2>2
<1>5. CASE RespBodyReadChunkSize
  <2>1. hbuf = <<>> /\ IsPrefix(got, Payload(resp))
    BY <1>5 DEF RespBodyReadChunkSize, BodyInv, SizeIn
  <2>2. PICK i \in 0..Len(resp.pieces) : AtChunk(i)
    BY <1>5 DEF RespBodyReadChunkSize, BodyInv, SizeIn, SizeStates
  <2>3. ASSUME NEW data \in Received(StreamRoom), Consume(data),
               IF data = <<>> THEN Abort("FAIL") ELSE Goto("RESP_BODY_PARSE_CHUNK_SIZE"),
               sbuf' = IF data = <<>> THEN sbuf ELSE sbuf \o data,
               UNCHANGED <<resp, hbuf, got, chunkSize, chunkWritten>>
        PROVE  BodyInv'
    <3>0. StreamRoom \in Nat /\ sbuf \in Seq(Slots) /\ wire \in Seq(Slots)
      BY StreamBuffSizeAssumption DEF StreamBuffSizeAssumption, StreamRoom, TypeOK, NoOverflow
    <3>1. \/ BodyInv'
          \/ state' = "RESP_BODY_PARSE_CHUNK_SIZE" /\ Unread' = sbuf \o wire
      BY <1>4, <2>1, <2>3, <3>0
    <3>2. CASE state' = "RESP_BODY_PARSE_CHUNK_SIZE" /\ Unread' = sbuf \o wire
      <4>1. Unread = sbuf \o wire
        BY <2>1, <3>0, ConcatEmptySeq DEF Unread
      <4>2. AtChunk(i)'
        BY <2>2, <2>3, <3>2, <4>1, AtChunkKept
      <4>3. \E k \in 0..Len(resp'.pieces) : AtChunk(k)'
        BY <2>3, <4>2
      <4> QED BY <2>1, <2>3, <3>2, <4>3, SizeNext DEF SizeStates
    <3> QED BY <3>1, <3>2
  <2> QED BY <1>1, <1>2, <1>3, <1>5, <2>3 DEF RespBodyReadChunkSize, ReadChunk
<1>6. CASE RespBodyReadChunkBody
  <2>1. hbuf = <<>> /\ IsPrefix(got, Payload(resp))
    BY <1>6 DEF RespBodyReadChunkBody, BodyInv, PieceIn
  <2>2. PICK i \in 1..Len(resp.pieces) : InPiece(i, wire)
    BY <1>6 DEF RespBodyReadChunkBody, BodyInv, PieceIn
  <2>3. ASSUME NEW data \in Received(StreamBuffSize), Consume(data),
               IF data = <<>> THEN Abort("FAIL") ELSE Goto("RESP_BODY_PARSE_CHUNK_BODY"),
               sbuf' = IF data = <<>> THEN sbuf ELSE <<>> \o data,
               UNCHANGED <<resp, hbuf, got, chunkSize, chunkWritten>>
        PROVE  BodyInv'
    <3>0. StreamBuffSize \in Nat /\ <<>> \in Seq(Slots) /\ wire \in Seq(Slots)
      BY EmptySeq, StreamBuffSizeAssumption DEF StreamBuffSizeAssumption, TypeOK
    <3>1. \/ BodyInv'
          \/ state' = "RESP_BODY_PARSE_CHUNK_BODY" /\ Unread' = <<>> \o wire
      BY <1>4, <2>1, <2>3, <3>0
    <3>2. CASE state' = "RESP_BODY_PARSE_CHUNK_BODY" /\ Unread' = <<>> \o wire
      <4>1. <<>> \o wire = wire
        BY <3>0, ConcatEmptySeq
      <4>2. InPiece(i, Unread)'
        BY <2>2, <2>3, <3>2, <4>1, InPieceKept
      <4>3. \E k \in 1..Len(resp'.pieces) : InPiece(k, Unread)'
        BY <2>3, <4>2
      <4> QED BY <2>1, <2>3, <3>2, <4>3, PieceNext
    <3> QED BY <3>1, <3>2
  <2> QED BY <1>1, <1>2, <1>6, <2>3 DEF RespBodyReadChunkBody, ReadChunk
<1> QED BY <1>5, <1>6

\* A buffer that begins with the LF of the chunk before gives the same line as without it.
LEMMA LeftFeed ==
  ASSUME NEW base \in Seq(Slots), NEW buf \in Seq(Slots), NEW more \in Seq(Slots), NEW u \in Seq(Slots),
         IsPrefix((base \o <<"CR">>) \o (buf \o more), u), IsPrefix(base \o CRLF, u), HasCRLF(buf)
  PROVE  \E x \in Seq(Slots) :
           /\ Len(buf) = Len(x) + 1 /\ buf[1] = "LF" /\ \A i \in 1..Len(x) : x[i] = buf[i + 1]
           /\ HasCRLF(x) /\ AfterLine(buf) = AfterLine(x)
           /\ IsPrefix((base \o CRLF) \o (x \o more), u)
<1> DEFINE b == base \o <<"CR">>
           t == <<"LF">>
           x == SubSeq(buf, 2, Len(buf))
<1>1. b \in Seq(Slots) /\ t \in Seq(Slots) /\ base \o CRLF = b \o t /\ Len(t) = 1 /\ t[1] = "LF"
  BY HalfBreak
<1>2. 1 \in 1..Len(buf) /\ Len(buf) \in Nat
  <2>1. FirstCRLF(buf) \in 1..Len(buf) - 1
    BY LineFound
  <2> QED BY <2>1
<1>3. IsPrefix(b \o (buf \o more), u) /\ IsPrefix(b \o t, u)
  BY <1>1
<1> HIDE DEF b, t
<1>4. SubSeq(buf, 1, Len(t)) = t /\ SubSeq(buf, Len(t) + 1, Len(buf)) \in Seq(Slots)
      /\ IsPrefix((b \o t) \o (SubSeq(buf, Len(t) + 1, Len(buf)) \o more), u)
  <2>1. Len(t) <= Len(buf)
    BY <1>1, <1>2
  <2> QED BY <1>1, <1>3, <2>1, Used
<1>5. SubSeq(buf, 1, 1) = t /\ x \in Seq(Slots) /\ IsPrefix((base \o CRLF) \o (x \o more), u)
  BY <1>1, <1>4
<1>6. Len(buf) = Len(x) + 1 /\ \A i \in 1..Len(x) : x[i] = buf[i + 1]
  BY <1>2
<1>7. buf[1] = "LF"
  <2>1. SubSeq(buf, 1, 1)[1] = buf[1]
    BY <1>2
  <2> QED BY <1>1, <1>5, <2>1
<1> HIDE DEF x
<1>8. buf = <<"LF">> \o x
  <2> DEFINE y == <<"LF">> \o x
  <2>1. "LF" \in Slots /\ x \in Seq(Slots)
    BY <1>5, SlotsAssumption DEF SlotsAssumption
  <2>2. y \in Seq(Slots) /\ Len(y) = Len(x) + 1 /\ y[1] = "LF" /\ \A i \in 1..Len(x) : y[i + 1] = x[i]
    BY <2>1
  <2> HIDE DEF y
  <2>3. \A i \in 1..Len(buf) : buf[i] = y[i]
    <3> TAKE i \in 1..Len(buf)
    <3>1. CASE i = 1
      BY <1>7, <2>2, <3>1
    <3>2. CASE i # 1
      <4> DEFINE k == i - 1
      <4>1. k \in 1..Len(x) /\ k + 1 = i
        BY <1>2, <1>6, <2>1, <3>2
      <4> HIDE DEF k
      <4>2. x[k] = buf[k + 1] /\ y[k + 1] = x[k]
        BY <1>6, <2>2, <4>1
      <4> QED BY <4>1, <4>2
    <3> QED BY <3>1, <3>2
  <2>4. Len(buf) = Len(y)
    BY <1>6, <2>2
  <2>5. buf = y
    BY <2>2, <2>3, <2>4, SeqEqual
  <2> QED BY <2>5 DEF y
<1>9. "LF" \in Slots /\ x \in Seq(Slots)
  BY <1>5, SlotsAssumption DEF SlotsAssumption
<1>10. (HasCRLF(<<"LF">> \o x) <=> HasCRLF(x)) /\ (HasCRLF(x) => AfterLine(<<"LF">> \o x) = AfterLine(x))
  BY <1>9, BreakBehind
<1>11. HasCRLF(x) /\ AfterLine(buf) = AfterLine(x)
  BY <1>8, <1>10
<1> QED BY <1>5, <1>6, <1>7, <1>11

\* The size that is parsed is that of the next chunk, and its data or the end of the body follows.
LEMMA SizeFound ==
  ASSUME TypeOK, SizesReadable, resp.chunked, NEW i \in 0..Len(resp.pieces), AtChunk(i), HasCRLF(sbuf),
         NEW size \in ParsedSizes
  PROVE  /\ size = Len(NextPiece(resp, i))
         /\ Ahead(AfterChunks(resp, i) \o SizeLine(NextPiece(resp, i)), AfterLine(sbuf) \o (hbuf \o wire))
<1> DEFINE more == hbuf \o wire
           k == Len(NextPiece(resp, i))
<1>1. resp \in Responses /\ sbuf \in Seq(Slots) /\ more \in Seq(Slots)
  BY ConcatProperties DEF TypeOK
<1>2. k \in Sizes
  BY <1>1, ChunkPlace
<1> HIDE DEF more
<1>3. CASE Ahead(AfterChunks(resp, i), Unread)
  <2>1. IsPrefix(AfterChunks(resp, i) \o (sbuf \o more), ResponseWire(resp))
    BY <1>3 DEF Ahead, Unread, more
  <2>2. /\ 1 \in 1..Len(sbuf) /\ sbuf[1] = SizeSlot(k)
        /\ IsPrefix((AfterChunks(resp, i) \o SizeLine(NextPiece(resp, i))) \o (AfterLine(sbuf) \o more), ResponseWire(resp))
    BY <1>1, <2>1, SizeLineRead
  <2>3. \A j \in 1..1 - 1 : sbuf[j] \in {"CR", "LF"}
    OBVIOUS
  <2>4. size = k
    BY <1>1, <1>2, <2>2, <2>3, SizeParsed
  <2> QED BY <2>2, <2>4 DEF Ahead, more
<1>4. CASE i >= 1 /\ Ahead(InChunk(resp, i, Len(resp.pieces[i])) \o <<"CR">>, Unread)
  <2> DEFINE base == InChunk(resp, i, Len(resp.pieces[i]))
             u == ResponseWire(resp)
  <2>1. /\ base \in Seq(Slots) /\ AfterChunks(resp, i) = base \o CRLF /\ IsPrefix(AfterChunks(resp, i), u)
        /\ u \in Seq(Slots)
    <3>1. i \in 1..Len(resp.pieces)
      BY <1>4
    <3>2. Len(resp.pieces[i]) \in 0..Len(resp.pieces[i])
      <4>1. Len(resp.pieces[i]) \in Nat
        BY <1>1, <3>1, PiecePlace
      <4> QED BY <4>1
    <3> QED BY <1>1, <3>1, <3>2, PiecePlace, ResponseWireType
  <2>2. IsPrefix((base \o <<"CR">>) \o (sbuf \o more), u) /\ IsPrefix(base \o CRLF, u)
    BY <1>4, <2>1 DEF Ahead, Unread, more
  <2> HIDE DEF base, u
  <2>3. PICK x \in Seq(Slots) :
          /\ Len(sbuf) = Len(x) + 1 /\ sbuf[1] = "LF" /\ \A j \in 1..Len(x) : x[j] = sbuf[j + 1]
          /\ HasCRLF(x) /\ AfterLine(sbuf) = AfterLine(x)
          /\ IsPrefix((base \o CRLF) \o (x \o more), u)
    BY <1>1, <2>1, <2>2, LeftFeed
  <2>4. IsPrefix(AfterChunks(resp, i) \o (x \o more), ResponseWire(resp))
    BY <2>1, <2>3 DEF u
  <2>5. /\ 1 \in 1..Len(x) /\ x[1] = SizeSlot(k)
        /\ IsPrefix((AfterChunks(resp, i) \o SizeLine(NextPiece(resp, i))) \o (AfterLine(x) \o more), ResponseWire(resp))
    BY <1>1, <2>3, <2>4, SizeLineRead
  <2>6. 2 \in 1..Len(sbuf) /\ sbuf[1] = "LF" /\ sbuf[2] = x[1]
    <3>1. x[1] = sbuf[1 + 1] /\ 1 + 1 = 2
      BY <2>3, <2>5
    <3>2. 2 \in 1..Len(sbuf)
      BY <1>1, <2>3, <2>5
    <3> QED BY <2>3, <3>1, <3>2
  <2>7. \A j \in 1..2 - 1 : sbuf[j] \in {"CR", "LF"}
    BY <2>6
  <2>8. size = k
    <3>1. sbuf[2] = SizeSlot(k)
      BY <2>5, <2>6
    <3> QED BY <1>1, <1>2, <2>6, <2>7, <3>1, SizeParsed
  <2> QED BY <2>3, <2>5, <2>8 DEF Ahead, more
<1> QED BY <1>3, <1>4 DEF AtChunk

\* A size line is parsed when it is there.
LEMMA ParseChunkSizeBody ==
  ASSUME TypeOK, SizesReadable, HeadInv, BodyInv, RespBodyParseChunkSize
  PROVE  BodyInv'
<1>1. /\ UNCHANGED <<resp, got, hbuf, wire>> /\ state = "RESP_BODY_PARSE_CHUNK_SIZE"
      /\ resp \in Responses
  BY DEF RespBodyParseChunkSize, RespUnchanged, ownVars, TypeOK
<1>2. resp.chunked
  BY <1>1 DEF HeadInv, PastHead, ChunkedStates
<1>3. PICK i \in 0..Len(resp.pieces) : AtChunk(i)
  BY <1>1 DEF BodyInv, SizeIn, SizeStates
<1>4. IsPrefix(got', Payload(resp'))
  BY <1>1 DEF BodyInv
<1>5. CASE ~HasCRLF(sbuf)
  <2>1. /\ sbuf' = sbuf
        /\ state' = IF hbuf # <<>> THEN "READ_CHUNK_SIZE_FROM_HEADER_BUFF" ELSE "RESP_BODY_READ_CHUNK_SIZE"
    BY <1>5 DEF RespBodyParseChunkSize, Goto
  <2>2. AtChunk(i)'
    BY <1>1, <1>3, <2>1, AtChunkKept DEF Unread
  <2>3. \E k \in 0..Len(resp'.pieces) : AtChunk(k)'
    BY <1>1, <2>2
  <2>4. state' \in SizeStates /\ (state' = "RESP_BODY_READ_CHUNK_SIZE" => hbuf' = <<>>)
    BY <1>1, <2>1 DEF SizeStates
  <2> QED BY <1>4, <2>3, <2>4, SizeNext
<1>6. CASE HasCRLF(sbuf)
  <2>1. /\ chunkSize' \in ParsedSizes /\ chunkWritten' = 0 /\ sbuf' = AfterLine(sbuf)
        /\ state' = IF chunkSize' > 0 THEN "RESP_BODY_PARSE_CHUNK_BODY" ELSE "RESP_BODY_SKIP_TRAILERS"
    BY <1>6 DEF RespBodyParseChunkSize, Goto
  <2>2. PICK size \in ParsedSizes : size = chunkSize'
    BY <2>1
  <2>3. /\ chunkSize' = Len(NextPiece(resp, i))
        /\ Ahead(AfterChunks(resp, i) \o SizeLine(NextPiece(resp, i)), AfterLine(sbuf) \o (hbuf \o wire))
    BY <1>2, <1>3, <1>6, <2>2, SizeFound
  <2>4. Len(resp.pieces) \in Nat /\ \A j \in 1..Len(resp.pieces) : Len(resp.pieces[j]) \in Nat /\ Len(resp.pieces[j]) >= 1
    BY <1>1, ResponseType
  <2>5. CASE i < Len(resp.pieces)
    <3> DEFINE j == i + 1
               p == resp.pieces[j]
    <3>1. j \in 1..Len(resp.pieces) /\ j - 1 = i /\ NextPiece(resp, i) = p
      BY <2>4, <2>5 DEF NextPiece
    <3>2. Len(p) \in Nat /\ Len(p) >= 1
      BY <2>4, <3>1
    <3>3. state' = "RESP_BODY_PARSE_CHUNK_BODY" /\ chunkSize' = Len(p) /\ 0 < Len(p)
      BY <2>1, <2>3, <3>1, <3>2
    <3> HIDE DEF j
    <3>4. InChunk(resp, j, 0) = AfterChunks(resp, i) \o SizeLine(p)
      BY <1>1, <1>2, <3>1, PiecePlace
    <3>5. GotChunks(resp, j - 1) \o SubSeq(p, 1, 0) = got
      <4>1. SubSeq(p, 1, 0) = <<>>
        BY DEF p
      <4>2. got = GotChunks(resp, j - 1) /\ got \in Seq(Slots)
        BY <1>3, <3>1 DEF AtChunk, TypeOK
      <4>3. got \o <<>> = got
        BY <4>2, ConcatEmptySeq
      <4> QED BY <4>1, <4>2, <4>3
    <3>6. Ahead(InChunk(resp, j, 0), AfterLine(sbuf) \o (hbuf \o wire))
      BY <2>3, <3>1, <3>4
    <3>7. InPiece(j, Unread)'
      <4>1. Unread' = AfterLine(sbuf) \o (hbuf \o wire)
        BY <1>1, <2>1 DEF Unread
      <4>2. (chunkSize = Len(resp.pieces[j]) /\ chunkWritten < chunkSize)'
        BY <1>1, <2>1, <3>3
      <4>3. (got = GotChunks(resp, j - 1) \o SubSeq(resp.pieces[j], 1, chunkWritten))'
        BY <1>1, <2>1, <3>5 DEF GotChunks
      <4>4. Ahead(InChunk(resp, j, chunkWritten), Unread)'
        BY <1>1, <2>1, <3>6, <4>1 DEF Ahead, HeadWire, InChunk, AfterChunks, Chunks, SizeLine
      <4> QED BY <4>2, <4>3, <4>4 DEF InPiece
    <3>8. \E n \in 1..Len(resp'.pieces) : InPiece(n, Unread)'
      BY <1>1, <3>1, <3>7
    <3> QED BY <1>4, <3>3, <3>8, PieceNext
  <2>6. CASE ~(i < Len(resp.pieces))
    <3>1. i = Len(resp.pieces) /\ NextPiece(resp, i) = <<>>
      BY <2>4, <2>6 DEF NextPiece
    <3>2. state' = "RESP_BODY_SKIP_TRAILERS"
      BY <2>1, <2>3, <3>1
    <3>3. got' = Payload(resp')
      BY <1>1, <1>3, <3>1, GotPlace DEF AtChunk
    <3> QED BY <1>4, <3>2, <3>3, TrailersNext
  <2> QED BY <2>5, <2>6
<1> QED BY <1>5, <1>6

\* The part of the stream buffer that cb_write is given is the next part of the chunk.
LEMMA PieceUsed ==
  ASSUME TypeOK, resp.chunked, NEW i \in 1..Len(resp.pieces), InPiece(i, Unread)
  PROVE  /\ ChunkPart \in 0..Len(sbuf) /\ chunkWritten + ChunkPart \in 0..Len(resp.pieces[i])
         /\ got \o SubSeq(sbuf, 1, ChunkPart)
              = GotChunks(resp, i - 1) \o SubSeq(resp.pieces[i], 1, chunkWritten + ChunkPart)
         /\ Ahead(InChunk(resp, i, chunkWritten + ChunkPart),
                  SubSeq(sbuf, ChunkPart + 1, Len(sbuf)) \o (hbuf \o wire))
         /\ ChunkContinues => ChunkPart = Len(sbuf) /\ chunkWritten + ChunkPart < chunkSize
         /\ ~ChunkContinues => chunkWritten + ChunkPart = chunkSize
<1> DEFINE p == resp.pieces[i]
           cw == chunkWritten
           m == ChunkPart
           more == hbuf \o wire
           t == SubSeq(p, cw + 1, cw + m)
           u == ResponseWire(resp)
<1>1. /\ resp \in Responses /\ sbuf \in Seq(Slots) /\ more \in Seq(Slots) /\ cw \in Nat
      /\ Len(sbuf) \in Nat
  BY ConcatProperties DEF TypeOK
<1>2. p \in Seq(Slots) /\ Len(p) \in Nat /\ chunkSize = Len(p) /\ cw < Len(p) /\ u \in Seq(Slots)
  BY <1>1, PiecePlace, ResponseWireType DEF InPiece
<1>3. /\ m \in 0..Len(sbuf) /\ cw + m \in 0..Len(p) /\ cw \in 0..Len(p)
      /\ ChunkContinues => m = Len(sbuf) /\ cw + m < chunkSize
      /\ ~ChunkContinues => cw + m = chunkSize
  BY <1>1, <1>2, SMTT(30) DEF ChunkPart, ChunkContinues
<1> HIDE DEF m, cw, more
<1>4. t \in Seq(Slots) /\ Len(t) = m
  <2>1. cw + 1 \in Nat \ {0} /\ cw + m \in Nat /\ cw + m <= Len(p) /\ m \in Nat
    BY <1>1, <1>2, <1>3
  <2>2. t \in Seq(Slots) /\ Len(t) = IF cw + 1 <= cw + m THEN (cw + m) - (cw + 1) + 1 ELSE 0
    BY <1>2, <2>1, PartOfSeq
  <2> QED BY <1>1, <2>1, <2>2
<1>5. /\ InChunk(resp, i, cw) \in Seq(Slots)
      /\ InChunk(resp, i, cw) \o t = InChunk(resp, i, cw + m)
      /\ IsPrefix(InChunk(resp, i, cw + m), u)
  <2>1. cw <= cw + m
    BY <1>1, <1>3
  <2> QED BY <1>1, <1>3, <2>1, PiecePlace
<1>6. IsPrefix(InChunk(resp, i, cw) \o (sbuf \o more), u)
  BY DEF InPiece, Ahead, Unread, cw, more
<1>7. SubSeq(sbuf, 1, m) = t /\ IsPrefix(InChunk(resp, i, cw + m) \o (SubSeq(sbuf, m + 1, Len(sbuf)) \o more), u)
  <2> DEFINE base == InChunk(resp, i, cw)
  <2>1. base \in Seq(Slots) /\ IsPrefix(base \o (sbuf \o more), u) /\ IsPrefix(base \o t, u) /\ base \o t = InChunk(resp, i, cw + m)
    BY <1>5, <1>6
  <2> HIDE DEF base, t, u
  <2>2. Len(t) <= Len(sbuf)
    BY <1>3, <1>4
  <2>3. u \in Seq(Slots) /\ t \in Seq(Slots)
    BY <1>2, <1>4
  <2>4. SubSeq(sbuf, 1, Len(t)) = t
    BY <1>1, <2>1, <2>2, <2>3, Used
  <2>5. IsPrefix((base \o t) \o (SubSeq(sbuf, Len(t) + 1, Len(sbuf)) \o more), u)
    BY <1>1, <2>1, <2>2, <2>3, Used
  <2> QED BY <1>4, <2>1, <2>4, <2>5
<1>8. got \o SubSeq(sbuf, 1, m) = GotChunks(resp, i - 1) \o SubSeq(p, 1, cw + m)
  <2> DEFINE g == GotChunks(resp, i - 1)
  <2>1. g \in Seq(Slots)
    <3>1. i - 1 \in 0..Len(resp.pieces)
      OBVIOUS
    <3> QED BY <1>1, <3>1, GotPlace
  <2>2. got = g \o SubSeq(p, 1, cw)
    BY DEF InPiece, cw
  <2> HIDE DEF g
  <2>3. (g \o SubSeq(p, 1, cw)) \o SubSeq(p, cw + 1, cw + m) = g \o SubSeq(p, 1, cw + m)
    <3>1. m \in Nat /\ cw + m <= Len(p)
      BY <1>1, <1>3
    <3>2. Joined(g, p, cw, m)
      BY <1>1, <1>2, <2>1, <3>1, PartJoins
    <3> QED BY <3>2 DEF Joined
  <2> QED BY <1>7, <2>2, <2>3 DEF g
<1> QED BY <1>3, <1>7, <1>8 DEF Ahead, m, cw, more

\* cb_write has the next part of the chunk, or refuses it.
LEMMA ParseChunkBodyBody ==
  ASSUME TypeOK, HeadInv, BodyInv, RespBodyParseChunkBody
  PROVE  BodyInv'
<1>1. /\ UNCHANGED <<resp, hbuf, wire, chunkSize>> /\ state = "RESP_BODY_PARSE_CHUNK_BODY" /\ resp \in Responses
      /\ hbuf \in Seq(Slots) /\ wire \in Seq(Slots)
  BY DEF RespBodyParseChunkBody, RespUnchanged, ownVars, TypeOK
<1>2. resp.chunked
  BY <1>1 DEF HeadInv, PastHead, ChunkedStates
<1>3. PICK i \in 1..Len(resp.pieces) : InPiece(i, Unread)
  BY <1>1 DEF BodyInv, PieceIn
<1>4. CASE Abort("WRITE_CALLBACK") /\ got' = got
  BY <1>1, <1>4, BodyFails DEF Abort
<1>5. ASSUME got' = got \o SubSeq(sbuf, 1, ChunkPart), chunkWritten' = chunkWritten + ChunkPart,
             Goto(IF ~ChunkContinues THEN "RESP_BODY_SKIP_CHUNK_BODY_CRLF"
                  ELSE IF hbuf # <<>> THEN "READ_CHUNK_BODY_FROM_HEADER_BUFF"
                  ELSE "RESP_BODY_READ_CHUNK_BODY"),
             sbuf' = IF ~ChunkContinues THEN SubSeq(sbuf, ChunkPart + 1, Len(sbuf))
                     ELSE IF hbuf # <<>> THEN <<>> ELSE sbuf
      PROVE  BodyInv'
  <2> DEFINE p == resp.pieces[i]
             n == chunkWritten + ChunkPart
             rest == SubSeq(sbuf, ChunkPart + 1, Len(sbuf))
  <2>1. n \in 0..Len(p) /\ got' = GotChunks(resp, i - 1) \o SubSeq(p, 1, n) /\ chunkSize = Len(p)
        /\ Ahead(InChunk(resp, i, n), rest \o (hbuf \o wire))
    BY <1>2, <1>3, <1>5, PieceUsed DEF InPiece
  <2>2. IsPrefix(got', Payload(resp'))
    BY <1>1, <2>1, GotPlace
  <2>3. ChunkContinues => rest = <<>> /\ n < chunkSize
    <3>1. ChunkContinues => ChunkPart = Len(sbuf) /\ n < chunkSize
      BY <1>2, <1>3, PieceUsed
    <3>2. SubSeq(sbuf, Len(sbuf) + 1, Len(sbuf)) = <<>>
      <4>1. sbuf \in Seq(Slots)
        BY DEF TypeOK
      <4> QED BY <4>1
    <3> QED BY <3>1, <3>2
  <2>4. ~ChunkContinues => n = Len(p)
    BY <1>2, <1>3, <2>1, PieceUsed
  <2>5. chunkWritten' = n
    BY <1>5
  <2> HIDE DEF n, rest
  <2>6. CASE ~ChunkContinues
    <3>1. state' = "RESP_BODY_SKIP_CHUNK_BODY_CRLF" /\ sbuf' = rest /\ n = Len(p)
      BY <1>5, <2>4, <2>6 DEF Goto, rest
    <3>2. got' = GotChunks(resp, i)
      <4>1. p \in Seq(Slots)
        BY <1>1, ResponseType
      <4>2. SubSeq(p, 1, Len(p)) = p
        BY <4>1
      <4> QED BY <1>1, <2>1, <3>1, <4>2, GotPlace
    <3>3. AtPieceEnd(i)'
      <4>1. Unread' = rest \o (hbuf \o wire)
        BY <1>1, <3>1 DEF Unread
      <4> QED BY <1>1, <2>1, <3>1, <3>2, <4>1 DEF AtPieceEnd, Ahead, HeadWire, InChunk, AfterChunks, GotChunks, Chunks, SizeLine
    <3>4. \E k \in 1..Len(resp'.pieces) : AtPieceEnd(k)'
      BY <1>1, <3>3
    <3> QED BY <2>2, <3>1, <3>4, PieceEndNext
  <2>7. CASE ChunkContinues /\ hbuf # <<>>
    <3>1. state' = "READ_CHUNK_BODY_FROM_HEADER_BUFF" /\ sbuf' = <<>> /\ rest = <<>> /\ n < chunkSize
      BY <1>5, <2>3, <2>7 DEF Goto
    <3>2. InPiece(i, Unread)'
      <4>1. Unread' = rest \o (hbuf \o wire)
        BY <1>1, <3>1 DEF Unread
      <4> QED BY <1>1, <2>1, <2>5, <3>1, <4>1 DEF InPiece, Ahead, HeadWire, InChunk, AfterChunks, GotChunks, Chunks, SizeLine
    <3>3. \E k \in 1..Len(resp'.pieces) : InPiece(k, Unread)'
      BY <1>1, <3>2
    <3> QED BY <2>2, <3>1, <3>3, PieceNext
  <2>8. CASE ChunkContinues /\ hbuf = <<>>
    <3>1. state' = "RESP_BODY_READ_CHUNK_BODY" /\ rest = <<>> /\ n < chunkSize /\ hbuf' = <<>>
      BY <1>1, <1>5, <2>3, <2>8 DEF Goto
    <3>2. rest \o (hbuf \o wire) = wire
      <4>1. <<>> \o wire = wire
        BY <1>1, ConcatEmptySeq
      <4> QED BY <2>8, <3>1, <4>1
    <3>3. InPiece(i, wire)'
      BY <1>1, <2>1, <2>5, <3>1, <3>2 DEF InPiece, Ahead, HeadWire, InChunk, AfterChunks, GotChunks, Chunks, SizeLine
    <3>4. \E k \in 1..Len(resp'.pieces) : InPiece(k, wire)'
      BY <1>1, <3>3
    <3> QED BY <2>2, <3>1, <3>4, PieceReadNext
  <2> QED BY <2>6, <2>7, <2>8
<1> QED BY <1>4, <1>5 DEF RespBodyParseChunkBody

\* A buffer that is a text is used up with it.
LEMMA UsedUp ==
  ASSUME NEW base \in Seq(Slots), NEW t \in Seq(Slots), NEW buf \in Seq(Slots), NEW more \in Seq(Slots),
         NEW u \in Seq(Slots),
         IsPrefix(base \o (buf \o more), u), IsPrefix(base \o t, u), Len(t) <= Len(buf), Len(buf) <= Len(t)
  PROVE  IsPrefix((base \o t) \o more, u)
<1>1. IsPrefix((base \o t) \o (SubSeq(buf, Len(t) + 1, Len(buf)) \o more), u)
  BY Used, Zenon
<1>2. SubSeq(buf, Len(t) + 1, Len(buf)) = <<>>
  OBVIOUS
<1>3. <<>> \o more = more
  BY ConcatEmptySeq
<1> QED BY <1>1, <1>2, <1>3

\* A chunk ends with its CRLF.
LEMMA EndOfChunk ==
  ASSUME NEW r \in Responses, r.chunked, NEW i \in 1..Len(r.pieces)
  PROVE  /\ InChunk(r, i, Len(r.pieces[i])) \in Seq(Slots) /\ ResponseWire(r) \in Seq(Slots)
         /\ AfterChunks(r, i) = InChunk(r, i, Len(r.pieces[i])) \o CRLF
         /\ IsPrefix(AfterChunks(r, i), ResponseWire(r))
         /\ CRLF \in Seq(Slots) /\ Len(CRLF) = 2
<1>1. Len(r.pieces[i]) \in Nat
  BY PiecePlace
<1>2. Len(r.pieces[i]) \in 0..Len(r.pieces[i])
  BY <1>1
<1>3. CRLF \in Seq(Slots) /\ Len(CRLF) = 2
  BY SlotsAssumption DEF SlotsAssumption, CRLF
<1> QED BY <1>2, <1>3, PiecePlace, ResponseWireType

(***************************************************************************)
(* What the handler that skips the CRLF after a chunk reads from the       *)
(* socket is that CRLF only when the header buffer, which holds what was   *)
(* received before, is used up.                                            *)
(***************************************************************************)
SkipsInOrder == state = "RESP_BODY_SKIP_CHUNK_BODY_CRLF" /\ Len(sbuf) < 2 => hbuf = <<>>

\* The CRLF after a chunk is in the stream buffer.
LEMMA BreakSkipped ==
  ASSUME TypeOK, resp.chunked, NEW i \in 1..Len(resp.pieces), AtPieceEnd(i), Len(sbuf) >= 2,
         sbuf' = SubSeq(sbuf, 3, Len(sbuf)), UNCHANGED <<resp, got, hbuf, wire>>
  PROVE  AtChunk(i)'
<1> DEFINE base == InChunk(resp, i, Len(resp.pieces[i]))
           u == ResponseWire(resp)
           more == hbuf \o wire
           x == SubSeq(sbuf, 3, Len(sbuf))
<1>1. resp \in Responses /\ sbuf \in Seq(Slots) /\ more \in Seq(Slots)
  BY ConcatProperties DEF TypeOK
<1>2. base \in Seq(Slots) /\ AfterChunks(resp, i) = base \o CRLF /\ u \in Seq(Slots)
      /\ IsPrefix(AfterChunks(resp, i), u) /\ CRLF \in Seq(Slots) /\ Len(CRLF) = 2
  BY <1>1, EndOfChunk
<1>3. IsPrefix(base \o (sbuf \o more), u) /\ IsPrefix(base \o CRLF, u)
  BY <1>2 DEF AtPieceEnd, Ahead, Unread
<1> HIDE DEF base, u, more
<1>4. IsPrefix((base \o CRLF) \o (SubSeq(sbuf, Len(CRLF) + 1, Len(sbuf)) \o more), u)
  <2>1. Len(CRLF) <= Len(sbuf)
    BY <1>2
  <2>2. base \in Seq(Slots) /\ CRLF \in Seq(Slots) /\ u \in Seq(Slots)
    BY <1>2
  <2> QED BY <1>1, <1>3, <2>1, <2>2, Used, Zenon
<1>5. IsPrefix(AfterChunks(resp, i) \o (x \o more), u)
  BY <1>2, <1>4
<1>6. Unread' = x \o more
  BY DEF Unread, more
<1>7. Ahead(AfterChunks(resp, i), Unread')
  BY <1>5, <1>6 DEF Ahead, u
<1>8. got = GotChunks(resp, i)
  BY DEF AtPieceEnd
<1> QED BY <1>7, <1>8 DEF AtChunk, Ahead, HeadWire, AfterChunks, GotChunks, Chunks, SizeLine

\* Some of the CRLF after a chunk is read from the socket.
LEMMA BreakRead ==
  ASSUME TypeOK, resp.chunked, NEW i \in 1..Len(resp.pieces), AtPieceEnd(i), Len(sbuf) < 2, hbuf = <<>>,
         NEW data \in Received(2 - Len(sbuf)), data # <<>>, Consume(data),
         sbuf' = <<>>, UNCHANGED <<resp, got, hbuf>>
  PROVE  AtChunk(i)'
<1> DEFINE base == InChunk(resp, i, Len(resp.pieces[i]))
           u == ResponseWire(resp)
           whole == sbuf \o data
           rest == wire'
<1>1. resp \in Responses /\ sbuf \in Seq(Slots) /\ wire \in Seq(Slots) /\ 2 - Len(sbuf) \in Nat
  BY DEF TypeOK
<1>2. /\ data \in Seq(Slots) /\ rest \in Seq(Slots) /\ whole \in Seq(Slots) /\ Len(data) <= 2 - Len(sbuf)
      /\ whole \o rest = sbuf \o wire
  BY <1>1, ReceivedRest
<1>3. Len(whole) \in {1, 2}
  <2>1. Len(data) \in Nat /\ Len(data) # 0 /\ Len(sbuf) \in Nat
    BY <1>1, <1>2, EmptySeq
  <2>2. Len(whole) = Len(sbuf) + Len(data)
    BY <1>1, <1>2
  <2> QED BY <1>2, <2>1, <2>2
<1>4. base \in Seq(Slots) /\ AfterChunks(resp, i) = base \o CRLF /\ u \in Seq(Slots)
      /\ IsPrefix(AfterChunks(resp, i), u) /\ CRLF \in Seq(Slots) /\ Len(CRLF) = 2
  BY <1>1, EndOfChunk
<1>5. <<>> \o wire = wire
  BY <1>1, ConcatEmptySeq
<1>6. IsPrefix(base \o (whole \o rest), u)
  BY <1>2, <1>5 DEF AtPieceEnd, Ahead, Unread
<1>7. Unread' = rest
  <2>1. Unread' = <<>> \o (<<>> \o rest)
    BY DEF Unread
  <2> HIDE DEF rest
  <2>2. <<>> \o rest = rest
    BY <1>2, ConcatEmptySeq
  <2> QED BY <2>1, <2>2
<1>8. got = GotChunks(resp, i) /\ i >= 1
  BY DEF AtPieceEnd
<1> HIDE DEF base, u, whole, rest
<1>9. \/ IsPrefix((base \o CRLF) \o rest, u)
      \/ IsPrefix((base \o <<"CR">>) \o rest, u)
  <2>1. CASE Len(whole) = 2
    <3>1. IsPrefix(base \o CRLF, u)
      BY <1>4
    <3>2. Len(CRLF) <= Len(whole) /\ Len(whole) <= Len(CRLF)
      BY <1>4, <2>1
    <3> QED BY <1>2, <1>4, <1>6, <3>1, <3>2, UsedUp
  <2>2. CASE Len(whole) = 1
    <3> DEFINE cr == <<"CR">>
    <3>1. cr \in Seq(Slots) /\ base \o cr \in Seq(Slots) /\ base \o CRLF \in Seq(Slots) /\ Len(cr) = 1
      BY <1>4, HalfBreak, ConcatProperties
    <3>2. IsPrefix(base \o cr, base \o CRLF) /\ IsPrefix(base \o CRLF, u)
      BY <1>4, HalfBreak
    <3> HIDE DEF cr
    <3>3. IsPrefix(base \o cr, u)
      <4> DEFINE a == base \o cr
                 b == base \o CRLF
      <4>1. a \in Seq(Slots) /\ b \in Seq(Slots) /\ IsPrefix(a, b) /\ IsPrefix(b, u)
        BY <3>1, <3>2
      <4> HIDE DEF a, b
      <4>2. IsPrefix(a, u)
        BY <1>4, <4>1, PrefixTransitive
      <4> QED BY <4>2 DEF a
    <3>4. Len(cr) <= Len(whole) /\ Len(whole) <= Len(cr)
      BY <2>2, <3>1
    <3>5. IsPrefix((base \o cr) \o rest, u)
      BY <1>2, <1>4, <1>6, <3>1, <3>3, <3>4, UsedUp
    <3> QED BY <3>5 DEF cr
  <2> QED BY <1>3, <2>1, <2>2
<1>10. \/ Ahead(AfterChunks(resp, i), Unread')
       \/ i >= 1 /\ Ahead(InChunk(resp, i, Len(resp.pieces[i])) \o <<"CR">>, Unread')
  BY <1>4, <1>7, <1>8, <1>9 DEF Ahead, base, u
<1> QED BY <1>8, <1>10 DEF AtChunk, Ahead, HeadWire, AfterChunks, InChunk, GotChunks, Chunks, SizeLine

\* The CRLF after a chunk is passed over, in one piece or two.
LEMMA SkipBreakBody ==
  ASSUME TypeOK, SkipsInOrder, HeadInv, BodyInv, RespBodySkipChunkBodyCRLF
  PROVE  BodyInv'
<1> USE DEF RespUnchanged, ownVars
<1>1. state = "RESP_BODY_SKIP_CHUNK_BODY_CRLF" /\ IsPrefix(got, Payload(resp))
  BY DEF RespBodySkipChunkBodyCRLF, BodyInv
<1>2. resp.chunked
  BY <1>1 DEF HeadInv, PastHead, ChunkedStates
<1>3. PICK i \in 1..Len(resp.pieces) : AtPieceEnd(i)
  BY <1>1 DEF BodyInv, PieceEndIn
<1>4. ASSUME AtChunk(i)', UNCHANGED <<resp, got>>, Goto("RESP_BODY_PARSE_CHUNK_SIZE")
      PROVE  BodyInv'
  <2>1. i \in 0..Len(resp'.pieces)
    BY <1>4
  <2>2. \E k \in 0..Len(resp'.pieces) : AtChunk(k)'
    BY <1>4, <2>1
  <2>3. IsPrefix(got', Payload(resp')) /\ state' = "RESP_BODY_PARSE_CHUNK_SIZE"
    BY <1>1, <1>4 DEF Goto
  <2> QED BY <2>2, <2>3, SizeNext DEF SizeStates
<1>5. CASE Again
  BY <1>5, BodyKept DEF Again, vars, respVars, parseVars
<1>6. CASE RecvFails /\ RespUnchanged
  <2>1. UNCHANGED <<resp, got>> /\ state' = "CLOSE" /\ result' = "SOCK_RECV"
    BY <1>6 DEF RecvFails, respVars, parseVars, Abort
  <2> QED BY <2>1, BodyFails
<1>7. ASSUME Len(sbuf) >= 2, sbuf' = SubSeq(sbuf, 3, Len(sbuf)), Goto("RESP_BODY_PARSE_CHUNK_SIZE"),
             UNCHANGED respVars, RespUnchanged
      PROVE  BodyInv'
  <2>1. UNCHANGED <<resp, got, hbuf, wire>>
    BY <1>7 DEF respVars, parseVars
  <2>2. AtChunk(i)'
    BY <1>2, <1>3, <1>7, <2>1, BreakSkipped
  <2> QED BY <1>4, <1>7, <2>1, <2>2
<1>8. ASSUME Len(sbuf) < 2, NEW data \in Received(2 - Len(sbuf)), Consume(data),
             IF data = <<>> THEN Abort("FAIL") ELSE Goto("RESP_BODY_PARSE_CHUNK_SIZE"),
             sbuf' = IF data = <<>> THEN sbuf ELSE <<>>, UNCHANGED <<resp, hbuf, got>>
      PROVE  BodyInv'
  <2>1. CASE data = <<>>
    <3>1. state' = "CLOSE" /\ result' = "FAIL"
      BY <1>8, <2>1 DEF Abort
    <3> QED BY <1>8, <3>1, BodyFails
  <2>2. CASE data # <<>>
    <3>1. hbuf = <<>>
      BY <1>1, <1>8 DEF SkipsInOrder
    <3>2. AtChunk(i)'
      BY <1>2, <1>3, <1>8, <2>2, <3>1, BreakRead
    <3> QED BY <1>4, <1>8, <2>2, <3>2
  <2> QED BY <2>1, <2>2
<1> QED BY <1>5, <1>6, <1>7, <1>8 DEF RespBodySkipChunkBodyCRLF

\* After the last chunk nothing is written any more.
LEMMA TrailersBody ==
  ASSUME HeadInv, BodyInv, RespBodySkipTrailers
  PROVE  BodyInv'
<1> USE DEF RespUnchanged, ownVars
<1>1. state = "RESP_BODY_SKIP_TRAILERS" /\ IsPrefix(got, Payload(resp)) /\ got = Payload(resp)
  BY DEF RespBodySkipTrailers, BodyInv, BodyDone
<1>2. CASE Again
  BY <1>2, BodyKept DEF Again, vars, respVars, parseVars
<1>3. CASE RecvFails /\ RespUnchanged
  <2>1. UNCHANGED <<resp, got>> /\ state' = "CLOSE" /\ result' = "SOCK_RECV"
    BY <1>3 DEF RecvFails, respVars, parseVars, Abort
  <2> QED BY <2>1, BodyFails
<1>4. ASSUME state' \in {"CLOSE", "RESP_BODY_SKIP_TRAILERS"}, UNCHANGED <<resp, got>>
      PROVE  BodyInv'
  <2>1. IsPrefix(got', Payload(resp')) /\ got' = Payload(resp')
    BY <1>1, <1>4
  <2>2. CASE state' = "CLOSE"
    BY <2>1, <2>2, BodyElsewhere DEF BodyStates, PlainStates, ChunkedStates
  <2>3. CASE state' = "RESP_BODY_SKIP_TRAILERS"
    BY <2>1, <2>3, TrailersNext
  <2> QED BY <1>4, <2>2, <2>3
<1> QED BY <1>2, <1>3, <1>4 DEF RespBodySkipTrailers, Goto

-----------------------------------------------------------------------------
(* The steps around the body.                                              *)

\* A step that stays outside the body, and does not end the session well.
LEMMA OutsideBody ==
  ASSUME BodyInv, UNCHANGED <<resp, got>>, state' \notin BodyStates,
         state' \in {"CLOSE", "FINISHED"} => result' # "OK"
  PROVE  BodyInv'
<1>1. IsPrefix(got', Payload(resp'))
  BY DEF BodyInv
<1> QED BY <1>1, BodyElsewhere

\* The lines of the head.
LEMMA HeadLinesBody ==
  ASSUME BodyInv,
         \/ RespStatusRead \/ RespStatusParse \/ RespHeaderRead \/ RespHeaderSkip
         \/ state = "RESP_HEADER_CALLBACK" /\ (HeaderIncomplete \/ HeaderLine \/ HeaderRefused) /\ RespUnchanged
  PROVE  BodyInv'
<1> USE DEF Goto, Abort, RespUnchanged, RecvFails, Again, vars, ownVars, respVars, parseVars
<1>1. /\ UNCHANGED <<resp, got>>
      /\ \/ state' \in {"RESP_STATUS_READ", "RESP_STATUS_PARSE", "RESP_HEADER_CALLBACK", "RESP_HEADER_READ",
              "RESP_HEADER_SKIP"}
         \/ state' = "CLOSE" /\ result' \in {"TOO_LARGE_DATA", "SOCK_RECV", "FAIL", "HEADER_CALLBACK"}
  <2>1. CASE RespStatusRead
    BY <2>1 DEF RespStatusRead
  <2>2. CASE RespStatusParse
    BY <2>2 DEF RespStatusParse
  <2>3. CASE RespHeaderRead
    BY <2>3 DEF RespHeaderRead
  <2>4. CASE RespHeaderSkip
    BY <2>4 DEF RespHeaderSkip
  <2>5. CASE state = "RESP_HEADER_CALLBACK" /\ (HeaderIncomplete \/ HeaderLine \/ HeaderRefused) /\ RespUnchanged
    BY <2>5 DEF HeaderIncomplete, HeaderLine, HeaderRefused
  <2> QED BY <2>1, <2>2, <2>3, <2>4, <2>5
<1>2. state' \notin BodyStates /\ (state' \in {"CLOSE", "FINISHED"} => result' # "OK")
  BY <1>1 DEF BodyStates, PlainStates, ChunkedStates
<1> QED BY <1>1, <1>2, OutsideBody

\* The body begins where the head ends, with what was read ahead of it.
LEMMA BodyBegins ==
  ASSUME TypeOK, AllWellFormed, HeadInv, BodyInv, state = "RESP_HEADER_CALLBACK", HeadersEnd, RespUnchanged
  PROVE  BodyInv'
<1>0. UNCHANGED <<resp, wire, got, hdrs, chunkedResp, status>> /\ hbuf' = AfterLine(hbuf)
      /\ HasCRLF(hbuf) /\ LineOf(hbuf) = <<>> /\ chunkedResp \in BOOLEAN
  BY DEF HeadersEnd, RespUnchanged, ownVars, parseVars, TypeOK
<1>1. PICK h \in 1..Len(resp.heads) :
           /\ StatusKnown(h) /\ got = <<>> /\ AfterLine(hbuf) \in Seq(Slots)
           /\ Ahead(BeforeHead(resp, h + 1), AfterLine(hbuf) \o wire)
           /\ h < Len(resp.heads) => hdrs = FitBefore(resp, h + 1, 1) /\ chunkedResp = TEBefore(resp, h + 1, 1)
           /\ h = Len(resp.heads) => hdrs = FittingLines(resp) /\ chunkedResp = resp.chunked
  BY <1>0, SectionEnd
<1>2. resp \in Responses /\ Len(resp.heads) \in Nat /\ wire \in Seq(Slots)
  <2>1. resp \in Responses /\ wire \in Seq(Slots)
    BY DEF TypeOK
  <2> QED BY <2>1, ResponseType
<1>3. IsPrefix(got', Payload(resp'))
  BY <1>0 DEF BodyInv
<1>4. CASE status = "1xx"
  <2>1. state' = "RESP_STATUS_READ"
    BY <1>4 DEF HeadersEnd, Goto
  <2> QED BY <1>0, <2>1, OutsideBody DEF BodyStates, PlainStates, ChunkedStates
<1>5. CASE status # "1xx"
  <2>1. h = Len(resp.heads)
    BY <1>1, <1>2, <1>5 DEF StatusKnown
  <2>2. HeadWire(resp) \in Seq(Slots) /\ BeforeHead(resp, h + 1) = HeadWire(resp)
    <3>1. 1 \in 1..Len(resp.heads[h]) + 1
      <4>1. Len(resp.heads[h]) \in Nat
        BY <1>2, ResponseType
      <4> QED BY <4>1
    <3> QED BY <1>2, <2>1, <3>1, LinePlace, ResponseWireType
  <2>3. Ahead(HeadWire(resp), hbuf' \o wire)
    BY <1>0, <1>1, <2>2
  <2>4. CASE chunkedResp
    <3>1. state' = "RESP_BODY_PARSE_CHUNK_SIZE" /\ sbuf' = <<>> /\ resp.chunked
      BY <1>1, <1>5, <2>1, <2>4 DEF HeadersEnd, Goto
    <3>2. AfterChunks(resp, 0) = HeadWire(resp) /\ GotChunks(resp, 0) = <<>> /\ Len(resp.pieces) \in Nat
      <4>1. Len(resp.pieces) \in Nat
        BY <1>2, ResponseType
      <4>2. 0 \in 0..Len(resp.pieces)
        BY <4>1
      <4> QED BY <1>2, <3>1, <4>1, <4>2, ChunkPlace, GotPlace
    <3>3. Unread' = hbuf' \o wire
      <4> DEFINE y == hbuf' \o wire
      <4>1. y \in Seq(Slots)
        BY <1>0, <1>1, <1>2, ConcatProperties
      <4>2. Unread' = <<>> \o y
        BY <1>0, <3>1 DEF Unread
      <4> HIDE DEF y
      <4>3. <<>> \o y = y
        BY <4>1, ConcatEmptySeq
      <4> QED BY <4>2, <4>3 DEF y
    <3>4. AtChunk(0)'
      <4>1. got = GotChunks(resp, 0)
        BY <1>1, <3>2
      <4>2. Ahead(AfterChunks(resp, 0), Unread')
        BY <2>3, <3>2, <3>3
      <4> QED BY <1>0, <4>1, <4>2 DEF AtChunk, Ahead, HeadWire, AfterChunks, GotChunks, Chunks, SizeLine
    <3>5. \E i \in 0..Len(resp'.pieces) : AtChunk(i)'
      BY <1>0, <3>2, <3>4
    <3> QED BY <1>3, <3>1, <3>5, SizeNext DEF SizeStates
  <2>5. CASE ~chunkedResp
    <3>1. state' = "RESP_BODY_FRAGMENT"
      BY <1>0, <1>5, <2>5 DEF HeadersEnd, Goto
    <3>2. HeadWire(resp) \o got = HeadWire(resp)
      BY <1>1, <2>2, ConcatEmptySeq
    <3>3. PlainIn'
      BY <1>0, <2>3, <3>1, <3>2 DEF PlainIn, Ahead, HeadWire
    <3> QED BY <1>3, <3>1, <3>3, PlainNext DEF PlainStates
  <2> QED BY <2>4, <2>5
<1> QED BY <1>4, <1>5

\* Every response handler keeps the reader in step with the body.
LEMMA ResponseBody ==
  ASSUME TypeOK, NoOverflow, AllWellFormed, SizesReadable, SkipsInOrder, HeadInv, BodyInv, ResponseStep
  PROVE  BodyInv'
<1>1. CASE RespStatusRead \/ RespStatusParse \/ RespHeaderRead \/ RespHeaderSkip
  BY <1>1, HeadLinesBody
<1>2. CASE RespHeaderCallback
  BY <1>2, HeadLinesBody, BodyBegins DEF RespHeaderCallback
<1>3. CASE RespBodyFragment \/ RespBodyRead \/ RespBodyCallback
  BY <1>3, PlainWrittenBody, PlainReadBody
<1>4. CASE RespBodyParseChunkSize \/ ReadChunkSizeFromHeaderBuff \/ ReadChunkBodyFromHeaderBuff
  BY <1>4, ParseChunkSizeBody, MoveBody
<1>5. CASE RespBodyReadChunkSize \/ RespBodyParseChunkBody \/ RespBodyReadChunkBody
  BY <1>5, ReadChunkBody, ParseChunkBodyBody
<1>6. CASE RespBodySkipChunkBodyCRLF \/ RespBodySkipTrailers
  BY <1>6, SkipBreakBody, TrailersBody
<1> QED BY <1>1, <1>2, <1>3, <1>4, <1>5, <1>6 DEF ResponseStep

\* A request handler that gives up says why.
LEMMA RequestFails ==
  ASSUME RequestStep, state' = "CLOSE"
  PROVE  result' # "OK"
<1> USE DEF SendText, Goto, Abort, Again, vars, reqVars, respVars, ReqStates
<1>1. CASE SendReqLine
  BY <1>1 DEF SendReqLine, ReqLineSent
<1>2. CASE SendHostHeader
  BY <1>2 DEF SendHostHeader, HostHeaderSent
<1>3. CASE ReqHeader
  BY <1>3 DEF ReqHeader
<1>4. CASE SendHeader
  BY <1>4 DEF SendHeader, HeaderSent
<1>5. CASE SendHeaderCRLF
  BY <1>5 DEF SendHeaderCRLF, HeaderCRLFSent
<1>6. CASE SendHeaderEnd
  BY <1>6 DEF SendHeaderEnd, HeaderEndSent
<1>7. CASE ReqBodyRead
  BY <1>7 DEF ReqBodyRead
<1>8. CASE SendBodySize
  BY <1>8 DEF SendBodySize, BodySizeSent
<1>9. CASE SendBody
  BY <1>9 DEF SendBody, BodySent
<1>10. CASE SendBodyCRLF
  BY <1>10 DEF SendBodyCRLF, BodyCRLFSent
<1> QED
  BY <1>1, <1>2, <1>3, <1>4, <1>5, <1>6, <1>7, <1>8, <1>9, <1>10 DEF RequestStep

\* The request handlers get nothing, and do not end a session well.
LEMMA RequestBody ==
  ASSUME BodyInv, RequestStep
  PROVE  BodyInv'
<1>1. state' \in ReqStates \cup {"RESP_STATUS_READ", "CLOSE"} /\ UNCHANGED <<resp, got>>
  BY RequestHbuf DEF ownVars, parseVars
<1>2. state' = "CLOSE" => result' # "OK"
  BY RequestFails
<1> QED BY <1>1, <1>2, OutsideBody DEF BodyStates, PlainStates, ChunkedStates, ReqStates

\* Neither do the first handlers of a session; the last one keeps what was got.
LEMMA OtherBody ==
  ASSUME BodyInv, Idle \/ Connect \/ Close
  PROVE  BodyInv'
<1> USE DEF Goto, ownVars, respVars, parseVars
<1>1. CASE Idle
  <2>1. UNCHANGED <<resp, got>> /\ ((state' = "FINISHED" /\ result' = "ALLOCATION") \/ state' = "CONNECT")
    BY <1>1 DEF Idle
  <2> QED BY <2>1, OutsideBody DEF BodyStates, PlainStates, ChunkedStates
<1>2. CASE Connect
  <2>1. UNCHANGED <<resp, got>>
        /\ ((state' = "FINISHED" /\ result' = "SOCK_CONNECT") \/ state' \in {"CONNECT", "REQ_LINE"})
    BY <1>2 DEF Connect
  <2> QED BY <2>1, OutsideBody DEF BodyStates, PlainStates, ChunkedStates
<1>3. CASE Close
  <2>1. /\ UNCHANGED <<resp, got>> /\ state = "CLOSE" /\ state' \in {"CLOSE", "FINISHED"}
        /\ result' = result \/ result' = "SOCK_CLOSE"
    BY <1>3 DEF Close
  <2>2. IsPrefix(got', Payload(resp'))
    BY <2>1 DEF BodyInv
  <2>3. state' \in {"CLOSE", "FINISHED"} /\ result' = "OK" /\ resp'.chunked => got' = Payload(resp')
    BY <2>1 DEF BodyInv, BodyDone
  <2> QED BY <2>1, <2>2, <2>3, BodyElsewhere DEF BodyStates, PlainStates, ChunkedStates
<1> QED BY <1>1, <1>2, <1>3

\* Between the sessions nothing has been got of a response.
LEMMA NothingGot ==
  ASSUME NEW r \in Responses
  PROVE  IsPrefix(<<>>, Payload(r))
<1> DEFINE p == Payload(r)
<1>0. p \in Seq(Slots)
  BY GotPlace
<1> HIDE DEF p
<1>1. <<>> \in Seq(Slots) /\ <<>> \o p = p
  BY <1>0, ConcatEmptySeq
<1>2. IsPrefix(<<>>, <<>> \o p)
  BY <1>0, <1>1, PrefixOfConcat
<1> QED BY <1>1, <1>2 DEF p

\* A session begins with nothing got, and is forgotten.
LEMMA SessionBody ==
  ASSUME TypeOK, NotYetConnected, HeadInv, Perform \/ Return
  PROVE  BodyInv'
<1>1. got' = <<>> /\ state' = "IDLE" /\ resp' \in Responses
  <2>1. CASE Perform
    <3>1. resp' \in Responses
      BY <2>1, ExchangesAssumption DEF Perform, ExchangesAssumption
    <3> QED BY <2>1, <3>1 DEF Perform, NotYetConnected, HeadInv, NotYetRead
  <2>2. CASE Return
    BY <2>2 DEF Return, ResetExceptCb, TypeOK
  <2> QED BY <2>1, <2>2
<1>2. IsPrefix(got', Payload(resp'))
  BY <1>1, NothingGot
<1> QED BY <1>1, <1>2, BodyElsewhere DEF BodyStates, PlainStates, ChunkedStates

\* At first nothing has been got.
LEMMA InitBody ==
  ASSUME Init
  PROVE  BodyInv
<1>1. IsPrefix(got, Payload(resp))
  BY NothingGot DEF Init
<1> QED BY <1>1 DEF Init, BodyInv, PlainIn, SizeIn, PieceIn, PieceEndIn, BodyDone, SizeStates

\* And a step that changes nothing changes nothing of it.
LEMMA StutterBody ==
  ASSUME BodyInv, UNCHANGED vars
  PROVE  BodyInv'
BY BodyKept DEF vars, ownVars, respVars, parseVars

\* The reader is in step with the body as long as the CRLF after a chunk is read in order.
LEMMA BodyAlways ==
  ASSUME AllWellFormed, SizesReadable
  PROVE  Spec /\ []SkipsInOrder => []BodyInv
<1>1. Init => BodyInv
  BY InitBody
<1>2. IInv /\ HeadInv /\ SkipsInOrder /\ BodyInv /\ [Next]_vars => BodyInv'
  BY RequestBody, ResponseBody, OtherBody, SessionBody, StutterBody DEF IInv, Next, Handler
<1> QED BY <1>1, <1>2, HeadAlways, Inductive, PTL DEF Spec

\* What it is in step with.
LEMMA BodyTold ==
  ASSUME BodyInv
  PROVE  BodyFaithful
BY DEF BodyInv, BodyDone, BodyFaithful

(***************************************************************************)
(* However cb_sock_recv cuts up the response and wherever it ends, what    *)
(* cb_write sees is the beginning of the body that was sent, and a session *)
(* with a chunked response that ends well has delivered all of it: if the  *)
(* responses are well formed, and as long as the handler that skips a CRLF *)
(* does not read the socket past what the header buffer still holds.       *)
(***************************************************************************)
THEOREM BodyFaithfulInOrder ==
  ASSUME AllWellFormed, SizesReadable
  PROVE  Spec /\ []SkipsInOrder => []BodyFaithful
<1>1. BodyInv => BodyFaithful
  BY BodyTold
<1> QED BY <1>1, BodyAlways, PTL

\* The header buffer is used up before the first size line is looked for in the socket.
HeaderUsedFirst ==
  state \in ChunkedStates /\ hbuf # <<>> =>
    state \in {"RESP_BODY_PARSE_CHUNK_SIZE", "READ_CHUNK_SIZE_FROM_HEADER_BUFF"} /\ sbuf = <<>>

\* One move empties the header buffer into a stream buffer that has room for all of it.
LEMMA MoveEmpties ==
  ASSUME TypeOK, NoOverflow, HeaderUsedFirst, StreamBuffSize >= RespHeaderBuffSize - 1,
         ReadChunkSizeFromHeaderBuff \/ ReadChunkBodyFromHeaderBuff
  PROVE  state' = "CLOSE" \/ hbuf' = <<>>
<1> DEFINE n == IF StreamRoom > Len(hbuf) THEN Len(hbuf) ELSE StreamRoom
<1>1. /\ state \in {"READ_CHUNK_SIZE_FROM_HEADER_BUFF", "READ_CHUNK_BODY_FROM_HEADER_BUFF"}
      /\ state' = "CLOSE" \/ hbuf' = SubSeq(hbuf, n + 1, Len(hbuf))
  BY DEF ReadChunkSizeFromHeaderBuff, ReadChunkBodyFromHeaderBuff, MoveHeaderToStream, Abort
<1>2. hbuf \in Seq(Slots) /\ Len(hbuf) \in Nat /\ Len(hbuf) <= StreamBuffSize /\ StreamBuffSize \in Nat
  BY RespHeaderBuffSizeAssumption, StreamBuffSizeAssumption
     DEF RespHeaderBuffSizeAssumption, StreamBuffSizeAssumption, TypeOK, NoOverflow
<1>3. CASE hbuf = <<>>
  <2>1. SubSeq(<<>>, n + 1, Len(<<>>)) = <<>>
    <3>1. n \in Nat
      BY <1>2, StreamBuffSizeAssumption DEF StreamBuffSizeAssumption, StreamRoom, TypeOK, NoOverflow
    <3> QED BY <3>1
  <2> QED BY <1>1, <1>3, <2>1
<1>4. CASE hbuf # <<>>
  <2>1. sbuf = <<>>
    BY <1>1, <1>4 DEF HeaderUsedFirst, ChunkedStates
  <2>2. StreamRoom = StreamBuffSize
    BY <1>2, <2>1 DEF StreamRoom
  <2>3. n = Len(hbuf)
    BY <1>2, <2>2
  <2>4. SubSeq(hbuf, Len(hbuf) + 1, Len(hbuf)) = <<>>
    BY <1>2
  <2> QED BY <1>1, <2>3, <2>4
<1> QED BY <1>3, <1>4

\* The other handlers of a chunked body do not touch the header buffer.
LEMMA ChunkedUsedFirst ==
  ASSUME TypeOK, NoOverflow, HeaderUsedFirst, StreamBuffSize >= RespHeaderBuffSize - 1,
         \/ RespBodyParseChunkSize \/ ReadChunkSizeFromHeaderBuff \/ ReadChunkBodyFromHeaderBuff
         \/ RespBodyReadChunkSize \/ RespBodyParseChunkBody \/ RespBodyReadChunkBody
         \/ RespBodySkipChunkBodyCRLF \/ RespBodySkipTrailers
  PROVE  HeaderUsedFirst'
<1> USE DEF Goto, Abort, RecvFails, Again, vars, respVars, parseVars, ChunkedStates
<1>1. CASE RespBodyParseChunkSize
  <2>1. ~HasCRLF(<<>>)
    BY DEF HasCRLF, CRLFAt
  <2> QED BY <1>1, <2>1 DEF RespBodyParseChunkSize, HeaderUsedFirst
<1>2. CASE ReadChunkSizeFromHeaderBuff \/ ReadChunkBodyFromHeaderBuff
  BY <1>2, MoveEmpties DEF HeaderUsedFirst
<1>3. CASE RespBodyReadChunkSize \/ RespBodyReadChunkBody
  BY <1>3 DEF RespBodyReadChunkSize, RespBodyReadChunkBody, ReadChunk, HeaderUsedFirst
<1>4. CASE RespBodyParseChunkBody
  BY <1>4 DEF RespBodyParseChunkBody, HeaderUsedFirst
<1>5. CASE RespBodySkipChunkBodyCRLF \/ RespBodySkipTrailers
  BY <1>5 DEF RespBodySkipChunkBodyCRLF, RespBodySkipTrailers, HeaderUsedFirst
<1> QED BY <1>1, <1>2, <1>3, <1>4, <1>5

\* The body is entered with an empty stream buffer, and only from the head.
LEMMA StepUsedFirst ==
  ASSUME TypeOK, NoOverflow, NotYetConnected, HeaderUsedFirst, StreamBuffSize >= RespHeaderBuffSize - 1,
         [Next]_vars
  PROVE  HeaderUsedFirst'
<1> USE DEF Goto, Abort, RecvFails, Again, RespUnchanged, ChunkedStates
<1>1. CASE Perform \/ Return
  BY <1>1 DEF Perform, Return, ResetExceptCb, NotYetConnected, HeaderUsedFirst
<1>2. CASE Idle \/ Connect \/ Close
  BY <1>2 DEF Idle, Connect, Close, HeaderUsedFirst
<1>3. CASE RequestStep
  BY <1>3, RequestHbuf DEF ReqStates, HeaderUsedFirst
<1>4. CASE RespStatusRead \/ RespStatusParse
  BY <1>4 DEF RespStatusRead, RespStatusParse, HeaderUsedFirst, vars
<1>5. CASE RespHeaderCallback
  BY <1>5 DEF RespHeaderCallback, HeaderIncomplete, HeaderLine, HeaderRefused, HeadersEnd, HeaderUsedFirst
<1>6. CASE RespHeaderRead \/ RespHeaderSkip
  BY <1>6 DEF RespHeaderRead, RespHeaderSkip, HeaderUsedFirst, vars
<1>7. CASE RespBodyFragment \/ RespBodyRead \/ RespBodyCallback
  BY <1>7 DEF RespBodyFragment, RespBodyRead, RespBodyCallback, WriteBody, AfterBody, HeaderUsedFirst, vars
<1>8. CASE \/ RespBodyParseChunkSize \/ ReadChunkSizeFromHeaderBuff \/ ReadChunkBodyFromHeaderBuff
           \/ RespBodyReadChunkSize \/ RespBodyParseChunkBody \/ RespBodyReadChunkBody
           \/ RespBodySkipChunkBodyCRLF \/ RespBodySkipTrailers
  BY <1>8, ChunkedUsedFirst
<1>9. CASE UNCHANGED vars
  BY <1>9 DEF vars, respVars, HeaderUsedFirst
<1>10. CASE ResponseStep
  BY <1>4, <1>5, <1>6, <1>7, <1>8, <1>10 DEF ResponseStep
<1> QED BY <1>1, <1>2, <1>3, <1>9, <1>10 DEF Next, Handler

\* A stream buffer that takes all that the header buffer may hold keeps the order.
LEMMA AlwaysInOrder ==
  ASSUME StreamBuffSize >= RespHeaderBuffSize - 1
  PROVE  Spec => []SkipsInOrder
<1>1. Init => HeaderUsedFirst
  BY DEF Init, HeaderUsedFirst
<1>2. IInv /\ HeaderUsedFirst /\ [Next]_vars => HeaderUsedFirst'
  BY StepUsedFirst DEF IInv
<1>3. HeaderUsedFirst => SkipsInOrder
  BY DEF HeaderUsedFirst, SkipsInOrder, ChunkedStates
<1> QED BY <1>1, <1>2, <1>3, Inductive, PTL DEF Spec

(***************************************************************************)
(* With such a stream buffer, as the default sizes have it                 *)
(* (khc_state_impl.h:11), the body that cb_write sees is faithful in every *)
(* session.                                                                *)
(***************************************************************************)
THEOREM BodyAlwaysFaithful ==
  ASSUME AllWellFormed, SizesReadable, StreamBuffSize >= RespHeaderBuffSize - 1
  PROVE  Spec => []BodyFaithful
BY AlwaysInOrder, BodyFaithfulInOrder, PTL

-----------------------------------------------------------------------------
(* khc_perform keeps its promise.                                          *)

\* The texts of the promise are those of the program.
LEMMA SameTexts ==
  ASSUME NEW r
  PROVE  Session!RequestWire(r) = RequestWire(r) /\ Session!Payload(r) = Payload(r)
<1>1. ASSUME NEW s PROVE Session!FlattenSeq(s) = FlattenSeq(s)
  BY DEF Session!FlattenSeq, FlattenSeq
<1>2. Session!CRLF = CRLF /\ Session!ReqLine = ReqLine /\ Session!HostLine = HostLine
  BY DEF Session!CRLF, CRLF, Session!ReqLine, ReqLine, Session!HostLine, HostLine
<1>3. ASSUME NEW n PROVE Session!SizeSlot(n) = SizeSlot(n)
  BY DEF Session!SizeSlot, SizeSlot
<1>4. ASSUME NEW h PROVE Session!HeaderText(h) = HeaderText(h)
  BY <1>2 DEF Session!HeaderText, HeaderText
<1>5. ASSUME NEW u PROVE Session!ReqEnd(u) = ReqEnd(u)
  BY <1>2 DEF Session!ReqEnd, ReqEnd
<1>6. ASSUME NEW p PROVE Session!ChunkedBody(p) = ChunkedBody(p)
  BY <1>1, <1>2, <1>3 DEF Session!ChunkedBody, ChunkedBody
<1>7. Session!RequestWire(r) = RequestWire(r)
  BY <1>1, <1>2, <1>4, <1>5, <1>6 DEF Session!RequestWire, RequestWire
<1>8. Session!Payload(r) = Payload(r)
  BY <1>1 DEF Session!Payload, Payload
<1> QED BY <1>7, <1>8

\* And so are their beginnings.
LEMMA SamePrefix ==
  ASSUME NEW s, NEW t
  PROVE  /\ Session!IsPrefix(s, t) <=> IsPrefix(s, t)
         /\ Session!IsStrictPrefix(s, t) <=> IsPrefix(s, t) /\ s # t
BY DEF Session!IsPrefix, IsPrefix, Session!IsStrictPrefix

\* A session goes well to its end only with the whole request out.
ClosedWell == state = "CLOSE" /\ result = "OK" => out = RequestWire(req)

\* CLOSE is reached from the response, or with an error.
LEMMA StepClosedWell ==
  ASSUME TypeOK, NotYetConnected, RequestOut, ClosedWell, [Next]_vars
  PROVE  ClosedWell'
<1>1. CASE Perform \/ Return \/ Idle \/ Connect
  BY <1>1 DEF Perform, Return, ResetExceptCb, Idle, Connect, Goto, ClosedWell, NotYetConnected
<1>2. CASE RequestStep
  BY <1>2, RequestFails DEF ClosedWell
<1>3. CASE ResponseStep
  <2>1. out = RequestWire(req)
    BY <1>3, ResponseSendsNothing DEF RequestOut, EndOut
  <2> QED BY <1>3, <2>1, ResponseSendsNothing DEF ClosedWell
<1>4. CASE Close
  BY <1>4 DEF Close, ownVars, reqVars, ClosedWell
<1>5. CASE UNCHANGED vars
  BY <1>5 DEF vars, ownVars, reqVars, ClosedWell
<1> QED BY <1>1, <1>2, <1>3, <1>4, <1>5 DEF Next, Handler

\* What a request handler sends is part of some text, or nothing.
LEMMA SendsProgress ==
  ASSUME TypeOK, RequestPlace, RequestStep
  PROVE  \E text \in Seq(Slots) : Progress(text)
<1> USE DEF SendText, Progress
<1>1. ASSUME UNCHANGED <<out, sentLength>> PROVE \E text \in Seq(Slots) : Progress(text)
  BY <1>1, TextTypes
<1>2. CASE Again \/ ReqHeader \/ ReqBodyRead
  BY <1>1, <1>2 DEF Again, vars, reqVars, ReqHeader, ReqBodyRead
<1>3. CASE SendReqLine
  BY <1>2, <1>3, TextTypes DEF SendReqLine, ReqLineSent, Goto, reqVars
<1>4. CASE SendHostHeader
  BY <1>2, <1>4, TextTypes DEF SendHostHeader, HostHeaderSent, Goto, reqVars
<1>5. CASE SendHeader
  <2>1. HeaderData \in Seq(Slots)
    BY <1>5, RequestsAssumption DEF SendHeader, RequestsAssumption, IsRequest, HeaderData, RequestPlace, TypeOK
  <2> QED BY <1>2, <1>5, <2>1 DEF SendHeader, HeaderSent, Goto, reqVars
<1>6. CASE SendHeaderCRLF
  BY <1>2, <1>6, TextTypes DEF SendHeaderCRLF, HeaderCRLFSent, Goto, reqVars
<1>7. CASE SendHeaderEnd
  BY <1>2, <1>7, TextTypes DEF SendHeaderEnd, HeaderEndSent, Goto, reqVars
<1>8. CASE SendBodySize
  <2>1. <<SizeSlot(Len(sbuf))>> \o CRLF \in Seq(Slots)
    BY <1>8, TextTypes DEF SendBodySize, RequestPlace
  <2> QED BY <1>2, <1>8, <2>1 DEF SendBodySize, BodySizeSent, Goto, reqVars
<1>9. CASE SendBody
  <2>1. sbuf \in Seq(Slots)
    BY DEF TypeOK
  <2> QED BY <1>2, <1>9, <2>1 DEF SendBody, BodySent, Goto, reqVars
<1>10. CASE SendBodyCRLF
  BY <1>2, <1>10, TextTypes DEF SendBodyCRLF, BodyCRLFSent, Goto, reqVars
<1> QED
  BY <1>2, <1>3, <1>4, <1>5, <1>6, <1>7, <1>8, <1>9, <1>10 DEF RequestStep

\* What is out stays out.
LEMMA OutGrows ==
  ASSUME TypeOK, RequestPlace, RequestStep
  PROVE  IsPrefix(out, out')
<1>1. out \in Seq(Slots) /\ sentLength \in Nat
  BY DEF TypeOK
<1>2. PICK text \in Seq(Slots) : Progress(text)
  BY SendsProgress
<1>3. CASE UNCHANGED <<out, sentLength>>
  BY <1>1, <1>3, PrefixReflexive
<1>4. ASSUME NEW k \in 0..Len(text) - sentLength,
             out' = out \o SubSeq(text, sentLength + 1, sentLength + k)
      PROVE  IsPrefix(out, out')
  <2> DEFINE part == SubSeq(text, sentLength + 1, sentLength + k)
  <2>1. k \in Nat /\ sentLength + k <= Len(text)
    BY <1>1
  <2>2. part \in Seq(Slots)
    BY <1>1, <2>1, PartOfSeq
  <2> HIDE DEF part
  <2>3. IsPrefix(out, out \o part)
    BY <1>1, <2>2, PrefixOfConcat
  <2> QED BY <1>4, <2>3 DEF part
<1> QED BY <1>2, <1>3, <1>4 DEF Progress

\* What is got stays got.
LEMMA GotGrows ==
  ASSUME IInv, ResponseStep
  PROVE  IsPrefix(got, got')
<1>1. got \in Seq(Slots) /\ hbuf \in Seq(Slots) /\ sbuf \in Seq(Slots) /\ SubSeq(sbuf, 1, ChunkPart) \in Seq(Slots)
  <2>1. ChunkPart \in Nat /\ ChunkPart <= Len(sbuf) /\ sbuf \in Seq(Slots)
    BY RespTypedEnough, ChunkPartFits DEF IInv, TypeOK
  <2>2. SubSeq(sbuf, 1, ChunkPart) \in Seq(Slots)
    BY <2>1, PartOfSeq
  <2> QED BY <2>2 DEF IInv, TypeOK
<1>2. \/ got' = got
      \/ got' = got \o hbuf
      \/ got' = got \o sbuf
      \/ got' = got \o SubSeq(sbuf, 1, ChunkPart)
  <2> USE DEF Again, RecvFails, vars, respVars, parseVars
  <2>1. CASE RespStatusRead \/ RespStatusParse \/ RespHeaderRead \/ RespHeaderSkip
    BY <2>1 DEF RespStatusRead, RespStatusParse, RespHeaderRead, RespHeaderSkip
  <2>2. CASE RespHeaderCallback
    BY <2>2 DEF RespHeaderCallback, HeaderIncomplete, HeaderLine, HeaderRefused, HeadersEnd
  <2>3. CASE RespBodyFragment \/ RespBodyRead \/ RespBodyCallback
    BY <2>3 DEF RespBodyFragment, RespBodyRead, RespBodyCallback, WriteBody
  <2>4. CASE RespBodyParseChunkSize \/ ReadChunkSizeFromHeaderBuff \/ ReadChunkBodyFromHeaderBuff
    BY <2>4 DEF RespBodyParseChunkSize, ReadChunkSizeFromHeaderBuff, ReadChunkBodyFromHeaderBuff, MoveHeaderToStream
  <2>5. CASE RespBodyReadChunkSize \/ RespBodyReadChunkBody
    BY <2>5 DEF RespBodyReadChunkSize, RespBodyReadChunkBody, ReadChunk
  <2>6. CASE RespBodyParseChunkBody
    BY <2>6 DEF RespBodyParseChunkBody
  <2>7. CASE RespBodySkipChunkBodyCRLF \/ RespBodySkipTrailers
    BY <2>7 DEF RespBodySkipChunkBodyCRLF, RespBodySkipTrailers
  <2> QED BY <2>1, <2>2, <2>3, <2>4, <2>5, <2>6, <2>7 DEF ResponseStep
<1>3. ASSUME NEW x \in Seq(Slots) PROVE IsPrefix(got, got \o x)
  BY <1>1, <1>3, PrefixOfConcat
<1>4. IsPrefix(got, got)
  BY <1>1, PrefixReflexive
<1> QED BY <1>1, <1>2, <1>3, <1>4

\* Every step of khc_perform is one of the session, or changes nothing of it.
LEMMA SessionStep ==
  ASSUME IInv, RequestOut, HeadInv, BodyInv, ClosedWell, RequestFaithful', BodyFaithful', [Next]_vars
  PROVE  [Session!Next]_<<req, resp, out, got, Verdict>>
<1> USE DEF IInv
<1>1. CASE Perform
  <2>1. state = "IDLE" /\ state' = "IDLE" /\ app = "idle" /\ app' = "performing" /\ UNCHANGED <<out, got>>
    BY <1>1 DEF Perform, NotYetConnected, reqVars
  <2>2. req' \in Requests /\ resp' \in Responses
    BY <1>1, ExchangesAssumption DEF Perform, ExchangesAssumption
  <2>3. out = <<>> /\ got = <<>>
    BY <2>1 DEF RequestOut, HeadOut, HeadInv, NotYetRead
  <2>4. Session!Begin
    BY <2>1, <2>2, <2>3 DEF Session!Begin, Verdict
  <2> QED BY <2>4 DEF Session!Next
<1>2. CASE Return
  <2>1. Session!End
    BY <1>2 DEF Return, ResetExceptCb, Session!End, Verdict
  <2> QED BY <2>1 DEF Session!Next
<1>3. CASE Idle \/ Connect
  <2>1. /\ app = "performing" /\ state \in {"IDLE", "CONNECT"} /\ UNCHANGED <<app, req, resp, out, got>>
        /\ \/ state' = "FINISHED" /\ result' # "OK"
           \/ state' \in {"CONNECT", "REQ_LINE"}
    <3>1. CASE Idle
      BY <1>3, <3>1 DEF Idle, Goto, ownVars, reqVars, respVars, parseVars
    <3>2. CASE Connect
      BY <1>3, <3>2 DEF Connect, Goto, ownVars, reqVars, respVars, parseVars, NotYetConnected, TypeOK
    <3> QED BY <1>3, <3>1, <3>2
  <2>2. CASE state' = "FINISHED" /\ result' # "OK"
    <3>1. Session!Fail
      BY <2>1, <2>2 DEF Session!Fail, Verdict
    <3> QED BY <3>1 DEF Session!Next
  <2>3. CASE state' \in {"CONNECT", "REQ_LINE"}
    BY <2>1, <2>3 DEF Verdict
  <2> QED BY <2>1, <2>2, <2>3
<1>4. CASE RequestStep
  <2>1. Progressing /\ UNCHANGED <<req, resp, got>>
    BY <1>4, RequestProgresses, RequestHbuf DEF ownVars, parseVars
  <2>2. Verdict = "running" /\ Verdict' = "running"
    BY <2>1 DEF Progressing, ownVars, Verdict, NotYetConnected, TypeOK, ReqStates, RespStates
  <2>3. IsPrefix(out, out') /\ IsPrefix(out', RequestWire(req))
    BY <1>4, <2>1, OutGrows DEF RequestFaithful
  <2>4. CASE out' = out
    BY <2>1, <2>2, <2>4
  <2>5. CASE out' # out
    <3>1. Session!Transmit
      BY <2>1, <2>2, <2>3, <2>5, SamePrefix, SameTexts DEF Session!Transmit
    <3> QED BY <3>1 DEF Session!Next
  <2> QED BY <2>4, <2>5
<1>5. CASE ResponseStep
  <2>1. Progressing /\ UNCHANGED <<req, resp, out>> /\ state \in RespStates
    BY <1>5, ResponseProgresses, ResponseSendsNothing DEF Progressing, ownVars
  <2>2. Verdict = "running" /\ Verdict' = "running"
    BY <2>1 DEF Progressing, ownVars, Verdict, NotYetConnected, TypeOK, ReqStates, RespStates
  <2>3. IsPrefix(got, got') /\ IsPrefix(got', Payload(resp)) /\ out = RequestWire(req)
    BY <1>5, <2>1, GotGrows DEF BodyFaithful, RequestOut, EndOut
  <2>4. CASE got' = got
    BY <2>1, <2>2, <2>4
  <2>5. CASE got' # got
    <3>1. Session!PassOn
      BY <2>1, <2>2, <2>3, <2>5, SamePrefix, SameTexts DEF Session!PassOn
    <3> QED BY <3>1 DEF Session!Next
  <2> QED BY <2>4, <2>5
<1>6. CASE Close
  <2>1. /\ UNCHANGED <<app, req, resp, out, got>> /\ state = "CLOSE" /\ app = "performing"
        /\ \/ state' = "FINISHED" /\ result' \in {result, "SOCK_CLOSE"}
           \/ state' = "CLOSE"
    BY <1>6 DEF Close, ownVars, reqVars, respVars, parseVars, NotYetConnected, TypeOK
  <2>2. CASE state' = "CLOSE"
    BY <2>1, <2>2 DEF Verdict
  <2>3. CASE state' = "FINISHED" /\ result' # "OK"
    <3>1. Session!Fail
      BY <2>1, <2>3 DEF Session!Fail, Verdict
    <3> QED BY <3>1 DEF Session!Next
  <2>4. CASE state' = "FINISHED" /\ result' = "OK"
    <3>1. result = "OK"
      BY <2>1, <2>4
    <3>2. out = RequestWire(req) /\ (resp.chunked => got = Payload(resp))
      BY <2>1, <3>1 DEF ClosedWell, BodyInv, BodyDone
    <3>3. Session!Succeed
      BY <2>1, <2>4, <3>2, SameTexts DEF Session!Succeed, Verdict
    <3> QED BY <3>3 DEF Session!Next
  <2> QED BY <2>1, <2>2, <2>3, <2>4
<1>7. CASE UNCHANGED vars
  BY <1>7 DEF vars, ownVars, reqVars, respVars, parseVars, Verdict
<1> QED BY <1>1, <1>2, <1>3, <1>4, <1>5, <1>6, <1>7 DEF Next, Handler

\* A session begins where the promise does.
LEMMA SessionInit ==
  ASSUME Init
  PROVE  Session!Init
BY DEF Init, Session!Init, Verdict

(***************************************************************************)
(* khc_perform does what khc.h:19-60 promises: every step of a handler is  *)
(* one of the session that HttpSession describes, or changes nothing that  *)
(* the application or the server sees.  The premises are those of the      *)
(* faithful body.                                                          *)
(***************************************************************************)
THEOREM ImplementsSessionInOrder ==
  ASSUME AllWellFormed, SizesReadable
  PROVE  Spec /\ []SkipsInOrder => ImplementsSession
<1>1. Init => Session!Init
  BY SessionInit
<1>2. IInv /\ RequestOut /\ HeadInv /\ BodyInv /\ ClosedWell /\ RequestFaithful' /\ BodyFaithful' /\ [Next]_vars
        => [Session!Next]_<<req, resp, out, got, Verdict>>
  BY SessionStep
<1>3. Init => ClosedWell
  BY DEF Init, ClosedWell
<1>4. IInv /\ RequestOut /\ ClosedWell /\ [Next]_vars => ClosedWell'
  BY StepClosedWell DEF IInv
<1>5. Spec => []ClosedWell
  BY <1>3, <1>4, Inductive, OutAlways, PTL DEF Spec
<1> QED
  BY <1>1, <1>2, <1>5, Inductive, OutAlways, HeadAlways, BodyAlways, RequestAlwaysFaithful, BodyFaithfulInOrder, PTL
     DEF Spec, ImplementsSession, Session!Spec, Session!sessionVars

\* And with a stream buffer that takes all that the header buffer may hold, it does so always.
THEOREM KhcImplementsSession ==
  ASSUME AllWellFormed, SizesReadable, StreamBuffSize >= RespHeaderBuffSize - 1
  PROVE  Spec => ImplementsSession
BY AlwaysInOrder, ImplementsSessionInOrder, PTL

=============================================================================
