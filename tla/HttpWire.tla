------------------------------ MODULE HttpWire ------------------------------
(***************************************************************************)
(* The HTTP messages that khc writes to and reads from a socket, as        *)
(* sequences of slots.  A slot stands for a run of bytes that the code     *)
(* never tells apart: "CR" and "LF" are single bytes; the hexadecimal size  *)
(* of a chunk is one slot; a header line is one slot for its name and      *)
(* colon ("TE" for Transfer-Encoding: chunked, "CL" for Content-Length)    *)
(* followed by slots for its value.  Buffers are measured in slots.        *)
(***************************************************************************)
EXTENDS Naturals, Sequences, SequencesExt

CONSTANTS
  Slots,      \* Every slot a message may consist of.
  Requests,   \* What the application asks for in a session.
  Responses,  \* What the server has to say in a session.
  SizeSlots   \* The slot that writes size n is SizeSlots[n + 1].

ASSUME SlotsAssumption ==
  {"CR", "LF", "line1", "line2", "host1", "host2", "TE", "CL", "close"} \subseteq Slots
ASSUME SizeSlotsAssumption ==
  /\ SizeSlots \in Seq(Slots)
  /\ SizeSlots # <<>>

(***************************************************************************)
(* A request: the data of each node of the _req_headers list (<<>> is a    *)
(* NULL or empty data), whether cb_read is set, and the data that cb_read  *)
(* yields call after call before it returns 0.                             *)
(***************************************************************************)
IsRequest(r) ==
  /\ r.headers \in Seq(Seq(Slots))
  /\ r.upload \in BOOLEAN
  /\ r.pieces \in Seq(Seq(Slots) \ {<<>>})

(***************************************************************************)
(* A response: its header sections (an interim 1xx section may come before *)
(* the final one), each the list of its lines, whether the body is         *)
(* chunked, and the pieces of its body: one chunk each when chunked.       *)
(***************************************************************************)
IsResponse(r) ==
  /\ r.heads \in Seq(Seq(Seq(Slots) \ {<<>>}) \ {<<>>})
  /\ r.chunked \in BOOLEAN
  /\ r.pieces \in Seq(Seq(Slots) \ {<<>>})

(***************************************************************************)
(* A response as HTTP has it: no CR or LF inside a line, interim sections   *)
(* before the one final section, and a chunked body exactly where a         *)
(* Transfer-Encoding line says so.  A first line may still be anything.     *)
(***************************************************************************)
LinesUnbroken(r) ==
  \A h \in DOMAIN r.heads : \A l \in DOMAIN r.heads[h] : \A k \in DOMAIN r.heads[h][l] :
    r.heads[h][l][k] \notin {"CR", "LF"}
InterimFirst(r) ==
  \A h \in DOMAIN r.heads :
    /\ r.heads[h][1][1] = "s1xx" => h < Len(r.heads)
    /\ r.heads[h][1][1] = "s200" => h = Len(r.heads)
CodingTold(r) ==
  r.chunked <=> \E h \in DOMAIN r.heads : \E l \in DOMAIN r.heads[h] : r.heads[h][l][1] = "TE"
WellFormed(r) == r.heads # <<>> /\ LinesUnbroken(r) /\ InterimFirst(r) /\ CodingTold(r)
AllWellFormed == \A r \in Responses : WellFormed(r)

ASSUME RequestsAssumption == \A r \in Requests : IsRequest(r)
ASSUME ResponsesAssumption == \A r \in Responses : IsResponse(r)

CRLF == <<"CR", "LF">>

\* The sizes a chunk may have, how one is written, and what a slot may be
\* read as: any byte that is not a size may happen to be a hexadecimal digit.
Sizes == 0..Len(SizeSlots) - 1
SizeSlot(n) == SizeSlots[n + 1]
SizesOf(slot) ==
  IF \E n \in Sizes : SizeSlot(n) = slot
    THEN {n \in Sizes : SizeSlot(n) = slot}
    ELSE Sizes

\* No two sizes are written alike, and none like the end of a line.
SizesReadable ==
  /\ \A m, n \in Sizes : SizeSlot(m) = SizeSlot(n) => m = n
  /\ \A n \in Sizes : SizeSlot(n) \notin {"CR", "LF"}

\* SizeSlots is long enough for the chunks of the server.
ASSUME ChunksAssumption ==
  \A r \in Responses : r.chunked => \A i \in DOMAIN r.pieces : Len(r.pieces[i]) \in Sizes

Lines(ls) == FlattenSeq([i \in DOMAIN ls |-> ls[i] \o CRLF])

ChunkedBody(pieces) ==
  FlattenSeq([i \in DOMAIN pieces |->
    <<SizeSlot(Len(pieces[i]))>> \o CRLF \o pieces[i] \o CRLF])
  \o <<SizeSlot(0)>> \o CRLF \o CRLF

Payload(r) == FlattenSeq(r.pieces)

-----------------------------------------------------------------------------
(* The request on the wire.                                                *)

ReqLine == <<"line1", "line2">>
HostLine == <<"host1", "host2">>

\* The last header lines khc adds itself, with the empty line after them.
ReqEnd(upload) ==
  IF upload THEN <<"TE", "close">> \o CRLF ELSE <<"CL", "close">> \o CRLF

\* A node of the header list without data has no line.
HeaderText(h) == IF h = <<>> THEN <<>> ELSE h \o CRLF

RequestWire(r) ==
  ReqLine \o HostLine
    \o FlattenSeq([i \in DOMAIN r.headers |-> HeaderText(r.headers[i])])
    \o ReqEnd(r.upload)
    \o (IF r.upload THEN ChunkedBody(r.pieces) ELSE <<>>)

-----------------------------------------------------------------------------
(* The response on the wire.                                               *)

HeadWire(r) == FlattenSeq([i \in DOMAIN r.heads |-> Lines(r.heads[i]) \o CRLF])

ResponseWire(r) ==
  HeadWire(r) \o (IF r.chunked THEN ChunkedBody(r.pieces) ELSE Payload(r))

-----------------------------------------------------------------------------
(* Searching a buffer for the end of a line, as strstr(buff, "\r\n").      *)

CRLFAt(s) == {i \in 1..Len(s) - 1 : s[i] = "CR" /\ s[i + 1] = "LF"}
HasCRLF(s) == CRLFAt(s) # {}
FirstCRLF(s) == CHOOSE i \in CRLFAt(s) : \A j \in CRLFAt(s) : i <= j
LineOf(s) == SubSeq(s, 1, FirstCRLF(s) - 1)
AfterLine(s) == SubSeq(s, FirstCRLF(s) + 2, Len(s))

=============================================================================
