------------------------------- MODULE MCKhc --------------------------------
(***************************************************************************)
(* The messages that the runs of Khc exchange.  With header buffers of     *)
(* five or six slots, a status line and a short header fit and a header of *)
(* five slots does not.                                                    *)
(***************************************************************************)
EXTENDS KhcSession

Get == [headers |-> <<>>, upload |-> FALSE, pieces |-> <<>>]

\* A header list with an empty node in it, and an upload in two pieces.
Upload == [headers |-> <<<<"h1">>, <<>>, <<"h2", "v2">>>>, upload |-> TRUE,
           pieces |-> <<<<"u1", "u2">>, <<"u3">>>>]
EmptyUpload == [headers |-> <<<<>>>>, upload |-> TRUE, pieces |-> <<>>]

Status == <<"s200">>
Plain == <<"ph", "v">>
Long == <<"long", "v", "v", "v", "v">>
TE == <<"TE">>
CL == <<"CL", "v">>

Chunked == [heads |-> <<<<Status, TE, Plain>>>>, chunked |-> TRUE,
            pieces |-> <<<<"b1", "b2", "b3">>, <<"b4">>>>]
Interim == [heads |-> <<<<<<"s1xx">>>>, <<Status, Long, TE>>>>, chunked |-> TRUE,
            pieces |-> <<<<"b1", "b2">>>>]
UntilClose == [heads |-> <<<<Status, CL, Long, Plain>>>>, chunked |-> FALSE,
               pieces |-> <<<<"b1", "b2", "b3">>>>]
NoContent == [heads |-> <<<<Status>>>>, chunked |-> FALSE, pieces |-> <<>>]
Malformed == [heads |-> <<<<<<"junk">>>>>>, chunked |-> FALSE, pieces |-> <<>>]
LongLength == [heads |-> <<<<Status, <<"CL", "v", "v", "v", "v">>>>>>, chunked |-> FALSE,
               pieces |-> <<<<"b1">>>>]

AllSlots == {"CR", "LF", "line1", "line2", "host1", "host2", "TE", "CL", "close",
  "s1xx", "s200", "junk", "ph", "long", "v", "h1", "h2", "v2", "u1", "u2", "u3",
  "b1", "b2", "b3", "b4", "n0", "n1", "n2", "n3"}
FourSizes == <<"n0", "n1", "n2", "n3">>

GetOnly == {Get}
AllRequests == {Get, Upload, EmptyUpload}
NoBody == {NoContent}
AllResponses == {Chunked, Interim, UntilClose, NoContent, Malformed, LongLength}
\* Every response to a plain request, and every request with a plain response.
EveryMessage == ({Get} \X AllResponses) \cup (AllRequests \X {NoContent})
GetNoBody == {<<Get, NoContent>>}

\* The premises of the theorems about what khc makes of a response.
ASSUME EveryResponseWellFormed == AllWellFormed
ASSUME EverySizeReadable == SizesReadable
=============================================================================
