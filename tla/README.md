# A formal model of ebisu

This directory holds TLA+ modules that model the C code of `ebisu` (the HTTP client `khc`, the Kii SDK `kii`, the device
layer `tio`) and of its WICED port, configurations that model-check them with TLC, and proofs for TLAPS.
Paths below are relative to the repository, and within `ebisu/` where that is clear.

    tlc -config KhcSession.cfg MCKhc        # model-check one run (the table below names module and configuration)
    tlapm KhcProofs.tla                     # check the proofs of one module (any of *Proofs)

## 1. Inventory

`tio` runs on a device. An application gives it callbacks for sockets, tasks and time, onboards the device and starts
two tasks: the *handler* keeps an MQTT connection and runs the commands that are pushed, the *updater* uploads the state
now and then. Each has a `kii_t` of its own, with a `khc` inside it for HTTP and a buffer `_rw_buff` for everything.

    application ── callbacks ──┐
      tio handler ── cb_push_received ◄── MQTT push task ── mqtt socket callbacks ── broker
         │  (command parser)                 │ install_push, get_mqtt_endpoint
         └── kii_api_call_* ──► SDK request layer ──► khc ── http socket callbacks ── server
      tio updater ── kii_ti_put_state ──┘      └── jkii (jsmn) reads the answers

| Component | State | Operations | What is hard | What makes it correct |
|---|---|---|---|---|
| khc (`khc/src`) | state, `_result`, two buffers with what was read ahead, `_sent_length`, chunk sizes, connection | `khc_perform`, one handler per state, `khc_reset_except_cb` | partial sends and reads cut anywhere, EAGAIN, failing callbacks, limits of the buffers, read-ahead across handlers | the request on the wire is the one encoding of what was set; `cb_header`/`cb_write` get exactly what was sent; nothing is stored past a buffer; socket and blocks are paired; `khc_perform` returns |
| MQTT push task (`kii/kii_mqtt_task.c`) | `task_state`, `elapsed_time_ms`, fixed header, `_mqtt_buffer`, socket | loop and one handler per state | the byte stream has to stay in step over pieces, timeouts and reconnections; a loop that must end when told to, and never stay silent | messages delivered whole, once, in order; reconnection after any fault; PINGREQ in time; stop honoured |
| SDK request layer and calls (`kii/kii*.c`) | `kii_t`: `_rw_buff`, `_req_headers`, positions, callbacks, `_author` | every function of `kii.h`: path, headers, body, perform, answer | one buffer for six purposes; up to five allocations that may fail; callbacks and author shared by calls | a request is of its own call alone; no header leaks; callbacks put back; author whole |
| tio handler, command parser (`tio/command_parser.c`, `tio.c`) | the started request, two loop indices | `_cb_receive_push`, `_handle_command` | actions run while their report is put together; every error leaves in the middle | actions run in order, once; the report is what they returned; failures are told |
| tio updater (`tio.c:437-559`) | seconds left | timer loop around `kii_ti_put_state` | the boundary of the interval, failing uploads, stop | an interval between an upload and the next, whatever fails; ends when told to; never stops by itself |
| jkii, jsmn (`jkii`) | token array of the `kii_t` or allocated per call, one result per field | look-up by name and path, typed copies | nesting that is walked by counting, keys that need a backslash, widths of numbers, a call that ends in the middle | what is found is what the path means; OK and PARTIAL say so of every field; what is allocated is freed once |
| WICED port (`ebisu_environment_impl.c`) | one packet and its offset per socket | connect, send, recv, close, task create | packets read in several pieces, ends of packets, deletion, contexts used again by the next connection | the bytes received are the bytes sent; no packet used after it is deleted, none deleted twice |
| samples, tests | | | | not part of the system |

`PROJECT.json` lists the hazards of the code line by line, each with the properties that would show it going wrong.

## 2. Modules

| Module | Models | Composes / used by |
|---|---|---|
| `HttpWire` | requests and responses as they are on the wire | Khc* |
| `KhcState` | the variables of `struct khc` and the environment, what every handler does (go to, abort, send a text, receive) | |
| `KhcRequest`, `KhcResponse` | the handlers of `khc_state_impl.c` 171-471 and 473-916 | |
| `Khc` | idle, connect, close, `khc_perform` with the reset before it; the whole state machine | both of the above |
| `HttpSession` | **abstract**: a session begins, transmits, passes on, ends once, with a verdict | |
| `KhcSession` | the refinement mapping from `Khc` | `Khc`, `HttpSession` |
| `KhcProofs` | proofs about `Khc` | `FlattenTheorems` |
| `FlattenTheorems` | lemmas about sequences joined with `FlattenSeq`, and prefixes | `KhcProofs`, `KiiProofs`, `TioProofs` |
| `MqttTask` | the task, the broker and the connection | |
| `PushChannel` | **abstract**: messages are published and delivered, some lost, none twice, out of order or in part | |
| `MqttPush` | `MqttTask` with all that cb_push was given, the refinement mapping from it, and what a fault is | `MqttTask`, `PushChannel` |
| `MqttProofs` | proofs about `MqttTask` and `MqttPush` | |
| `WicedSocket` | connect, the two receive callbacks and close of the WICED port, over packets | |
| `ByteStream` | **abstract**: what is sent on a connection is received in order, each byte once | |
| `WicedProofs` | proofs about `WicedSocket`, the refinement included | both of the above |
| `KiiRequest` | the functions of `kii.h` over the shared `kii_t` | |
| `KiiProofs` | proofs about `KiiRequest` | |
| `TioHandler` | the handler and the command parser on top of the request layer | `KiiRequest` |
| `TioProofs` | proofs about `TioHandler` | `KiiProofs` |
| `TioUpdater` | the updater on top of the request layer | `KiiRequest` |
| `KiiUsers` | the two kinds of user of a `kii_t` that the run `KiiApi` looks at | `TioUpdater` |
| `UpdaterProofs` | proofs about `KiiUsers` | `KiiProofs` |
| `JsonText` | the tokens of a JSON text, what a path means, told by places in the text, and what a JSON text (`IsJson`) and a step of the grammar (`IsStep`) are | |
| `Jkii` | `_jkii_read_object` with `jkii_parse` and `jkii_parse_with_allocator` | `JsonText` |
| `JkiiProofs` | proofs about `Jkii` | `FlattenTheorems` |
| `MC*` | the messages, texts, commands and functions of the runs | |

### khc

*State.* A *slot* stands for a run of bytes that the code never looks into; CR and LF are slots of their own, since the
code searches for them and reads can be cut between them. A buffer and its length are one sequence (`hbuf`, `sbuf`).
`_resp_content_length` and the texts of hosts are left out.

*Actions.* One action per entry of `state_handlers`. A text sent by a handler takes as many steps as `cb_sock_send` likes
(`SendText`), a read returns any prefix of what is left that fits (`Received`), each callback may fail, sockets may answer
AGAIN. `Perform` is `khc_reset_except_cb`, the setters and the call of `khc_perform`; `Return` is its end. The server may
close the connection at any slot (`Cuts`; inside the headers only with `TruncatedHead`).

### MQTT push task

*State.* A byte is `[msg, at]`, its place in a message, so that a byte read for what it is not can be told. Time is the
unsigned `elapsed_time_ms` with range `UIntRange`.

*Actions.* One step is one call of a callback by the handler of the current state with all the handler does until the
next. The environment publishes, answers, loses the connection, stops the task. `LateBytes` allows a receive to time out
with a message half delivered, `ManyPieces` more than two pieces, `EofCode` is what the socket answers at the end of the
connection. A byte taken for a length reads as anything up to a bound, or as the first of up to four; a real length is one
byte here, as in messages shorter than 128 bytes. A packet is sent in one step: the partial sends before change only
`total_sent`, which nobody else sees. What cb_push gets is the message with its topic: where the topic ends is told by
the first two bytes, so what is left of a right message is right.

`MqttPush` adds a history variable: `handed` grows by what cb_push gets at each of its calls and by nothing else, and maps to
the sequence of delivered publications of `PushChannel`. A message that is delivered again is an element more of it, so it is
no stuttering step.

### Request layer

*State.* A header is its name and `_rw_buff` is what was written there last. `nodes` counts allocated list nodes, apart
from the list `kii->_req_headers` itself, so that a leak is a difference between the two.

*Actions.* A function is its steps in its order (`Flow`): path, each header, body. Each step has an action for its
success and for each way it fails, with the clean-up that function does there. `kii_ti_onboard` is two requests.
`kii_api_call_*` is driven step by step by the application. `khc_perform` is one step that ends with any code `Khc` ends
with. Left out: parsing of the etag, hosts, the setters called once after `kii_init`, and two things that cannot
happen (`kii_api_call_append_header` formats into an array that is always large enough; the opening of the results
body always fits, so the wrong variable returned at `command_parser.c:262` has no effect).

### tio handler

A command is a sequence of aliases, an alias a sequence of actions; an element of either is an object, some other value,
or an object that cannot be read. Each call of `cb_action`, each append to the body and each error return is a step; the
request is built with the actions of `KiiRequest` itself.

### tio updater

*State.* `remain` is `interval_remain_sec`. A clock counts what `cb_delay_ms` is asked to wait and what `kii_ti_put_state` takes, any of
`UploadTimes`: `since` and `took` since an upload was due, `apart` and `lasted` between the last two times one was.

*Actions.* The two branches of the loop of `_update_state` (`AskStop`/`Wait`, and `UploadDue` with what follows it); the
upload is `kii_ti_put_state`, made of the actions of `KiiRequest` step by step. `KiiUsers` has either an application or
an updater on a `kii_t`, since `tio.c` gives each its own. The interval is any of 0 to 3 seconds in the run and any number
in the proofs.

### WICED sockets

*State.* A byte is its place on the connection, a packet its place among all packets the server sent. `live` is the set of
packets that WICED handed over and nobody deleted; the context (`packet`, `offset`, `receivedAll`) starts uninitialized
and survives the connection, as in the code.

*Actions.* One step is one call of a callback. How many bytes a receive copies depends on fragments and on the length
asked for: any part of what is left of the packet. `ReceiveRestHttp`, `ReceiveNothing` and `ReceiveRestMqtt` are the three ways
a packet ends in the two callbacks.

### jkii

*State.* A text is its tokens with their places, made by the operators of `JsonText` as jsmn would; names are sequences of
characters because escaping is a matter of characters. `answers` is what the call left in each field.

*Actions.* One step per call of jsmn or the allocator and one per field. Looking up is written as the code does it, by
counting the tokens announced by `size` (`ContainedTokens`), finding members from there (`KeyAt`, `ElementAt`) and comparing keys with
backslashes (`IsSameKey`). A path is walked as the text it is (`ValueByPath`): it is cut at the slashes that have no backslash before
them (`Cuts`), and what is between two cuts is a key or an index in brackets (`Target`, `NumberIn`). The reference (`Meant`) knows
the steps, not their text, and only which text lies inside which. Numbers keep their width: `IntMax`, `DblMax` and,
as it differs between platforms, LONG_MAX as part of a call (`long`), the buffers that are sized by them (`IntBufSize`,
`LongBufSize`, `DoubleBufSize`), and the two errors of a conversion: no room or no number ends the call with INVALID_INPUT, a number out of range is an overflow of its field. What jsmn takes for a number and JSON
does not is among the values (`minus`, `unread`, `junk`).

## 3. Runs

| Run | Module | Shows | Size |
|---|---|---|---|
| `KhcSession` | `MCKhc` | `TypeOK`, `BodyFaithful`, `HeadersFaithful`, `RequestFaithful`, `NoOverflow`, `WrittenWithinChunk`, `ConnectionPaired`, `BuffersSafe`, and under fairness `WholeHeadReturns`, for requests and responses in any pieces, cut anywhere, with failures anywhere; every session is one of `HttpSession` (`ImplementsSession`) | 169,954 states |
| `MqttTask` | `MCMqttTask` | `TypeOK`, `SocketPaired`, `ElapsedBounded`, `StopHonoured`, `KeepsAlive` with late bytes and a message too long | 688,320 |
| `MqttPush` | `MCMqttPush` | `SubscribedWhenReady`, `InStep`, `PushFaithful` for messages that fit; the list of all that cb_push was given has each at most once and in order (`ImplementsChannel`); `Recovers` once faults are over | 26,000 |
| `KiiApi` | `MCKii` | `KiiTypeOK`, `RequestOwn`, `HeadersReachable`, `CallbacksRestored`, `AuthorWhole` over all functions or an updater; `UploadsPaced`, `UploadsGoOn`, `UpdaterStops` | 124,128 |
| `TioHandler` | `MCTio` | `ActionsInOrder`, `ResultsFaithful`, `FailuresTold` over two pushed messages | 3,961 |
| `Wiced` | `MCWiced` | `TypeOK`, `PacketOwned`, `MqttDeletes`, `ImplementsStream`, `Delivers` for both receive callbacks over several connections | 33,732 |
| `Jkii` | `MCJkii` | `FieldsFound`, `FieldsTold`, `VerdictTold`, `ResourceFreed` over tens of thousands of texts and fields, where a long is wider than an int and where it is as wide | 254,482 |
| `KhcTruncated` | `MCKhc` | *violated* `PerformReturns`: the connection ends inside the headers | |
| `MqttTrash` | `MCMqttTask` | *violated* `InStep`: a message too long for the buffer | |
| `MqttPieces` | `MCMqttTask` | *violated* `PushFaithful`: a message in three pieces | |
| `KiiStaleHeaders` | `MCKii` | *violated* `AuthOnlyAsked`: a Content-Type that cannot be set | |
| `WicedEnd` | `MCWiced` | *violated* `NothingAtEnd`: a packet read in two pieces | |

### Bounds, and why they are enough

* khc: a header buffer of seven slots is smaller than the header sections and larger than one header, so that headers are
  read in several rounds, one is skipped, and the body is read ahead; a stream buffer of three slots is smaller than some
  chunks with their size line and larger than others. Chunks lie across the header buffer, across reads and across both.
  Sizes parsed from a malformed line are any of four. Sessions repeat without bound with whatever the session before left
  in the variables that the reset does not clear.
* MQTT: buffer of three bytes, messages of one to four; `MaxUnread` bounds what the broker has sent and the task not
  received. Keep-alive 2 s with a receive timeout of 1 s makes the threshold one round long. The number of faults is not
  bounded.
* Request layer: no bound on the number of calls; `MaxHeaders` bounds the headers an application appends to one. Two things
  tell one identity from another. `GivesUp` is FALSE: nothing in `kii.h` abandons a started call, so the application
  runs it; with TRUE the list stays for the next call (`kii_api_call.c:76-79`). `UploadTypeFails` is FALSE in the passing
  run because that failure breaks it, which `KiiStaleHeaders` shows. Deadlock is not checked in `KiiApi` because the
  updater's task ends.
* Updater: intervals of 0, 1, 2 and 3 seconds are those below, at and above the second at which the loop changes branch, and
  one with two rounds of waiting; an upload takes no time or 2 seconds, which is below, at and above an interval; the number of
  intervals is not bounded.
* Handler: two messages, the second after every end the first can have; commands with two aliases, with an element of
  another kind in the middle, and with an unreadable one after others that were run. Deadlock is not checked in that run
  because the model stops after `MaxPushes`, and in the MQTT runs because the task ends when it is told to.
* WICED: three packets of up to three bytes: one being read, one waiting, one to come, each in up to three pieces, on one
  connection or spread over several that use the context again.
* jkii: texts of up to two members, each again of up to two, so that a look-up passes members with members of their own;
  keys that are a name, contain a slash, look like an index or have a backslash at either end; an array of twelve elements, one with an element
  of its own, with indices of one and two digits below, at and above its end; numbers at and around the three limits and at
  the lengths of the three buffers, with and without a fraction; an array of eight tokens that some texts exceed. Deadlock is not checked because a call returns once.

### What the passing runs rely on

The passing runs leave out situations in which the code does not do what it says; each has a run of its own that shows
it or is described in section 5. `WholeHeadReturns` claims the return of `khc_perform` for complete header sections.
`MqttPush` has messages that fit, in at most two pieces and in time. `KiiApi` has no failing Content-Type of an upload, and
`UpdaterStops` is about intervals of two seconds or more. `FieldsTold` claims of every field that one answered NOT_FOUND is not
in the text and that one answered OK is and fits, and of every int and long that it is the number of the text or the bound this
exceeds; but not that an int clipped to a long no wider is an overflow, which the code does not tell (section 5, `jkii.c:400`).
`MqttDeletes` is about one of the two receive callbacks. The stream buffers of the khc runs can take over what the header buffer has left.

### Fairness

`Khc!FairSpec` is weak fairness of *(handler or return)*: `khc_perform` is a loop without waiting, so as long as callbacks
return some handler runs. Nothing is assumed of the server: it may close the connection, and a read then returns
nothing. AGAIN is answered finitely often in a row.
`MqttTask!FairSpec` is weak fairness of the task, whose loop does not wait either, and of a broker that has a request to
answer; nothing is assumed of publications, of the connection or of the application. `Recovers` states its own premise,
that faults are over at some time (`<>[][~FaultStep]_vars`): it is claimed after the last of any finite number of them.
`KiiUsers!UsersFairSpec` is weak fairness of the updater's task: a loop whose callbacks, `cb_delay_ms` among them, return.
The server answers what it likes, and the application decides whether and when it wants the task to end.
`WicedSocket!FairSpec` is weak fairness of receiving: khc and the push task call the receive callback again as long as the
connection is open. Nothing is assumed of the server.
The handler and jkii have no liveness properties: they are sequential code around calls that return.

## 4. Proofs

Every module of proofs shows inductive invariants, step by step, and derives the theorems from them. Each holds for every
value of the constants; the runs above show the same properties on small instances, where the strengthenings were tried
first. Where a theorem has a premise it is named here, with the run that shows what happens without it.

`FlattenTheorems` has what the other modules need of sequences that are joined: `FlattenSeq` of the community modules is
defined by recursion on a length, so its value is derived by an induction that rests on the well-foundedness of `<`
(`SetInduction`), which needs no operator for a parameter. From there: the type of a join (`FlattenType`), one element more
(`FlattenAppend`, `FlattenUpto`), and that parts in order make a prefix (`FlattenPrefix`).

`KhcProofs` (for every set of messages, every size of the buffers and the heap): `TypeCorrect`, `BuffersNeverOverflow`,
`ChunkNeverOverrun`, `ConnectionAlwaysPaired`, `BuffersAlwaysSafe`, all from `Inductive`. Types alone are not inductive:
that a header's room or the rest of a chunk is not negative depends on where in the header list and in the chunk the
handlers stand. `IInv` adds two such facts, `RequestPlace` (the handler that sends the n-th header has one) and
`NotYetConnected` (nothing is open and nothing read before the connection), and the step lemmas go state by state.
`RequestAlwaysFaithful` has an invariant of its own, `RequestOut`: in each of the ten states of sending it says what is out,
as the parts of the request that come before the current header or chunk and the first `sentLength` slots of the text that
is being sent. It is inductive together with `IInv`, whose `RequestPlace` says that there is a current header or chunk.
`HeadersAlwaysFaithful` rests on `HeadInv`: in each state that reads the head, what is in the header buffer and on the wire goes on
at a line of a section, and cb_header has had what fits of the lines before. Two states need more. While a line is skipped
(`Skipping`) the buffer goes on inside that line, after a CR perhaps that the handler kept and that was not half of its end;
and a line of which something has been dropped already is not a Transfer-Encoding line, because the handler refuses such a
line while its first slot is still in the buffer. The premise `AllWellFormed` is about the server: no CR or LF inside a
line, interim sections before the final one, and a chunked body exactly where a Transfer-Encoding line says so; the run
`KhcSession` evaluates it for its messages (`EveryResponseWellFormed`), among them a response that is not HTTP at all, for the first
line may be anything.
`BodyFaithfulInOrder` follows the bytes on through the body with `BodyInv`. What is unread is the stream buffer, the header
buffer and the wire, in this order, and in each state it goes on at a place of the body: in a body that is not chunked
after what cb_write has had (`PlainIn`), at a size line (`SizeIn`), inside the data of the i-th chunk (`PieceIn`), or at the
CRLF after it (`PieceEndIn`). One place is not exact: where only the CR of a CRLF could be read, the size line is looked
for from its LF on, which `strtol` passes over; `AtChunk` allows for it. `SizesReadable` says that the encoding of the model tells
sizes apart; the run evaluates it as well (`EverySizeReadable`). That the handler which skips a CRLF reads it where it is, is a premise, `SkipsInOrder`: it reads the socket even
if older bytes wait in the header buffer (section 5, `khc_state_impl.c:862`). `BodyAlwaysFaithful` derives it
from `StreamBuffSize >= RespHeaderBuffSize - 1`: all that the header buffer can hold is then moved at once, before the first size
line is looked for (`HeaderUsedFirst`). The default sizes, 1024 and 256 (`khc_state_impl.h:11-12`), are like that; with a smaller
stream buffer the theorem holds of every behaviour in which the case does not arise.

`ImplementsSessionInOrder` and `KhcImplementsSession` are the refinement of `HttpSession`, under the same premises: `SessionStep` maps each
step to one of the session, or to none. A step that sends grows `sent` along the request and one that reads grows `body`
along the payload (`OutGrows`, `GotGrows`); that a verdict of success is given at the right moment needs one invariant more,
`ClosedWell`. The instance brings its own copies of the operators that join texts; `SameTexts` says that they are the same.

Four assumptions on the constants are about the messages: that they are sequences of slots, that `cb_read` respects the
buffer it fills, and that there is a size line for every chunk.

`KiiProofs` (for every choice of functions and things): `KiiTypeCorrect`, `CallbacksAlwaysRestored`, `AuthorAlwaysWhole`
from `KiiInductive`, and `HeadersAlwaysReachable` from it together with `PathFirst`. The invariant has the types, the
fact that the list is what is allocated, and the place: a function that still has its path to write has allocated no
header, which is why the functions that return there without freeing the list leak nothing. That rests on
`StepsShape`: in each of the functions the path comes first and only once. `RequestAlwaysOwn` adds `OwnPlace`: while a function
builds its request, the list has the headers of the steps behind it, in their order, and the path and `_rw_buff` are as
those steps left them; `StepsBodyLast` (nothing overwrites the buffer after the body has been put there) is what makes the
buffer right when khc reads it. Both assume that the application ends the calls it starts and that the Content-Type of a
body can be set; `KiiStaleHeaders` shows the second premise is needed.

`UpdaterProofs` and `TioProofs` take the invariant of the request layer over to its two other users: `CallBegins` says that any
call may be begun, and each step of the updater or the handler that touches the layer is one of its steps. For the updater,
`Pacing` (what has passed and what remains make an interval and the duration of the upload) gives `UploadsAlwaysPaced` for every
interval, 0 and 1 included, and all durations: the task waits one interval from the return of an upload, and does not make up for
the time that one takes (section 5, `tio.c:457`).
`UsersReachHeaders` says that no sequence of failing uploads leaks. The handler abandons requests, which is no step of the layer:
`AbandonedLayer` shows that it disturbs only the headers. `HandlerPlace` (which part of the handler has a request open) gives
`FailuresAlwaysTold`, and `ResultsFollow` (the body has the result of every call but the one just made) gives `CallsAlwaysReported`.
`ActionsDone` says that the calls made are the actions of the command up to the two loop indices; with it `ActionsAlwaysInOrder`
and `ResultsAlwaysFaithful` hold for commands with any number of aliases and actions, objects or not. The one assumption is that
a command has an array of aliases and each of its objects an array of actions (`CommandsAssumption`).

`MqttProofs` (for every buffer, timeout, keep-alive interval, sequence of messages, and kind of socket): `TaskTypeCorrect`,
`SocketAlwaysPaired`, `ElapsedAlwaysBounded`, `PiecesStoredInside`, from `TaskInductive`. `Place` says which handlers make which call and
how much they may read: without it a byte could be read in a state that has no socket. `Timed` bounds the clock in three
steps along a round, since the bound at its end is only kept by the check at its beginning; `NoWrap` then makes the
unsigned addition an addition. `PiecesStoredInside` says of the misplaced pieces (section 5) that they end inside the buffer.
What the task reads is the subject of a second invariant, `PushIInv`: what is unread is whole messages, after the rest of the one
that is being read, and which part of it has been read depends on the state; the messages on their way come after
those delivered, in the order of publication. It holds under `Fits`: messages fit in the buffer, no receive times out in the
middle of one, and none is read in more than two pieces. `AlwaysSubscribed`, `AlwaysInStep` and `AlwaysPushFaithful` (what
cb_push gets is a whole message) follow, for any number of messages and faults. That it gets each at most once and in order is
the refinement `PushImplementsChannel`, of `PushSpec`: `HandedInv` relates the sequence `handed` of all that cb_push was given to
what the task remembers, its last element, and `MessagePushed` says that a call of cb_push adds a later publication than that.
The premise is exactly what `MqttTrash` and
`MqttPieces` violate: each drops one part of it and finds the property broken.

`WicedProofs` (for every number and size of packets): `PacketAlwaysOwned`, `MqttAlwaysDeletes`, and the refinement
`SocketIsStream`. The invariant relates the bytes received to the packet being read: they end where the offset stands, and
the packets that follow start where the one before ends.

`JkiiProofs` (for every set of calls and size of the token array): `ResourceAlwaysFreed`, `VerdictAlwaysTold`, `JkiiTypeCorrect`. The
invariant says which fields have been answered and that the verdict is PARTIAL as soon as one of them is not OK.
`FieldsAlwaysFound` and `FieldsAlwaysTold` say what the answers are, for JSON texts nested to any depth, keys in which no backslash
stands before a `/`, `[` or `]`, indices and numbers of any length, paths of any number of steps, and any width of int and
long. `FoundInductive` is short: an answer is that
of `AnswerTo` to the field at its place. The rest is about the operators.
`TokensCounted` shows that `ContainedTokens` counts the tokens of a value: of the tokens after the first, those whose parent has come
are the ones announced (`CountedBySize`), and these run ahead of those that have come until the last token of the value
(`CountedByLater`, `LeftCounted`). Members are then counted by rank: `ElementFound` and `KeyFound` are inductions over the members passed, each of
which ends where the next one begins (`NextChild`). `SameKey`: a key of a path, whatever
backslashes it has or gets when it is written, is matched by itself and by no other key of the text. `NumberOfDecimal`: an index is read back as it was written. `CutsOfSteps`: the cuts of a written path are where its steps begin,
so `PathFound`: the walk arrives where the steps lead. For the conversions, `DecimalGrows` and `DecimalOfNext` bound lengths by values: every
int has room in the buffer that is sized by INT_MAX, and nothing that has no room is an int (`BufferSizes`, `WidthOfRange`).
The inductions are over subsets of the naturals (`SetInduction`) and over recursive functions, whose definitions are shown
to have a value first (`MeantDefined`, `LeftDefined`, `WalkDefined`, and the like).
What is assumed is `TextsAssumption`, of jsmn and of the caller, and `JkiiAssumption`: the tokens of an accepted text nest, sizes
are the numbers of members, keys are strings in which no backslash stands before a special character (`Legible`); a field is one
of the grammar at `jkii.h:185`, with indices that `strtol` can read and no backslash at the end of a key that a further step follows
(`IsPath`); a name is not looked up in an array of two elements or more that begins with a string (`TakenForObject`). What the code does with the
others is in section 5 (`jkii.c:497`, 557, 115). TLC evaluates the assumptions for every text and field of the runs.

Only model-checked: `StopHonoured`, `KeepsAlive`, `Recovers`, `UploadsGoOn`, `UpdaterStops`, `WholeHeadReturns` and `Delivers`, which are
liveness. Every invariant, action property and refinement that a passing run checks is stated by a theorem.

## 5. Disagreements between the code and what it says

With a run:

* `khc_state_impl.c:580`: a connection that ends inside the header section makes two states alternate for ever;
  `khc.h:346` "This method blocks until the HTTP session ends." (`KhcTruncated`)
* `kii_mqtt_task.c:229`: the bytes of a message that is too long are read in whole pieces of 256, past its end
  (`MqttTrash`); the comment at 217-218 says "so that the loop can wait for next message."
* `kii_mqtt_task.c:253`: from the third piece on, a message is put together at the wrong place (`MqttPieces`).
* `kii_object_impl.c:276`: the one error path that does not free the headers; they are sent with the next request
  (`KiiStaleHeaders`).
* `ebisu_environment_impl.c:76-82`: a packet read in several pieces is followed by a read of 0 bytes, which for khc is the end
  of the response: `khc_socket_callback.h:62` "called repeatedly in the HTTP session untill out_actual_length value is set
  to 0" (`WicedEnd`).

Observed while modelling, without a run:

* `tio.c:457`: the interval starts at the return of an upload, so the time between two updates is longer than the "Interval in
  seconds." of `tio.h:877` by what the upload takes (`UploadsPaced` says by how much).
* `tio.c:443`: with an interval of 1 or 0 the updater never asks whether to continue; `tio.h:745` "Otherwise the task exits the
  infinite loop".
* `khc_state_impl.c:862`: the CRLF after a chunk is read from the socket even if the header buffer still has bytes, so
  with a stream buffer that only holds a size line, as `khc.h:417` asks for, bytes of a later chunk can be dropped.
* `khc_state_impl.c:114-147,160`: buffers that khc allocated stay allocated when the second allocation or the connection
  fails, until some later session ends (`khc.h:390,412` say when they are freed).
* `khc_state_impl.c:473-501`: a status line that arrives in two pieces ends the session with `TOO_LARGE_DATA`.
* `kii_mqtt_task.c:460,488`: PINGREQ is sent up to one round after the interval of `kii.h:553`, and with keep-alive 0,
  which should turn it off (`kii.h:552`), all the time.
* `kii_mqtt_task.c:245-268`: with a socket that answers OK and 0 bytes at its end, as `sock_cb_linux.c:142` does, the
  receiving loop never ends, and the application is not asked again (`tio.h:434`).
* `kii_mqtt_task.c:196-203`: a timeout between the two bytes of a fixed header drops the first of them.
* `kii_api_call.c:76-79`, `command_parser.c:409-419`: an append that fails for want of memory and an error in the middle of a command leave the
  headers of the started request; the next request carries them as well, and nothing in `kii.h` ends it otherwise.
* `command_parser.c:285-300`: an error message longer than its buffer of 128 bytes loses the whole report, although
  `tio.h` says the error is recorded in the cloud. The HTTP status of the report is not looked at.
* `command_parser.c:40-41`: an element that is not an object ends its array; actions after it are not run and the report
  says nothing of them.
* `kii_ti_impl.c:387,401`: a path of more than 256 bytes and a Content-Encoding that cannot be set are left out silently.
* `kii_push.c:254`: the result of creating the task is dropped.
* `kii.h:637` declares `kii_ti_put_thing_type`, which is not defined.
* `ebisu_environment_impl.c:93-98`: the HTTP callback never deletes a packet that it reads in one piece.
* `ebisu_environment_impl.c:176`: the arguments of every task are copied to the same static variable; a task that starts late
  can find those of the next one.
* `jkii.c:400`: the conversion to int looks at the value the conversion to long leaves and not at what it says: where a long
  is as wide as an int, a number that does not fit is OK with the limit as its value; `jkii.h:98-103` has "value is overflowed." for
  it. `FieldsTold` says that the value is the limit, and leaves out this OK (`Clipped`).
* `jkii.c:200`: a number of more than 311 characters is no number of any kind, and the call ends with `INVALID_INPUT`;
  `jkii.h:75` "Passed string is not JSON string." One of exactly 311 characters is a double that is refused (428).
* `jkii.c:557`: keys are compared with the text as it is, not with what it says: the path for the key `"[]/\\"` at `jkii.h:218-221`
  does not find it.
* `jkii.c:497-503`: a slash counts as quoted by a backslash before it even if that backslash ends the key, so a key that ends in
  one cannot be followed by a further step.
* `jkii.c:812`: a number asked for as ANY that has the length of an int but not its range is answered NUM_OVERFLOW.
* `jkii.c:848`: a value that cannot be converted at all ends the call; later fields keep what an earlier call left in them.
* `jkii.c:115`: the check that a name is looked up in an object has `&&` for `||`, so an array of two or more elements passes.
* `jkii.c:440-448`: `strtod` also says ERANGE of a number that is too small, which is answered NUM_OVERFLOW.
* `jkii.h:63-70` names an error for a root of the wrong type that is never returned.

## 6. Plan

Done, in this order, the core first: `HttpWire`, `KhcState`, `KhcRequest`, `KhcResponse`, `Khc`, `HttpSession`,
`KhcSession`, `KhcProofs`; `MqttTask`, `PushChannel`, `MqttPush`; `KiiRequest`, `KiiProofs`; `TioHandler`; `WicedSocket`, `ByteStream`,
`WicedProofs`; `TioUpdater`, `KiiUsers`, `UpdaterProofs`; `JsonText`, `Jkii`, `JkiiProofs`; `MqttProofs`; `TioProofs`; `FlattenTheorems`.

What could follow: `install_push` and `get_mqtt_endpoint` of the push task composed with `KiiRequest` on the handler's `kii_t`;
an abstract specification of a command (run in order, reported once or told) that `TioHandler` implements; the command
parser on the texts of `JsonText`.

## 7. Not modelled

* jsmn is third-party: `Jkii` takes the tokens it makes of JSON texts and its three failures as input. Texts that are not
  JSON but pass jsmn are left out of `Jkii`, except for what jsmn takes for a number, and so are names looked up in an array of two
  elements or more that begins with a string, keys of the text with a backslash before a `/`, `[` or `]` (JSON may write `\/` for
  a slash), paths that are not of the grammar at `jkii.h:185` or have a backslash at the end of a key before a further step, indices beyond LONG_MAX,
  and that the largest double is reached by rounding. So are `jkii_parse_primitive` and `jkii_escape_str`, which keep no state.
* Of the WICED port: sending and the delay, one call of the platform each, and the creation of tasks.
* The setters, called once before a task is started or a function is called.
* The samples and tests are not part of the system; the Linux sample's socket callbacks are behaviours the environments of
  the models have.
* The lifetime of C objects (`ebisu_sample.c:132`: a task outlives the stack it uses), two threads in one `kii_t`, and the
  uninitialised token read for an empty object (`command_parser.c:66`) are hazards no model here reaches; `PROJECT.json`
  says so at each.
