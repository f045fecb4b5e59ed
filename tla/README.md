# A verification project for COS_GS

COS_GS is the ground station of a CubeSat mission: it receives the satellite's
telemetry from an Expedite ground modem, assembles the images it sends, stores
beacons in a database, shows them in a web page, and sends telecommands. This
directory holds TLA+ models of its core logic, the TLC configurations that check
them, and proofs checked by TLAPS.

Contents: [the system](#the-system) · [modules](#the-modules-and-the-code) ·
[runs](#what-the-runs-check) · [proofs](#what-is-proved) ·
[disagreements found](#disagreements-between-the-code-and-its-comments) ·
[not modelled](#what-is-not-modelled) · [what could follow](#what-could-follow)

## The system

```
 satellite ~~radio~~> Expedite modem --TCP 2001--> ServerSGS (back/sgs)
                            ^                        |  receive thread: SendRecv
                            |                        |    TelemetryHandler -> Bitstream -> data/image
                            |                        |                     -> BeaconHandler -> data/beacon, MySQL
                            +------- TCP (TC) -------+  WebSocket thread: MakeTCData
                                                     ^
 browser (front: command page) --WS--> relay (server.js) --WS--+
 browser (front: telemetry page) --HTTP--> API routes --> MySQL
```

What is alive is `back/sgs` (the program `ServerSGS`: the libraries `utl`, `ifc`,
`dcs`, `ros` and `main.cpp`) and `front/` (a Next.js application). `tc/` and
`virtualGS/` are test tools and simulators. `back/src`, `back/sgs/ncs`,
`back/sgs/gts`, `BackupData` and `front/scl` are older programs and copies that
no build includes; `back/lib` is third-party code.

| component | state it keeps | operations | talks to |
|---|---|---|---|
| **SendRecv** (`ros/src/sendrecv.cpp`), one thread | socket, `acc` (bytes of this connection), the flag `run` | `start_recv_tcp`: connect, collect, process, close, retry | modem (TCP), TelemetryHandler, image assembly |
| **TelemetryHandler** (`ros/src/telemetry.cpp`) | positions in the buffer | `parse_stream`, `dispatch_payload` | Bitstream, beacon and report handlers |
| **Bitstream** (`ros/src/bitstream.cpp`), the global `g_bitstream` | accumulator, saved flag, open `.part` file, two paths; the image directory | `push_ccsds_fragment`, `save_final`, `clear`; `start_new`, `append`, `finish`, `abort` | file system, clock |
| **image assembly** (`ros/src/image_extract.cpp`) | `started`, `assembled`, `seq_seen` | `assemble_image_from_acc` | Bitstream |
| **BeaconHandler** (`ros/src/beacon.cpp`) | a MySQL connection | `Save2File`, `Save2DB` | MySQL, shared with `/api/ingest` |
| **fswcmd** (`ros/src/fswcmd.cpp`) | none | `MakeTCData`: pack, encapsulate, send | modem (TCP) |
| **WebSocket client** (`utl/src/ws.cpp`) | handlers by name, connection | `Connect` (once), `ReadMessage`, `Stop` | relay; calls `MakeTCData` on its own thread |
| **relay** (`front/app/api/server.js`) | the connected clients | broadcast | command page, WebSocket client |
| **command page** (`front/app/dashboard/command`) | selection, parameters, values, history, a reference to the row that waits | select, fetch metadata, pick a row, send, log | relay, API routes |
| **telemetry page** (`front/app/dashboard/telemetry`) | table | poll every two seconds | API routes |
| **API routes** (`front/app/api`) | MySQL | `ingest`, `beacon`, `tc-log`, `cmdmeta` | MySQL |
| **device control** (`dcs`) | run flag, command buffer | amplifier on/off with a safety thread, switch, rotator | serial ports; linked, but never called by `ServerSGS` |

What makes this hard to get right:

- the bytes come from a radio link: frames are lost, truncated, or split by TCP
  and by a two-second receive timeout; every count is an unsigned difference;
- one global object, `g_bitstream`, is used in two different ways for the same
  images, its file names have a resolution of one second, and the result of
  nearly every call on it is ignored;
- the process may be killed between any two calls, and files are the only state
  that survives;
- the receive thread must stop on a signal, but blocks in `recv` and `connect`;
- commands and telemetry pass through processes that share only a broadcast and
  a database without transactions.

`PROJECT.json` lists every such hazard at its line, with the properties that
cover it, or the reason why none does.

## The modules and the code

| module | models | composed of |
|---|---|---|
| `Bitstream` | the class, its directory, failing calls, kills | |
| `ImageFeed` | abstract: what the image path promises | |
| `ImageDownlink` | lossy link + image branch of `dispatch_payload` + the object | `Bitstream`; implements `ImageFeed` |
| `TelemetryHandler` | `parse_stream` and `dispatch_payload` over byte positions | |
| `ImageExtract` | `assemble_image_from_acc` on the shared object | `Bitstream` |
| `FrameFeed` | abstract: what the receiving side promises | |
| `SendRecv` | the receive thread, the server, the connection, the signal | implements `FrameFeed` |
| `CommandFeed` | abstract: what the way of a command to the modem promises | |
| `CommandUplink` | the page's WebSocket, the relay, any number of stations with their WebSocket threads | implements `CommandFeed` |
| `CommandForm` | the command page with the routes `cmdmeta` and `tc-log` | |
| `TcFrame` | the frame `MakeTCData` builds, and how it is read | |
| `TelemetryStore` | `Save2DB`, the ingest route, the tables, the polling page with the beacon route | |
| `*Proofs` | theorems about the module they extend | |
| `MC*` | constants for TLC | |

A definition whose name ends in `Mutant` is not part of a model. It is a plausible
mistake in the operation defined after it; exchanging the two must make a named
property fail, which shows that the property depends on the code.

**Bitstream.** `streamAcc`, `savedFinal`, `ofs`, `tmpPath`, `finalPath` are the
members of the same (C++) names. A path is the second it is named after, so that
two files of the same second are the same file, as in the code. A file holds a
sequence of fragments. The constant `Faults` says which file-system calls may
fail; a failing write leaves a prefix. There is one action per method. `Crash` is a
kill: the object is new, the directory stays, and the open file keeps what had left
its buffer. `save_final` and the copying in `finish` are one step when they
complete; being killed in their middle is part of `Crash`.

**ImageDownlink.** The satellite's packets in order; `Arrive` takes the next few as
one payload, `Miss` loses one. `Push`, `Save` and `ClearAll` are the calls of
the image branch in their order, so a kill and the clock come between them.
`lost` and `published` are history variables.

**TelemetryHandler.** Nothing is known about the bytes: a preamble, a length or a
message id is chosen when the position is reached. The model keeps the loops,
conditions and position arithmetic, in unbounded integers; that the differences
never become negative (`TypeOK`) is what makes the code's unsigned ones mean the
same. `handled` records the last stretch given to a decoder.

**ImageExtract.** One step per call on the object. A packet is its APID class,
sequence flags and count, and whether data is left after the secondary header. The report's gaps are
computed as in the code: the counts are sorted (`Sorted`), and two neighbours are the bounds of an inner
loop over unsigned numbers of 16 bits (`Between`).

**SendRecv.** The server sends units, frames and bare beacons, each in two pieces that TCP
may separate, cut anywhere: the length of a piece is not known. `recv` returns any part of
what has arrived; a timeout may come at any time something has been collected.
`parse_stream` is walked one piece at a time. When it finds no frame, the code decodes what
was collected as a beacon if it has the length of one (`BeaconByLength`). A bare beacon
alone has it; other bytes without a whole beacon or frame may have it (`MayPassForBeacon`), and are
then decoded as a beacon nobody sent, which `misread` records.

**CommandUplink.** Commands are numbered as they are sent. A page connects once, when
it is loaded, and so does a station; neither tries again, as in the code. `uplink`
is what each visit's connection carries, `inbox` what the relay has sent to a
station, `busy` the command its handler works on in the WebSocket thread, which
waits for the modem meanwhile. The relay and stations may stop and start again,
connections may break, the page may be reloaded. `MakeTCData` transmits or
prints a line; `MakeTCDataThrows` is the `stoi` that ends the process.

**CommandForm.** One action is one event handler together with the effects React runs
for the state it set. `shown` and `filled` say to which command the parameters and
the values in the form belong. The answers of `cmdmeta` come in any order, fail,
or never come; `live` is the request of the current effect, `stale` those of
effects that were cleaned up. `phase` is the place in `handleSendCommand`, which
awaits three requests.

**TcFrame.** The layers of `MakeTCData` as operators, over byte values: what the readers `to_u64`,
`to_i64` and `to_bool1` make of a JSON number, text or boolean, parameters,
CCSDS header with its checksum, CSP header and CRC, modem frame. A CRC is represented
by what it is computed over; the CCSDS checksum, an exclusive or of bytes, is computed bit by bit, as
the parity of the bytes that have the bit. Fields that are too small for what they are given
(`(uint16_t)msgid`, the CSP fields, the length byte, the 16-bit count of the checksum) wrap as in the
code. This is the one module without interleavings: a state is a command and its frame. Its
`TCInit`, `TCNext` and `TCSpec` have names of their own so that one proof module can extend it together
with `CommandUplink`.

**TelemetryStore.** Each SQL statement is a step. The three tables of names are one tree of
rows of three levels; a row refers to its parent by its id, and so does a value to its
definition. The queries match a row's code or its label; both programs insert a name as both, so
the model has one name. A `SELECT` finds a row of the name, none, or fails; an `INSERT` succeeds or fails.
The page may have several requests on their way, answered in any order.

## What the runs check

| run | question | states | properties |
|---|---|---|---|
| `bitstream` | every order of the object's calls, kills, three failing calls | 113,000 | `OpenHasPart`, `NoOrphanPart`, `ClosingPublishesWhole` |
| `downlink` | three images through losses, failed files and kills | 2,800 | `DamageConfined`, `NextImagePrepared`, `ClearedIsSaved`, `LastLeavesAccumulator`, `ImplementsFeed` |
| `telemetry` | every buffer of up to three frames | 40,700 | `RemIsTheRest`, `ReadsOwnPayload`, `NoByteTwice`, `Returns` |
| `extract` | any three packets with any of three counts, four failing calls, kills | 1,650,000 | `ClosedAtReturn`, `LastEndsFile`, `AssembledIsRecorded`, `StartedIsOpen`, `ReportNamesGaps` |
| `session` | four units through an unreliable connection | 275,000 | `WholeFramesDecoded`, `ImplementsFeed`, `StopsOrIdles`, `KeepsTrying` |
| `command_form` | three commands, answers in any order, two sends, a reload | 531,500 | `ShownIsSelected`, `RowFillsItsCommand`, `LogTells` |
| `command_uplink` | two stations, two commands, two visits, two faults | 70,200 | `ImplementsFeed`, `CommandsMoveOn` |
| `tc_frame` | 4,336 commands with values at and beyond the bounds of their types and fields | 8,672 | `ParametersReadBack`, `HeadersAgree` |
| `telemetry_store` | a beacon and an ingest request that write the same name, and the page | 321,800 | `ValuesInPlace`, `OneRowPerName`, `StoresPrefix`, `PageCatchesUp` |

Each passing run but `tc_frame` also checks its module's type invariant. What they show, in words:

- *Bitstream*: a stream is open exactly while its path is set, and its `.part` file
  exists; no order of calls leaves a `.part` file nobody owns; closing publishes
  all that was accepted, under the name chosen at the start, or nothing.
- *Image path*: losing a packet damages the image it belongs to, and only the loss
  of a last packet reaches the next image; data leaves the accumulator only into
  a file, unless a call failed or the process was killed. A failed `save_final`
  does lose the image, because the caller clears in any case: the properties name
  that exception.
- *Parser*: no difference wraps round, a decoder is never given a byte of the frame
  header, the trailer or another frame, no byte is decoded twice, and the call
  returns whatever the bytes are.
- *Assembly*: the shared object is closed when the call returns; nothing follows an
  image's last packet in its file; the report's gaps are exact.
- *Session*: no reconnection decodes anything twice or out of order; a whole frame
  received is decoded; the thread goes on trying. A beacon that nobody sent may be decoded, when
  what is left of frames has the length of one; the units its bytes come from are not decoded themselves,
  before or after. A signal ends the thread *unless* it waits on an idle connection: the loop
  around `recv` does not look at `run`, and `main` waits in `join`. A server that sends for
  ever without a pause of two seconds keeps it in the same loop (`sendrecv.cpp:271-279`); the
  model's stream is finite, so the run does not show this second case.
- *Uplink*: a station gives a command to the modem at most once, and those of one visit of
  the page in the order sent. Two visits may overtake one another; two stations
  both send; with none connected the command is lost. Nothing gets stuck: a command
  that has reached a station's process is worked off unless the connection breaks or
  the process ends.
- *Form*: late answers never bring back the parameters of a command no longer selected; after
  a row of the history of another command was picked, the values put in are that row's (a row of the
  command already selected puts nothing in: the effect that would does not run again, and
  the row goes on waiting); every row of the log is a command that was handed to the WebSocket.
- *Frame*: what is read back from a frame are the parameters it was built of, except that
  fractions are cut off, and that a text below zero given for an unsigned type is counted down from
  2^64 (`stoull`), so that one far enough below fits the type; the headers give back their
  fields (as many bits of them as the frame has), and the lengths agree with what follows, except
  where the length byte of an inner command wraps (payloads of 255 bytes and more) or
  is fixed by the code (message 6262, command 2). The checksum makes all bytes cancel out in packets of
  less than 65,536 bytes; in longer ones, which a `str` parameter can make, the code's 16-bit
  count covers only a part of them.
- *Store*: values are stored under the names they were sent with, a call stores a prefix of
  what it was given and reports success only for all of it, a name has two rows only if
  two calls overlapped or a `SELECT` failed, and the page comes to show the newest
  values although its requests overlap.

**Bounds.** Two seconds are enough to tell "the same name" from "a later name".
Two fragments tell a prefix from the whole and one fragment from another. Three
images of 2, 1 and 2 packets are the fewest that have a neighbour on both sides
and an image that is a single last packet. In `telemetry` the sizes keep the order
they have in the code (CSP header and tail < secondary header < image data < beacon
< report), so that every comparison goes both ways; the run `telemetry_tail` uses
the code's own sizes. Three packets give a file that is opened, written and followed by another; of the
counts 0, 2 and 5 each two have a gap between them, and all three have two. Units `frame, frame, bare, frame`, each of which may arrive in part, give a
partial frame before and after a whole one, a beacon alone, in company and in part, and mixtures
of both without a whole one. Two
visits, two commands and two stations are enough for one to overtake the other; two
faults for a restart and a second failure. Of the three commands of `command_form` two
share a parameter name, so that a row's values fit the wrong form, and one has
none. The beacon of `telemetry_store` has two applications and a group of two
values, the request writes one of the same names: they meet at every level of the tree.
The `MaxSends`, `MaxVisits`, `MaxFaults`, `MaxPolls`, `MaxCalls` and `MaxPackets` bounds are guards of the
actions they count. The commands of `tc_frame` have up to two parameters, each
value at, below and above the bounds of its type, as number and as text and with fractions, `ULong` 2^17
instead of 2^64 (any number above 2^16 tells the same),  payloads of 254 bytes and more for the length
byte, and one string of 65,540 bytes for the count of the checksum. The proofs hold for
every value of all of these.

**Deadlock.** Runs other than `bitstream` end for a good reason: the downlink is
used up, the call has returned, the thread has stopped, or the commands and faults of
the instance are used up.

**Fairness.** `WF(Dispatch)` in `ImageDownlink` and `WF(Next)` in
`TelemetryHandler`: the code between two packets is a loop without waiting.
`WF(Receiver)` in `SendRecv`: every system call of the thread returns, `connect`
after at most five seconds and `recv` after two. Nothing is assumed of the server,
the network, the clock or the user. `ConnectFails` may happen for ever.
`WF(RelayForwards(v))` and `WF(Station(s))` in `CommandUplink`: the relay's event loop
handles every message it has received, and the WebSocket thread reads on and ends each call of the
handler (a TCP connect is given up by the system). Nothing is assumed of the operator,
of restarts, or of broken connections. `WF(Step(c))` and `WF(Load)` in `TelemetryStore`: a call
goes on to its next statement, and the page's timer fires. `SF(Answer(1))`: polling for ever, the page is
answered again and again while requests overtake and fail; without it every answer could be
lost, which only a dead server explains.

## What is proved

All proofs are for every value of the constants, from the named assumptions in the
modules: bounds are natural numbers, `NoFile`, `NoPath` and `NaN` are none of the values they are told
apart from, `ULong` is greater than 2^16, sequence counts have 14 bits, and the satellite sends its images one after the other, each
with one last packet (`ImagesInTurn`).

The abstract modules state what they are for, and a theorem carries it over the refinement: `OnceInOrder` of
`FrameFeed` (`DecodesOnceInOrder`) and of `CommandFeed` (`TransmitsOnceInOrder`), `OneImageEach` of
`ImageFeed` (`DeliversOneImageEach`).

- `BitstreamProofs`: `TypeOK`, `OpenHasPart`, `NoOrphanPart`,
  `ClosingPublishesWhole`. The inductive invariant is `TypeOK /\ OpenHasPart`;
  neither is inductive alone, because what `finish` writes depends on the path it
  remembers. The two action properties follow from it, one case per operation.
- `ImageDownlinkProofs`: under the assumption that no payload holds the last packets
  of two images (`~MixedPayloads`; the run `downlink_mixed` shows it is needed),
  `NextImagePrepared` and the refinement `ImplementsFeed`. The invariant carries
  two more facts: after the last-flagged packet was pushed no other follows in the
  payload, so `saved_once` skips no save; and `saved_final_` is down whenever
  `save_final` is called, so the call writes. The refinement maps what is pending
  to the accumulator without the last packet while its save is under way. `DamageConfined`, under the
  same assumption, needs to know what the accumulator holds at each place of the downlink the walk may have
  reached: as long as the image there is intact, exactly that image from its first packet up to there,
  and after an image's last packet nothing, unless that packet was lost (`GatherInv`). Without that assumption:
  `TypeOK` and `ClearedIsSaved`, from an invariant that says what is in the accumulator
  between `save_final` and `clear` (in a file, or counted as lost: `WrittenInv`).
- `TelemetryHandlerProofs`: `TypeOK`, `RemIsTheRest`, `ReadsOwnPayload`,
  `NoByteTwice`, for all sizes. The code guards its reads only by its own count of
  the bytes left, so the invariant ties that count to the frame and the buffer, and
  what was handled to the positions reached (`HandledBehind`). With the same invariant, `LoopsDescend`:
  every iteration of both functions makes a natural number (`Remaining`) smaller, whatever lengths and
  message ids the bytes claim. It assumes a secondary header of at least one byte (the code's has 16).
- `SendRecvProofs`: `TypeOK`, `WholeFramesDecoded` and the refinement of `FrameFeed`. The
  invariant sees what is in `acc` and on the wire as one line: its pieces are in the order
  of sending (`Tidy`), a unit's second piece directly follows its first
  (`GoesOn`), all of it lies behind what was decoded (`Fresh`), and while the buffer is
  walked every whole frame before `off` has been decoded (`Walked`). Units of which bytes were taken for
  a beacon are not decoded and lie before all of the line, save the one that is still being sent,
  whose rest is no unit's beginning (`Spent`).
- `ImageExtractProofs`: `TypeOK`, `ClosedAtReturn`, `LastEndsFile`, `AssembledIsRecorded`,
  `StartedIsOpen`, `ReportNamesGaps`. The invariant says what an open file may hold at each place of the walk:
  between packets nothing that ends an image, for a standalone packet nothing at all,
  and only on the way to `finish()` a last packet (`OpenInv`); and that a standalone image
  in the middle of another is excluded by `intact` alone (`FlagsInv`). That the gaps are exact is
  a fact about sorted lists: one exists for every finite set (from that of the set without its
  greatest element), no count seen lies between two neighbours, and a missing count lies between the first
  neighbour above it and the one before; with 14-bit counts the 16-bit loop does not wrap.
- `CommandFormProofs`: `TypeOK`, `ShownIsSelected`, `RowFillsItsCommand`, `LogTells`. The
  first property is inductive; the second needs what the reference holds while it waits
  (`PickedWaits`), the third that a send is under way only for a command (`SendingIsSent`).
- `CommandUplinkProofs`: `TypeOK` and the refinement of `CommandFeed`, from an invariant over
  one line per station and visit: transmitted, in the handler, in the inbox, on the way to the
  relay, in this order and without repetition. A relay that stops drops a whole part of that line,
  a station that stops the middle of it; what is left is still in order.
- `CommandUplinkProofs`, second part, about `TcFrame`: `HeadersAgree` and `ParametersReadBack`, for commands
  with any number of parameters. A frame is the end of a recursion over the parameter list. That such a
  recursion has a solution, and what it is at every place, is proved by the least place at which it fails
  (`LeastNatural`, `Upwards`, `ChainExists`); the layout of the parameters then follows place by
  place (`Layout`: a parameter stays where it was put when the next is packed), and each type's bytes
  are shown to read back as its value (`PacksWell`). The checksum is followed bit by bit: it is put where a
  zero was, and adds one to the number of bytes that have a bit just when that number, 255 counted in,
  is odd (`Cancels`). From the same lemmas, `FramesTellApart`: two commands with parameters of the same types
  get the same frame only if every field and value is the same, as far as the frame has room for it.
- `TelemetryStoreProofs`: `TypeOK`, `ValuesInPlace`, `OneRowPerName`, `StoresPrefix`. A call's
  ids are always a path of the tree (rows are never changed or removed, so another call
  cannot spoil it); while no call overlapped another, a row that the running call did not
  find is missing; and what a call has stored lies before the place it has reached.

Every safety invariant and action property of the passing runs is proved. Only model-checked is liveness
(`LastLeavesAccumulator`, `Returns`, `StopsOrIdles`, `KeepsTrying`, `CommandsMoveOn`,
`PageCatchesUp`): liveness under fairness is beyond this prover (of `Returns` it proves all but
the fairness, by `LoopsDescend`). `NextImagePrepared`, `DamageConfined` and `ImplementsFeed` of `ImageDownlink` are proved for payloads without the last packets of
two images; that the first does not hold otherwise is what the run `downlink_mixed` shows.

## Disagreements between the code and its comments

Three runs are expected to fail; each checks what a comment says.

1. `downlink_mixed`: `telemetry.cpp:306` saves once per payload. A second last
   packet in the same payload stays in the accumulator, although
   `telemetry.cpp:308` says "다음 이미지 준비" (prepare the next image).
2. `telemetry_tail`: `telemetry.cpp:290` says only the 128 data bytes go to the
   bitstream. A shorter fragment at the end of a payload takes the four bytes of
   the CSP CRC along.
3. `session_partial`: `telemetry.cpp:93` says an incomplete frame is left for
   later. `start_recv_tcp` discards the buffer with the connection.

Known and not stated as properties, because the code does not promise otherwise:
two images that end within one second share a file name; all images of one session's
second pass (`ImageExtract`) usually do; a report without secondary header but with
twelve bytes of padding is decoded as if it had one; two bare beacons in one
connection are not recognised; and a part of a frame of exactly a beacon's length is decoded as a
beacon nobody sent (`sendrecv.cpp:303`). A command that was sent may also have a row that says "error",
when logging failed after its insertion. Between selecting a command and the arrival of its metadata, the
previous command's parameters are sent under its ids; and a command chosen from the list while
a picked row still waits for its metadata gets that row's values. Calls that overlap may
create two rows of one name, if no index of the database refuses the second. `stoi` throws on a
parameter type that begins with `str` and has no number, and the process ends. The page and the
station connect to the relay once and stay unconnected when it stops.

One more disagreement is not checked by a run, because a CRC is represented by what it is computed over
and its bytes have no order in the model: the comments at `fswcmd.cpp:326` and `:327` say that
the CSP CRC covers the CSP header too and is appended little-endian, as does the one above `MakeTCData`
(`:380`, "LE"). `GetCSP_CRC32` (`:262`) skips the four bytes of the header, and `append_u32_be`
appends the most significant byte first. `Tail32` follows the code.

## What is not modelled

- The contents of beacons and reports, checksums and JPEG markers: layout without
  control. Checksum failures are logged and otherwise ignored by the code. The
  decoders copy packed structures and print their fields.
- `parse_and_dispatch`, `start_recv`, `File2DB` and other code that nothing calls.
- Debug snapshots of `Bitstream`, which `start_recv_tcp` switches off.
- Device control (`dcs`: the amplifier with its safety thread, `kta223`, `gs232b`, `gs100`). `ServerSGS`
  links the library and calls none of it, so no behaviour of the running system depends on
  it.
- `ifc`: single reads and writes of a port.
- `POST /api/ws`, whose messages name no receiver and are refused by every station; typing, address and
  port on the command page; sorting and grouping of tables.
- In `TcFrame`, the parameter types of four and eight bytes and of floating point, which are
  copied as the smaller ones are.
- One received buffer through both image assemblers on one object and one directory: each of them is
  modelled on that object, with the other's operations among those `MCBitstream` checks, but
  no run follows a buffer through the first and then through the second.
- `tc/`, `virtualGS/`, `test/`: test tools and simulators, read to see which inputs are
  real. `back/src`, `back/sgs/ncs`, `back/sgs/gts`, `BackupData`, `front/scl`: older programs and
  copies that no build includes. `back/lib` is third-party code and by far the largest
  part of the repository, so the mapped lines are a small share of all lines although they
  are most of the control of the program itself.

## What could follow

The modules were written in this order: `Bitstream`, `ImageDownlink` with `ImageFeed`,
`TelemetryHandler`, `ImageExtract`, `SendRecv` with `FrameFeed`, `CommandUplink` with
`CommandFeed`, `CommandForm`, `TcFrame`, `TelemetryStore`, each with its proofs.
Two modules would be next:

1. `ReceivedImages`: one received buffer through `ImageDownlink` and then `ImageExtract`, on one object and
   one directory, to state which images survive when both publish in the same second.
2. `AmpSafety`, once `ServerSGS` uses the amplifier: the safety thread, its unsynchronised flag
   and buffer, and the serial commands as they are written.
