# Verification of omron-hostlink-fins

TLA+ models, model-checking runs and machine-checked proofs for the Go library
in `src/fins`: an Omron FINS client over UDP and over TCP, and the PLC
simulator its test uses.

## The system

| Part | Source | State it keeps | Operations |
|---|---|---|---|
| Operations of a client | `client_udp.go`, `client_tcp.go` (the two copies are the same line for line), `client.go` | `c.mu`, the lock of an operation; `c.responseTimeoutMs`; `c.byteOrder` | 19 reads and writes, `SetTimeoutMs`, `SetByteOrder`, `Close` |
| Service ids and response cells | `incrementSid`, `nextHeader`, `sendCommand` | `c.sid`, a byte; `c.resp`, 256 cells each holding an unbuffered channel; the embedded mutex, which guards `c.sid` alone | take an id, make a channel in its cell, write, wait on the cell's channel with or without a timeout |
| Listener | `listenLoop`, one goroutine per client | its position; `c.closed`, read when a Read fails | Read, decode, send to the cell of the response's service id |
| UDP transport | `net.UDPConn`, connected | the socket | datagrams |
| TCP transport | `handShake`, `packTcp*Command`, `listenLoop` of `client_tcp.go` | the connection; `c.dst.node` | the FINS/TCP handshake, framing, reading frames from a stream |
| PLC simulator | `udp_server.go` | DM word and bit memory; one receive buffer; `s.closed` | one request in, one response out; `Close` |
| Frame codec | `driver.go`, `header.go` | none | header, memory address, request and response encoding |
| Typed conversions | the reads and writes, `Utils.go` | none | words, 32-bit values, floats, bits, strings; byte and word swap |
| BCD clock | `driver.go`, `ReadClock` | none | encode, decode, overflow test |
| Byte helpers, tables | `bytes.go`, `memory_area.go`, `end_code.go`, `command_code.go`, `address.go`, `error.go` | none | shifts, constants, constructors |

How they interact: every application goroutine that calls an operation runs
`sendCommand` itself; it shares with the others `c.mu` (two operations do not
take it: `ReadBytes`, `WriteFloat32`), the service id counter and the cells.
The listener shares the cells with all of them and reads them without a lock; a
response reaches its caller when both meet at an unbuffered channel. Nothing is
persisted, so there is no recovery to speak of: a client that restarts on the
same local port can only meet responses to its former self.

### What is hard

* **Interleaving.** The id is taken under a mutex, but the cell is written after
  it is released, read again before waiting, and read by the listener in between.
* **Timeouts.** A response may come at the instant of its timeout, or later. The
  listener then blocks on a channel no one reads. Whether it can ever go on
  depends on nobody replacing that channel, and the next holder of the id does.
* **Reused ids.** A byte wraps after 256 requests. A cell may then belong to two
  calls at once, or a late response may reach a later call.
* **The network.** UDP loses, duplicates and reorders, and a connected socket
  reports a refused datagram to an unrelated Read or Write. TCP keeps no message
  boundaries, while `listenLoop` takes what one Read returns for one frame.
* **Blocking.** With timeout 0 a call waits while it holds `c.mu`. `Close`
  releases nobody.
* **Numbers at their limits.** Addresses, counts and lengths are 16 bits wide and are
  multiplied and added there. A panic in the listener's or the simulator's goroutine
  ends the program.
* **Shared bytes.** The simulator handles a request in the buffer that still holds
  earlier ones; the client's reads index its receive buffer, and a swap works in place
  on the bytes that another result is copied from.

What makes the parts correct: a client never returns one call's answer to another,
its listener is not stuck while someone wants an answer, every call returns, a
lock is always given back, and a reported success means that the PLC did carry
the request out in the meantime. What was written is what is read back, the simulator's
memories are memories, and encoders and decoders fit each other. `PROJECT.json` lists the hazards line by line
with the properties that watch them.

## Modules

```
FinsClient ─┬─ UdpClient ── UdpSystem (implements PlcService)
            └─ TcpClient

Numbers ─┬─ PlcSimulator (implements ByteMemory) ─┬─ DataPath
         ├─ Conversions ──────────────────────────┘
         ├─ Frames ───────┐
         └─ ByteHelpers ──┼─ Codec
            Bcd ──────────┘
```

Two halves: the upper one is about who meets whom when (a request is a number), the
lower one about what is in the requests and answers (one goroutine, a network that
loses nothing). They meet in the request: an action of the upper half never looks at
data, and none of the lower half's depends on how calls interleave. `MCUdpClient`, `MCUdpSystem`,
`MCTcpClient`, `MCDataPath` and `MCCodec` give them values for TLC;
`FinsClientProofs`, `UdpClientProofs`, `UdpSystemProofs`, `TcpClientProofs`,
`PlcSimulatorProofs`, `DataPathProofs` and `CodecProofs` hold the theorems, and
`NumberProofs` lemmas about `Numbers` and induction that the last two share.

**FinsClient** is what both clients have in common. The correspondence:

| Variable | Code |
|---|---|
| `mu` | `c.mu`, as the goroutine that holds it |
| `sid`, `resp`, `closed`, `connOpen` | `c.sid`, `c.resp`, `c.closed`, whether `c.conn` was closed |
| `timed` | `c.responseTimeoutMs > 0` |
| `pc`, `op`, `header`, `chan`, `result` | the program counter and locals of each goroutine in an operation, and what its last operation returned |
| `listener` | `listenLoop`: at Read, holding a decoded response, at the channel send, or ended |
| `complained` | the log line of `listenLoop` was written while `c.closed` was false |
| `issued`, `reused` | ghosts: the number of requests so far; a request took an id still in use |

A channel is the number of the request it was made for, so "the same channel"
is equality, and `make(chan response)` is a number not used before.

| Action | Code (client_udp.go) |
|---|---|
| `Call`, `Lock`, `RejectArea`, `Return` | entry of an operation, `c.mu.Lock`, the refusal of a memory area, any return with its deferred unlock |
| `TakeSid` | `incrementSid` up to `c.Unlock()` (489-493) |
| `MakeCell` | `c.resp[sid] = make(chan response)` (494), after the mutex is released |
| `WriteReturns`, `WriteError` | `c.conn.Write` (502-505) |
| `EnterSelect` | the reads of `responseTimeoutMs` and `c.resp[...]` (508-516) |
| `Receive`, `Timeout` | the two arms of the select, or the plain receive |
| `Decode`, `ListenLookup`, `GiveUp` | `listenLoop`'s Read and decode, the read of the cell and the send, and its end |
| `SetClosed`, `CloseSocket`, `SetTimeoutMs` | `Close` in its two steps, `SetTimeoutMs` |

The 19 operations differ, for this model, in whether they lock and whether they
may refuse the memory area: `OpKinds` has one member per combination. What they
do with the data is the subject of DataPath. `Receive` is one step of two goroutines, as a
rendezvous on an unbuffered channel is; a listener at `"send"` with no receiver
is blocked, and on a nil channel it is blocked for ever, as in Go.

**UdpClient** adds sets of datagrams in flight. `Faults` says what may go wrong:
`loss`, `duplicate`, `refuse`, `leftover` (a response to a former client on
the port), `close`. Reordering is always possible. `PlcAnswer` is the server loop
of the simulator with its end code chosen freely.

**UdpSystem** adds what the PLC has done. **PlcService** is the specification of a
client as an application may think of it: a call fails, and then nothing is known of
it, or returns the end code with which the PLC carried out its own request
after the call was made. `KeepsPromise` says that `UdpSystem` implements it under
`number <- issued` and `asking <- Asking`, the requests of the calls in progress.
The exception it needs is stated in it: requests `Window` (256) apart have the same id.

**TcpClient** adds a stream of frames in each direction and the handshake.

| Variable | Code |
|---|---|
| `node` | `c.dst.node`, of which the model keeps where it came from: the configuration, the handshake, or a misread byte |
| `dest` | the copy of it in the header of each call, made by `nextHeader` (`Address`) after the id and the cell |
| `toPlc`, `fromPlc` | what is on its way in the connection, at most `Window` frames each way |
| `peerOpen`, `stalled` | the PLC has not hung up; it has stopped reading (of what happens outside the client) |
| `panicked`, `lengthBlamed` | an index out of range ended the program; the length error was logged of a frame that is right |
| `declined`, `heard` | ghosts: the handshake was not answered with a node; `listenLoop` has decoded a response |

`NewTcpClient` ignores an error of the handshake's Write, so `Init` has a client whose PLC
is gone already. `Write` is enabled while there is room in the connection: it has no deadline
(541), and with a PLC that does not read (`Stall`), or one that cannot send its answers since
the listener does not read them, it blocks (`WriteBlocks`).

Where a Read returns exactly one frame it is `ReadNode` (command 0), `ReadAnswer` (command 2), or
`ReadVoid`, the frames `listenLoop` drops: those with an error code (575-579) and those
with another command (592-602). The PLC sends these, in place of an answer or of
its node, where `Faults` has `decline`. `ReadSeveral`,
`ReadPiece` and `ReadRest` are what the code makes of all other Reads: `length + 8 < n`
drops everything that was read; a piece of under 12 bytes has command 0, so it is
handled as the handshake's reply with node 0; a piece of a response of 12 to 29
bytes is sliced out of range and ends the program (`panicked`); a longer piece
passes for the whole. What follows a piece starts in the middle of a frame, and anything
may come of it. The PLC is taken to understand the requests as the client
means them: the length field of a write request is the length of the payload without
the 8 bytes of command and error code, and what another PLC does with
that is not modelled.

**Numbers** has the one parameter of the lower half, `Byte`, the number of values of a
byte; a `uint16` has `Byte * Byte` and `Wrap` is its arithmetic. The code is `Byte = 256`.

**PlcSimulator** is `udp_server.go`. `dmarea` and `bitdmarea` are the memories, `buf` is the
part of the receive buffer that a write's data is taken from, `req` and `reply` what
is being dealt with, `at` where the loop is, `srvClosed` and `srvOpen` `s.closed` and the
socket.

| Action | Code (udp_server.go) |
|---|---|
| `ReceiveRequest` | `ReadFromUDP` and `decodeRequest`; the datagram overwrites the beginning of the buffer (33-37) |
| `ReceiveShort` | the same for a datagram of 1 to 11 bytes, which `decodeRequest` slices out of range (driver.go:78) |
| `Handle` | `handler`: `HandleWords`, `HandleBits`, `HandleBeyond`, `HandleUnsupported`, with the boundary check in 16 bits, and `Panic` where Go's slicing panics (56-102) |
| `SendReply`, `LoopFails` | `WriteToUDP`, and the ways the loop ends: quietly, or with `log.Fatal` (38-48) |
| `SetServerClosed`, `CloseServerSocket` | `Close` in its two steps (104-108) |

**ByteMemory** is what one may expect of it: numbered bytes, requests that are carried out on
exactly the bytes they name or refused without effect, and no 16-bit arithmetic. `KeepsMemory`
says that PlcSimulator implements it. Two exceptions are stated there and not
hidden: nothing is promised of a request whose range ends at `2 * Size` or beyond
(`Muddle`), and bytes a short write brings no data for may become anything.
(An address numbers a byte of the simulator's memory, while the client means a word:
that is what the code does, and ByteMemory says so in `First`.)

**Conversions** has the operators: what each operation puts into its request (`Items`,
`AskedFor`, `Encoded`), when it indexes out of range (`WriteOutOfRange`, `OutOfRange`) and
what it makes of an answer (`Decoded`, `Raw`), with the swaps of `Utils.go`.

**DataPath** composes the two. One goroutine calls an operation (`Call`, which may refuse or panic
before it sends), its request is received (`Arrive`), handled and answered by the
simulator, and the operation decodes the answer and returns (`Return`). `order` is
`c.byteOrder`, set by `SetByteOrder`; an area is the DM area in words or in bits, one the client
knows as a word area though the simulator does not (`otherWord`), or one `checkIsWordMemoryArea` does not accept (`other`); `result` is what was returned, the raw bytes of a typed read
included; `intact` is a ghost, the successful writes whose bytes no later write has touched.
`OperationsAssumption` says no more of a call than the types of the Go methods do: a `uint16` has
16 bits, a value is a value of its kind, a count is a `uint16`.

**Frames**, **Bcd** and **ByteHelpers** are pure functions of `driver.go`, `header.go`, the
framing in `client_tcp.go`, and `bytes.go`. **Codec** takes one item at a time (a header, a
request, a number, a date, ...) and its invariants say what they must make of it.
Where the code differs from what one might expect, the operator is what the code does and
the property says where the difference shows:

* `decodeHeader` takes the message type from the bit of `responseRequired`
  (`icf&1<<n` is `(icf&1)<<n` in Go): right only for the pairs this code sends (`HeaderArrives`).
* Command codes and end codes are numbers of 16 bits and go through two bytes (`BE16`, `OfBE16`) as
  all other fields do; an end code is any of them (`AnswerReturns`).
* The length field of a TCP write is short by the 8 bytes of command and error code, that of `ReadClock`
  long by 6 (`LengthTestRefusesWrites`).
* `timesTenPlusCatchingOverflow` misses overflows from twice `2^64` on (`DecodedOrRefused`, and
  the two theorems about it in CodecProofs).
* `ReadClock` ignores errors, so a bad field is a 0 (`ClockIsRead`).
* `ExpandBool` loops over bytes where it means bits (`BoolsShrinkAndExpand`).
* `WriteInt16` writes the low byte first whatever it is told, so only a swapped
  `ReadInt16` reads it back (`ReadsBack`).
* `ReadUint32` returns its raw bytes after the swap, the others before (`AnswersAreMemory`).
* `WriteBytes` counts its bytes as words and so writes as many again of the server's old buffer
  (`OwnDataOnly`).

Operators named `Slip...` are not part of a specification. Each is a definition
with one plausible mistake; replacing the definition by it makes a property fail.

## Runs

| Run | Properties | Instance | What it shows |
|---|---|---|---|
| `udp_correlation` | `TypeOK`, `AnswerBelongsToCall`, `WaitsOnOwnChannel`, `HeldAnswerCanBeTaken` | 2 unlocked callers, 2 ids, 3 requests, leftovers and duplicates | an answer goes to the call that asked, a call waits on a channel made for its request or for one with the same id, and a wanted answer is held only on the channel its caller reads |
| `udp_timed_returns` | `EveryCallReturns` | locked and unlocked callers, loss, refusal, Close | with a timeout every call returns |
| `udp_patient` | `ListenerNeverStuck`, `EveryCallReturns` | timeout 0, 3 ids, 4 requests, no faults | without a timeout the listener always finds its caller, and calls return unless two hold one id |
| `udp_system` | `KeepsPromise`, `LockedCallsShareNoCell`, `NoComplaintOnUserClose` | 2 locking callers, 2 ids, 3 requests, both timeouts, loss, duplicates, Close | the client implements `PlcService`; the lock makes the wrap of the ids harmless; Close is not reported as a failure |
| `data_path` | `TypeOK`, `ReadsBack`, `AnswersAreMemory`, `WellAskedReadsReturn`, `PanicsOnlyWild`, `NoFatalOnUserClose`, `OwnDataOnly`, `KeepsMemory` | every sequence of 3 of the calls of `MCDataPath`, both byte orders | values survive the way through conversions, requests and memory; who panics when; the simulator implements `ByteMemory` |
| `codec` | `HeaderArrives`, `RequestArrives`, `AnswerReturns`, `LengthTestRefusesWrites`, `DecodeInvertsEncode`, `DecodedOrRefused`, `ClockIsRead`, `ParseInvertsWrite`, `BoolsShrinkAndExpand` | samples of every kind of item, bytes of 8 values | encoders and decoders fit each other, with the differences listed above |
| `udp_stuck_listener` | `ClearedCellFreesListener` (fails) | 1 caller | finding 1 |
| `plc_boundary` | `BoundaryIsChecked` (fails) | one call, words at the end of the memory (`WordsAtTheEnd`) | finding 2 |
| `tcp_correlation` | `TypeOK`, `AnswerBelongsToCall`, `HeldAnswerCanBeTaken` | 2 callers, 2 ids, 3 requests, Reads of any size | the same over a stream that respects no boundaries |
| `tcp_framed` | `RequestsKnowNode`, `EveryCallReturnsOrBlocks` | one frame per Read, room for one in each direction; the PLC silent, declining, not reading or hanging up, Close | from the first response on requests go to the node the PLC told, if it did; every call returns unless a Write blocks |
| `tcp_coalesced` | `LengthErrorIsTrue` (fails) | 1 caller | finding 3 |
| `tcp_split` | `NodeComesFromHandshake` (fails) | 1 caller | finding 4 |

**Bounds.** `NSid` is 2 or 3 where the code has 256, and `MaxReq` is larger, so that
ids wrap, are reused while in use and meet late answers of their former holders;
these cases need two callers and no more, since every hazard listed relates a
call to one other call or to the listener. `MaxReq` is the only bound on
the behaviour of a client and sits in the guard of `Call`. `Window` is how many frames a TCP
connection holds: 1 in `tcp_framed`, so that it is full soon, 2 in the runs that show a finding, and 4 in
`tcp_correlation`, which has no more than 3 requests and a handshake, so that nothing waits for room.

In `data_path` a byte has 4 values, so a word has 16, the memories 8 bytes, and every
address, count and sum reaches its limit; the buffers hold 6 data bytes (`BufLen`, `RespCap`; 1006 and
2034 in the code), fewer than a memory, so that answers can be cut and writes can be too long for the buffer.
`MaxCalls` is 3: a write, something that disturbs it, and a read. The calls of `MCDataPath`
are chosen to overlap one another and to meet each limit. In `codec` a
`uint64` has 256 values for BCD (`Wide`), and a byte is 3 bits (`Byte = 8`, `PerByte = 3`), so that a 16-bit number has 64 values; the items are all small
ones and samples of the rest, since the functions treat every byte alike.
The theorems below have none of these bounds.

**CHECK_DEADLOCK FALSE** is in four runs where the system really stops. In
`udp_patient` two unlocked calls that come to share an id with timeout 0 may wait for
ever, and in `udp_system` a call with timeout 0 waits for ever when its answer is
lost or the client is closed, with everyone else waiting for `c.mu`. In `data_path` and
`plc_boundary` a panic or `log.Fatal` ends the program, and a call whose server has been closed
waits for an answer that does not come (timeouts are the other half's subject). All other
runs check for deadlock.

**Symmetry** of the callers is used in safety runs only.

**Fairness.** Weak fairness of each caller's steps and of the listener: the Go
scheduler runs goroutines that can run. Strong fairness of `Lock`: a waiter of a
`sync.Mutex` that has waited for more than a millisecond is handed the lock
(starvation mode). Weak fairness of the PLC, except that it may be "silent". An
expired timer is one of a caller's steps. A Write over TCP that blocks is a step that is
not enabled, so fairness does not end it, and a stalled PLC never reads again. Nothing is assumed of the application
(`Call`, `Close`, `SetTimeoutMs`) or of the network's faults.

### Findings

1. `client_udp.go:536` (and `client_tcp.go:602`): a response later than its
   timeout (20 ms by default) blocks the listener; when the id comes round the cell
   gets a new channel ("clearing cell", 494) and nothing can free the listener any more.
   All later calls time out. One late packet is enough.
2. `udp_server.go:67`: the boundary check adds address and length in 16 bits. One word
   at address 65535 passes it, and the slice of the next statement panics and ends the
   program. `PanicsOnlyWild` says which requests do this, and the theorem
   `OnlyWildRequestsPanic` that no others do.
3. `client_tcp.go:583`: two frames in one Read are both dropped, as a "length error". The
   handshake's reply and the first answer can meet this way, since nobody waits for the
   reply, and so can two answers.
4. `client_tcp.go:593`: a piece of a response is taken for the handshake's reply and sets the PLC's node
   address to 0. In the trace the reply itself has been read whole; then a call is answered, a Read
   returns less than 12 bytes of the answer, and the command code, which has not arrived, reads as 0. (From the
   same cause, 12 to 29 bytes of one end the program at 598.)

Not a finding, since nothing in the repository says otherwise: any error of Read ends
`listenLoop` for good (`client_udp.go:524-531`), and one refused datagram, as while a PLC
restarts, is such an error. `udp_timed_returns` has this case: calls still return, by their timeout.
Nor does anything say that a Write returns (`EveryCallReturnsOrBlocks` states when it may not), or what becomes of
a client whose handshake is declined: it keeps the configured node address.

## Proofs

TLAPS checks these for every value of the constants the assumptions of the modules admit:
every set of callers, every `NSid > 0`, all operations, timeouts and faults; every
width `Byte >= 2`, every buffer and every sequence of requests; every call with arguments of
its types, and every header, request, number, date and bit sequence. Every safety invariant,
action property and refinement that a passing run checks is among them.

| Module | Theorem | States |
|---|---|---|
| UdpClientProofs | `TypeCorrect` | `Spec => []TypeOK` |
| | `AnswersCorrelate` | `Spec => []AnswerBelongsToCall` |
| | `CallsWaitOnTheirChannel` | `Spec => []WaitsOnOwnChannel` |
| | `HeldAnswersAreTaken` | `Spec => []HeldAnswerCanBeTaken` |
| | `PatientListenerIsFree` | `Spec => []ListenerNeverStuck` |
| | `LockedCallsAreSafe` | `Spec => []LockedCallsShareNoCell` |
| | `CloseIsQuiet` | `Spec => []NoComplaintOnUserClose` |
| UdpSystemProofs | `ClientKeepsPromise` | `SysSpec => KeepsPromise` |
| TcpClientProofs | `TypeCorrect`, `AnswersCorrelate`, `HeldAnswersAreTaken`, `LockedCallsAreSafe` | the same, over a stream |
| | `HandshakeComesFirst` | `Spec => RequestsKnowNode` |
| PlcSimulatorProofs | `OnlyWildRequestsPanic` | `SimSpec => []PanicsOnlyWild` |
| | `UserCloseIsNotFatal` | `SimSpec => []NoFatalOnUserClose` |
| | `SimulatorKeepsMemory` | `SimSpec => KeepsMemory` |
| DataPathProofs | `TypeCorrect` | `Spec => []TypeOK` |
| | `UsesTheSimulator` | `Spec => SimSpec`: the theorems about the simulator hold of it here |
| | `OperationsKeepMemory` | `Spec => KeepsMemory`, and the simulator's two invariants |
| | `WhatIsWrittenIsRead` | `Spec => []ReadsBack` |
| | `ReadsReturnTheMemory` | `Spec => []AnswersAreMemory` |
| | `WellAskedReadsDoReturn` | `Spec => []WellAskedReadsReturn` |
| | `WritesTheirOwnData` | `Spec => OwnDataOnly` |
| CodecProofs | `HeadersArrive`, `RequestsArrive`, `AnswersReturn` | `Spec => []HeaderArrives`, `[]RequestArrives`, `[]AnswerReturns` |
| | `OwnTestRefusesWrites` | `Spec => []LengthTestRefusesWrites` |
| | `EncodedNumbersDecode`, `NumbersAreDecodedOrRefused` | `Spec => []DecodeInvertsEncode`, `[]DecodedOrRefused` |
| | `DatesAreRead` | `Spec => []ClockIsRead` |
| | `WrittenNumbersAreParsed`, `BitsAreKept` | `Spec => []ParseInvertsWrite`, `[]BoolsShrinkAndExpand` |
| | `OverflowIsCaughtBelowTwiceTheWidth`, `MissedOverflowLosesTwiceTheWidth` | one step of `decodeBCD`, for every width |

**Clients.** The lemmas of FinsClientProofs are about `CoreNext(arrived)`, a step of a client with
whatever transport, where `arrived` are the responses a Read may yield. UdpClientProofs and TcpClientProofs
each show that their steps are such steps (`StepIsCore`) and add what is in flight.

`AnswerBelongsToCall` is not inductive: that the listener and a
caller meet on a channel says something of the response only because of where
ids come from. `Seen` is the set of all pairs (service id, request number) present
anywhere: in requests and responses in flight, with the listener, in the headers of
calls. `OneCounter(Seen, issued)` says that they were all made by one counter: two
pairs with the same id are the same request or at least `NSid` apart, and two pairs of
one request have the same id. Every action either brings in no new pair
(`NothingNew`) or the next one (`OneMore`), and `ReceivedIsAsked` draws the conclusion
when a call receives. `CallInv` and `ForeignInv` keep the numbers of leftovers apart.

`WaitsOnOwnChannel` follows from the same counter: the channels in the cells, and those that calls wait on, are
pairs of `Seen` too, and `MadeInv` says that a call which has made its cell finds no empty one.

`HeldAnswerCanBeTaken` needs three more facts, together `HeldInv`. `CellInv`: as long as no
id has been reused, calls in progress have different ids, and the cell of a call's id holds
the channel it made, and so does its `chan` once it waits. `DistinctInv`: no two
calls have one request number. `ListenerHeld`: the listener never holds the response
to a request that has not been written, and holds a wanted one for the right channel. The last is
inductive only because nothing in flight answers what is yet to be written (`Unwritten`), which again follows
from the counter: a new request has a number no response can have.

`ListenerNeverStuck` adds that somebody is there to take the response. `WaitedForInv` says that, where
there are no timeouts and nothing is sent twice, there is one copy of each request or of its
response, in flight or with the listener, and that its caller waits. A caller then leaves only when
the listener hands it its own response (`StillAwaited`, which needs `HeldInv` for "its own"), and with it
the last copy is gone.

For the lock, `LockInv` says that a caller past `Lock` owns `c.mu`; so only one is past
it, and no other can hold the id it takes. For `CloseIsQuiet`, a closed socket implies `c.closed`
and a pending socket error a refused datagram. For the refinement to PlcService,
`InFlightInv` says that every response in flight or with the listener is
in `done`, and `FreshInv` that a call in progress has no result; `CallerKeepsPromise`
and `StepKeepsPromise` then map each action to one of `PlcService` or to a stutter.

**Streams.** `TypeOK` of TcpClient says what the elements of the streams are, and that the middle of a frame is
among them only where Reads split; `StreamType` adds that the streams are sequences.
`Asked` and `Answered` are the requests and responses in them as sets, so the
arguments above apply: the lemmas about `Pieces` say what Append, Tail, and a
cut do to a set of elements. For `HandshakeComesFirst`, `NodeInv` says that, where Reads return frames and
the handshake has not been declined, until the node is known nothing has been heard and the handshake, or its reply, is
the first thing the client can read; so a header made after the first response has the node the PLC told.

**Simulator.** `SimInv` adds to the type invariant that an answer is pending only while one is
dealt with and that a closed socket implies `s.closed`. A request that is not `Wild` is computed
with as it stands: `TameWords` and `TameBits` say that none of the handler's sums wraps,
and the two memories' slices are then those of ByteMemory (`SliceIsSequence`,
`CopiedIsStored`, `TameAccess`). A wild one that is answered is a `Muddle` (`WildAccess`), and
one that is refused did name a byte that does not exist (`RefusedIsRefused`).

**Data path.** `StepIsSimStep` makes every step one of the simulator or none of its business, so
`SimInv` and the refinement to ByteMemory carry over (`UsesTheSimulator`). `DataInv` adds three things.
`PhaseInv`: while a call waits, what the simulator holds is this call's request (`Command(op)`), and
nothing is pending otherwise. `ReadInv` and `WriteInv`: an answer with normal completion that has
not been taken yet says that the request's range did not wrap, and that the data is the memory as it is, or
the memory now is what the request carried (`HandleAnswers`, `HandleStores`).
`IntactInv`: the bytes of each write in `intact` are still in the memory. It is inductive
because a later write either touches one of them, and then its success takes the write out of
`intact`, or leaves them alone (`HandleSpares`). Between the handling and the answer the write is
`Disturbed`, and IntactInv has to say so.
`ReadsBack` follows by one lemma per family of kinds (`Number16ReadsBack` to
`StringReadsBack`): the answer is the encoded value (`ReceivedIsEncoded`, by way of `IntactInv`)
and decoding it gives the value (`Bytes16`, `NumberOf16`, `Bytes32`, `NumberOf32`, `Signs`, `SwapsUndo`).
`AnswersAreMemory` and `WellAskedReadsReturn` rest on what `RespCap` leaves of an answer
(`EnoughReceived`); that it is at least 4 is an assumption, without which no 32-bit read could return.
`OwnDataOnly` counts: the bytes of a request are at most twice its data, and those beyond the data are named by
`WriteBytes` and `WriteBits` only (`HandleIsOwnData`).

**Frames.** An encoder concatenates and a decoder indexes and slices, so each decoder finds what its
encoder put there if the pieces have the lengths it assumes: `Joined` and `Cuts` say this once, of
sequences of any length, and `HeaderDecoded`, `RequestDecoded`, `ResponseDecoded` and `FrameLengths` name the pieces.

**Digits, bits, bytes.** A loop of the code is a recursive function of the number of its steps. `Iteration` shows
that such a function exists and obeys its recursion, and `SetInduction` (a set of numbers that has
0 and every successor has them all) takes the place of the induction theorems that have an operator
as a parameter. `DecodedAgrees` is the invariant of `decodeBCD`'s loop: as long as the
number the digits say so far is below twice the width, it is what the loop has, or the loop has refused. From there on
it only grows. `EncodedNibbles` says that the nibbles of an encoded number are `DigitsOf` it, and
`DigitsAre` that these are digits and say the number. `WrittenNumbersAreParsed` is `ShiftedIs` (a digit is a
remainder of a shifted number) and `DigitsOfShifts`, which puts the number together again.
`ShiftsOfDigits`, the converse, is why `ShrinkBool` keeps bits. `CodecAssumption` says that the items are what
the Go types admit, and `Wide >= 100` that a number holds the two digits of one BCD byte.

**What the proofs changed.** Four properties of DataPath had passed TLC on the calls chosen and are false
in general, as the attempts to prove them showed, so they say more precisely now what the code does.
Bytes written are read back only with a count whose double, as 16 bits have it, covers them, and a string only if it does not contain the
terminator (`SameWay`); a write to the bit area is read back by `ReadBits` alone, since an item is one byte there
(`ReadsItem`); an answer from the bit area is the bit area's bytes (`AnswersAreMemory`), and
such a write's data go there (`OwnDataOnly`). The shifts of `bytes.go` and the digits of `encodeBCD`
are written as the loops they are instead of with powers and folds.

**Only model-checked.** `EveryCallReturns`, and `EveryCallReturnsOrBlocks`, since liveness under fairness is out of the prover's reach. The four
runs that expect a violation show behaviours.

## Not modelled

* `Addresses, errors, code tables` (`address.go`, `error.go`, `memory_area.go`, `end_code.go`,
  `command_code.go`): constants, constructors and texts, without state or control. The constants and the
  types of addresses other parts use are in Frames and PlcSimulator.
* `Dup`, `BoolToByte` and `ByteToBool` of `bytes.go`: a sequence is its own copy, and a Boolean and the
  byte 0 or 1 are not told apart in the models.
* A request too long for a datagram, whose Write fails: in DataPath requests arrive (a failed Write is
  `WriteError` in the upper half).
* Formatting and logging other than the log lines properties are about.
* An error of `DialUDP`, `DialTCP` or `ListenUDP`: there is no client or server then.
* `time.Date`, which normalises what `ReadClock` passes to it, and floats as numbers: a float is
  its bit pattern.
* Frames of more than the 2048 bytes `listenLoop` reads: there the slice at client_tcp.go:590 is out of range and
  ends the program. A response to a memory read stays below while it asks for less than a thousand words.
* The fields of a FINS/TCP frame beyond those `listenLoop` tests, and the bytes of an answer that
  arrives in pieces: DataPath has whole datagrams.
* Datagrams to the simulator of 12 to 17 bytes, whose address and count are read from what an earlier one left in
  the buffer: as requests they are among those `ReceiveRequest` has. Empty ones are read again at once.
* Slices of the clock's data beyond its length but within the buffer's capacity: the simulator does not
  answer `ReadClock`, so no run reaches one.
* Data races as such: a torn read of `c.responseTimeoutMs` or of a channel word does
  not happen on the platforms Go supports.
* Data and interleaving together: see the plan.

## Plan

1. `UdpSystem` over `PlcSimulator`'s memory: a write whose call timed out and that is carried
   out after a later one has succeeded.
2. The TCP client as an implementation of `PlcService`, where every Read returns one frame.
3. Proofs about `decodeBCD` beyond twice the width: which of the numbers it lets through come back wrong.
