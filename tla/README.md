# TLA+ models of the ODP secure services

This directory holds TLA+ models of the services that run in the EC secure
partition, TLC configurations that check them on small instances, and proofs,
checked by TLAPS, that the main properties hold for every instance. Paths below
are relative to the repository; `services/` is `ec-service-lib/src/services/`.

## The system

A secure partition (SP) boots, checks the FF-A version and enters a message loop. The
loop waits for an FF-A direct request, hands it to the service whose UUID it
names, sends the service's answer and waits again. The SP is single-threaded: a
service handles one request at a time, to its end. What is concurrent is the
world around it: the host writes memory that it shares with the TPM service, the
SP yields to the host while it polls the TPM, the embedded controller (EC)
answers over a serial line when it likes, several callers wait for the SP, the
SPMC may fail any call, and interrupts come between any two instructions.

| Component | State | Operations | Interacts with |
|---|---|---|---|
| Notify (`services/notify.rs`) | table of services with their mappings; global bitmap | Setup, Add, Destroy, Remove, Assign, Unassign | clients, by requests of up to 7 tuples |
| TPM service (`services/tpm.rs`) | state machine, active locality, open localities, registration; one CRB per locality in shared memory | init, deinit, Start (command, locality), ManageLocality, notification functions | host (shared CRBs), TF-A, SST (calls) |
| TPM SST (`services/tpm_sst.rs`) | none but the interface type; the TPM's registers | go_idle, cmd_ready, start, locality_request, locality_relinquish | TPM registers, timer, Yield |
| EC relay (`services/ec_relay.rs`) | assembly buffer | invoke and its wrappers | thermal, battery, time-alarm services above, UART below |
| PL011 driver (`qemu-sp-uart`) | the UART's FIFOs | write_bytes, read_byte_bounded | EC, by the serial line |
| Message loop (`ec-service-lib/src/lib.rs`, `message_handler.rs`) | the pending message | wait, route, respond | SPMC, all services |
| Thermal, battery, time-alarm | none | one relay call per request | EC relay |
| UCSI, firmware management, TPM stub, qemu-sp's battery | none (UCSI: the caller's mailbox) | fixed answers; two FF-A calls | message loop |
| FF-A layer (`odp-ffa`) | none | pack registers, one SMC, decode the answer; console log | SPMC |
| Interrupts (`aarch64-haf`, `hafnium`) | DAIF; the hypervisor's interrupt state | vectors, masking, critical sections, hypervisor calls | core, hypervisor |
| `platform/*` | page tables, the panic flag | boot, panic | hardware |
| `espi-device`, `espi-device-stub`, `dev-hooks` | none used here | encodings, build tooling | none |

Where it is hard, and what makes each part correct:

- **Notify.** A request changes several mappings and a bitmap and may fail at any
  tuple. The handlers work on copies, but not all of their reads do: cookies and
  old bits are read from the committed table while the copy has moved on. Correct
  means: all or nothing, bitmap and mappings agree, one entry per service, no
  panic in the second loops, and only owners free.
- **TPM service.** The state machine, the active locality and four shared
  registers must agree over any order of requests for several localities, with
  failures of the SST and host writes at any moment. Correct means: the SST is
  driven for the right locality only, exactly the active locality reads as
  granted, a response is visible to its own session only, and a failure changes
  nothing.
- **EC relay.** Requests time out, answers come late or damaged, and nothing on
  the wire ties an answer to its request. Correct means: every invocation
  returns, no buffer is overrun, and a caller gets the answer to its own request.
- **SST.** Each operation writes a register and polls another until a timeout,
  yielding meanwhile. Correct means: an Ok says that the TPM has done what was
  asked and hands over the response to the command that was given, copies stay in
  their buffers whatever lengths host and TPM claim, and every call returns.
- **Message loop.** A handler error gives the caller no answer; an SMC error ends
  the loop. Correct means: each request is answered at most once, by the service
  it names and to the caller that made it; a caller is left without an answer
  only for a request nobody handles or whose calls fail; and the loop ends only
  after a failed call.
- **Relay-backed services.** They share one channel on which answers are lost and
  late. Correct means: a body that is passed on belongs to the command, a setter is
  executed at most once and its status word is true, every request is answered.
- **FF-A layer.** Fields share registers, halves are split and byte orders mixed.
  Correct means: the registers hold what the ABI says, what is read back is what
  was written, an error is not taken for a value, and a log record comes out whole.
- **Interrupts.** Correct means: no interrupt handler runs inside a critical
  section, none stays active, and what is masked does not panic the partition.

`PROJECT.json` lists the hazards at their source lines with the properties that
cover them.

## Modules

| Module | What it is |
|---|---|
| `Notify` | the Notify service and its properties |
| `MCNotify` | messages and model values for TLC |
| `NotifyProofs` | proofs about `Notify` |
| `TpmService` | the TPM service over any SST, with the host |
| `MCTpmService` | requests, register values and a state bound for TLC |
| `TpmServiceProofs` | proofs about `TpmService` |
| `TpmSst` | the SST over a CRB or FIFO TPM, called by the TPM service |
| `MCTpmSst` | sizes for TLC |
| `TpmSstProofs` | proofs about `TpmSst` |
| `EcMessages` | the messages between relay and EC, and what the relay makes of an answer |
| `EcChannel` | what the relay promises its callers: an abstract round-trip channel |
| `EcRelay` | the relay, the serial transport, the UART driver, the line and the EC |
| `EcServices` | thermal, battery and time-alarm services over `EcChannel` |
| `MCEcRelay`, `MCEcServices` | commands for TLC |
| `EcRelayProofs`, `EcServicesProofs` | proofs about `EcRelay` and `EcServices` |
| `FfaCalls` | register formats of the FF-A calls and the classification of answers |
| `FfaConsole` | logging over `FFA_CONSOLE_LOG` and the panic handler |
| `FfaBoundary` | every call across the SMC boundary, against tables of the ABI, with the console between calls |
| `LocalServices` | the services that answer by themselves, as functions |
| `MsgLoop` | main, the message loop, the handler chain, callers and SPMC |
| `FfaServer` | what the partition promises its callers, abstractly |
| `Interrupts` | exception vectors, masking, critical sections, hypervisor |
| `MCFfaBoundary`, `MCMsgLoop`, `MCInterrupts` | values for TLC |
| `FfaProofs`, `MsgLoopProofs`, `InterruptsProofs` | proofs about `FfaBoundary`, `MsgLoop` and `Interrupts` |

Composition: `MsgLoop` extends `FfaCalls` and `LocalServices` and implements
`FfaServer`; `EcServices` extends `EcChannel`, which `EcRelay` implements;
`FfaBoundary` extends `FfaConsole`, which shares its core; `TpmSst` stands behind
`TpmService`'s `CallSst`.

In each module a definition with a suffix in front of the one it is named after
(`nfy_bitmask_ok_inclusive` before `nfy_bitmask_ok`) is a faulty variant. It is
not used by the specification; putting it in the original's place must make TLC
report the property that `PROJECT.json` lists under "mutants".

### Notify

`entries` and `global_bitmap` are the fields of the struct, the bitmap as the set
of its 1 bits. A request is a `Message` that `NotifyReq` decodes as the `From`
implementation does: the message id from three bits, the count clamped to the
number of tuple registers. Cookies, UUIDs and endpoint ids are opaque; ids are
numbers because they are compared with the bitmap's width.

Each pass of a handler's loop over the tuples is a step, so a failure in the
middle is a behaviour of its own. `pc` is the loop the handler is in,
`temp_mappings` and `temp_bitmap` are its copies. Setup and Add differ only in the
id they answer with, as do Destroy and Remove; each pair is one action. Only the
entry the request is about differs between `self.entries` and `temp_entries`,
which is why one table of mappings stands for the copy. `before` is a history
variable with the tables at the arrival of the request.

### TpmService

The variables are the fields of the struct, `crb` is the shared memory. Of the CRB
the model keeps what the service reads or decides by: `locality_control`,
`crb_control_request`, `crb_control_start`, the idle bit, the granted bit (the
locality-state bits change with it) and what the buffer holds: zeroes, a command
or a response. Addresses, sizes and identifiers are left out.

The struct is generic in `S: TpmSstOps`, and so is the model: a call (`CallSst`)
takes a while, and then `SstReturns` with any code. Between the two the host may
write, since the SST yields; no other request is handled. `Finish` contains
`clean_internal_crb`, which ends every Start request, refused ones too. `HostWrite`
follows `test_write_crb`, the repository's own statement of what a host stores.
Requests carry whole numbers; handlers truncate them as the casts do.

### TpmSst

An operation writes a register and enters a polling loop; `pc` names the loop.
`wait_register_bits` is the poll that ends it: the bits are right, or they are not
and `expired`, the value of `timeout_expired`, is true. A poll that does neither
yields and changes nothing, so it is not a step. `start` reads the capacities and
the packet (any values, as the host can store any), then `copy_command_data`,
`start_command`, `copy_response_data` and `start_return` follow the code's calls.
A FIFO burst is a step with a count of any size; after the last byte of a header
the model lets a new count be read, where the code may have some of the old left.

The TPM is external and kept as small as the code's expectations: who has it,
which requests it has not honoured, its state, the packet in it and how much of it
went through the FIFO. It honours a request at any time or never, ignores what is
written for a locality that does not have it or while it executes, and may claim
any response length. `view` is what `TpmService` keeps, changed by an Ok only; the
caller relinquishes in IDLE, since what happens otherwise is `tpm_session`'s
subject. `failed` is history: a call failed after it had written a register.

Between two polls the library yields, and unwraps what the SPMC answers:
`Yield_refused` is an answer that is no success, which panics the partition in the
middle of an operation. `PanicConfined` says what that leaves behind.

### EcRelay

`invoke_request`, `send_packet`, then one step per poll (`poll_empty`) or byte
(`read_byte`) until the END flag, a timeout or a full buffer. A frame is a
sequence of `FrameLen` bytes, each of which knows its frame and its place: enough
to tell a whole frame from one that lost bytes or ran into another. The number `n`
in a header says which invocation it answers. It is not on the wire and no guard
reads it. The EC answers in order with a success, an error, or a faulty packet
(marked as a request, of another message type, without a header, with a body that
is too short or too long), or drops a request; the line may lose any byte; TXFF
comes and goes. A request is one packet: the services' bodies, of 23 bytes at most, fit
the 128 of `tx_buf`, so `MctpSerialize` errors do not occur. MCTP serialisation and the bytes of bodies are left out; of a
body the model keeps whether it has the length that the parser takes.

`EcChannel` is the relay without bytes, polls and buffers: an invocation sends its
request once, and then either fails, with or without eating an answer, or returns
what it makes of the oldest answer: Ok only for one of the right service with the
right response id, Remote only for an error of that service. It does not promise
that the answer is to this request, since the code does not (`ec_relay_stale`). The
refinement maps the frames under way, in the line, in the FIFO and in the buffer,
to `answers` (`InFlight`), and takes a frame that has lost a byte for a lost answer.
`EcChannel!Safety` is the channel without its fairness, the half that is also proved.

### EcServices

A direct request is its service, its command byte and, for the variable commands of
the thermal service, its length field. The handler refuses it, or makes one
round-trip over the channel (`Invoke`, `send`, `return`) and turns the result into
a reply (`thermal_reply`, `battery_reply`, `time_alarm_reply`). A reply is its size
and where its bytes come from: the EC's body, a status word, the sentinel or zeros;
the fields inside are copied by the code as they are. `executed` and `abandoned`
are history. The EC executes a request unless it answers with an error, and may
execute one whose answer it does not send.

### FfaCalls, FfaBoundary, FfaConsole

For each call `FfaCalls` has its fields, its registers (`_into`) and, where the code
has it, the conversion back (`_from`), with word widths given by `BYTE`, the number of
values of a byte (256 in the code). `FfaBoundary` sends every call, reads it back at the other side, as itself or as
another function (`UnexpectedFunctionId`), answers what is answered, and compares the registers with `Layout`, tables of the ABI written
down independently of the encoders. For the UUID in x2 and x3 of a response the
repository has no other source than `direct_message.rs`, so there `Layout` follows the
encoder. A direct request is answered by a response built
from what was read. `FfaConsole` writes records piece by piece, in calls of at most
128 bytes, which the SPMC prints from the registers. `_print` unwraps, so a refused
call enters the panic handler, which logs, and may be refused again.

### LocalServices, MsgLoop, FfaServer

The handlers of `LocalServices` are functions of the payload: an answer, an error,
or the FF-A call that decides between the two. `MsgLoop` has a step for each SMC:
`main` (version), `start` (first MsgWait), `turn` (one pass through the chain),
`service_smc`, `respond`, `msg_wait_after_error`. A log record between them is a
call that may be refused, and so is every other (`refused`, `Misdeliver`), at most
`MaxFaults` times. Thermal and Notify decode their command here and answer it with a success or a
failure; what they do with it is in modules of their own. `handle` finds the service that was appended last under a UUID, as the
chain does, whose head is the service appended last.

`FfaServer` is a server with callers: a request is taken, and answered or dropped,
and the server may die. `ImplementsServer` says that `MsgLoop` is one, with
`Serve` weakly fair: a request that has been taken is answered, dropped, or the
partition is dead. Its `Safety`, without the fairness, is what is proved of `MsgLoop`.

### Interrupts

One core. Code runs in nested contexts (`stack`): critical sections, and
`irq_current` at its three steps. DAIF is the set of masked exceptions. Taking an
exception saves DAIF and masks everything, returning restores it. Devices raise and
withdraw interrupts at any time; the hypervisor may refuse a deactivation, which
panics. `acquire` writes DAIF as a whole: it unmasks D and A, so an SError may panic
the partition inside a critical section entered with everything masked.
`MaskedMeansSafe` is stated with that exception. `enable_arch_interrupts` and
`disable_arch_interrupts` are called from the thread, outside of critical sections;
nothing in `interrupt.rs` enforces it, and nothing in the repository calls them yet.

## Runs

| Run | Expect | Shows |
|---|---|---|
| `notify` | pass | `TypeOK`, `OneEntryPerService`, `NoUnwrapPanic`, `BitmapKept`, `AllOrNothing`, `OnlyOwnerFrees` |
| `notify_bit0` | violation | `NoBitConflict`: id 0 stands for "no bit" and is a bit too |
| `tpm_service` | pass | `TypeOK`, `CallAuthorised`, `CrbAgrees`, `ResponseConfined`, `FailureKeepsSession`, `LocalitiesIsolated`, `SessionHeld` |
| `tpm_session` | violation | `FreshSessionIdle`: READY or COMPLETE passes from one locality to the next |
| `tpm_sst` | pass | `TypeOK`, `CopiesBounded`, `ViewAgrees`, `OwnResponse`, `PanicConfined`, `CallReturns` |
| `tpm_sst_late` | violation | `NoOtherResponse`: a start that failed half way leaves its command to the next |
| `ec_relay` | pass | `TypeOK`, `LagBounded`, and `ImplementsChannel`: `EcRelay` implements `EcChannel`; so every invocation returns |
| `ec_relay_stale` | violation | `AnswersOwnRequest`: a late answer is taken for the next request's |
| `ec_services` | pass | `TypeOK`, `BodyFitsCommand`, `StatusIsTrue`, `Answered` |
| `msg_loop` | pass | `TypeOK`, `AnswerMatchesRequest`, `NothingLostWithoutFaults`, `UcsiMailboxConsistent`, and `ImplementsServer`: `MsgLoop` implements `FfaServer` |
| `ffa` | pass | `TypeOK`, `LayoutHolds`, `RoundTrip`; of the console `PrintedInOrder`, `LogReturns` |
| `interrupts` | pass | `TypeOK`, `CriticalSectionsExclude`, `QuietAfterReturn`, `MaskedMeansSafe` |

**notify** (about 1,620,000 states). Two entries, two slots, two tuples, three bits
and an id beyond them. One service gets requests of every kind and count with two
cookies, a second gets single-tuple requests from two endpoints, a third competes
for the entries, so that both tables fill up, ids run out, and requests fail at
the first and at the second tuple. Assign requests
that name a cookie twice are among them. The code accepts these and they break the
bitmap (`notify.rs:427-471`): with (c0 to 1, c0 to 2) bit 1 is taken and nobody holds
it. With c0 on bit 2 and c1 on bit 3, (c0 to 1, c1 to 2, c0 to 2) passes the
validating pass, because the third tuple releases c0's old bit 2 once more, which c1
has just taken; both mappings end up on bit 2. `BitmapKept` says that this is all they
do: a request keeps every bit that it found exact, but for the bits that are `Muddled`
in this way, the one that the earlier tuple asks for and the one that the mapping
had. Without the exception TLC finds the bit that leaks; the second case takes three
tuples, one more than the run has, and is the theorem's. `BitmapKept` leaves bit 0
aside, as `notify_bit0` shows. Two of everything is enough for the other conflicts in the
code, which are all between two tuples, two mappings or two services. Setup
requests that repeat a cookie are among those of the run: the cookie is then
registered twice, since it is looked up in the table and not in the copy, and none
of the properties is disturbed by it.

**tpm_service** (about 880,000 states). Two localities, every function, both
settings of the idle bypass, memory that is fresh or left over, localities out of
range and one that wraps to 0. `BoundedPending` lets the host have at most two
control registers written and not yet cleaned; without it the host's writes
multiply the states and add no new case, as a request reads the registers of one
locality. Requests come before init and after deinit as well, as in the repository's
tests (one register is bound then). No request there reaches the TPM until TF-A has
opened a locality; after deinit the CRBs keep what they held, so that `CrbAgrees` and
`ResponseConfined` speak of localities other than the active one only in between.
`init` itself comes once, or after a deinit.

**tpm_sst** (about 1,210,000 states). Two localities, two commands, both
interfaces, with and without idle bypass. A header is one unit and the buffer two,
with sizes from 0 to 3: a packet is too short, a bare header, full or too long, a
capacity is smaller than the buffer, and a full packet takes one burst or two.
`ViewAgrees`, `OwnResponse` and `PanicConfined` speak of the time before the first
call that failed half way; `tpm_sst_late` shows why.

**ec_relay** (about 540,000 states). Two invocations over three commands, of which
two share a service, two share a response id and one has a parser that takes a
prefix; every kind of answer. Frames have three bytes, the buffer three and a byte
two polls, so that a lost END flag fills the buffer and a lost byte joins frames.
Two invocations allow a give-up and a late answer after it, which is the worst a
later one can meet too: an invocation starts from what is in the line.

**ec_services** (about 430,000 states). Every command of the three services, and
command bytes that name none, over two round-trips, with answers that succeed, are
refused or are too long, come late, or are lost. An error's discriminant is 0 or 1: the
setters pass it on as their status word (`thermal.rs:113-122`, `time_alarm.rs:72-78`),
so a refusal with discriminant 0 reads like success to the caller. `StatusIsTrue` has
that in it: a word of 0 says that the EC executed the request, or refused it with
discriminant 0. Two round-trips let any command
meet the late answer to any other. They do not show everything: an earlier wording of
`BodyFitsCommand`, that a late answer is one whose own round-trip was given up, holds
for two and fails for three, where the second reads the answer to the first and leaves
its own to the third. The proof, which is for any number, brought that up; the property
now speaks of an answer at least as old.

**msg_loop** (about 379,000 states). Two callers, the chain of qemu-sp with the
TPM stub, every command of firmware management and of UCSI with and without its
doorbell, commands that qemu-sp's battery, Thermal and Notify know and one that each does
not, and a UUID that no service has. One SMC may fail, at any place: after it the partition is
dead, or has dropped one caller, and goes on as before, so a second failure adds
nothing. Deadlock is not checked, since the partition may be dead and its callers
blocked for good.

**ffa** (about 76,000 states). `BYTE` is 8: a byte has 3 bits, a u16 6, a u64 24, and
counts of bytes and registers are the code's own. Values are zero, one, all ones
(of a flag word) and some that differ in every half and byte. Records have lengths
around those of a register (8) and a call (128), 136 and 137 bytes, which would
need an eighteenth register, and several pieces, empty ones too. A refusal is
possible at every call of a record and of the panic handler's own.

**interrupts** (833 states, up to the symmetry of interrupts, which are only
compared). Two interrupts, so that one can be raised while the other is handled,
and four nested contexts, critical sections and interrupts in any order.
Deadlock is not checked, since a partition that has panicked waits for ever.

Deadlock is checked in the other runs: there the environment can always act.
`ec_relay` stays within `MaxInvokes`; the transmit flag still toggles after the
last one.

**Fairness.**
- `TpmSst` assumes that the library runs on while the partition is scheduled and
  that its counter counts (weak fairness of `SstStep` and `timeout_expired`), and
  nothing of the TPM.
- In `EcRelay`, the relay's own steps are weakly fair: the SP runs its loop on.
  `send_packet` is strongly fair since `write_bytes` polls again and again and sees
  TXFF clear at some poll if it is clear infinitely often; `TxDrains` is weakly
  fair: the UART sends what it holds. The EC and the line are not assumed to do
  anything: an invocation returns from a dead EC, by the budget.
- `EcChannel` has sending and returning weakly fair, which `ImplementsChannel` shows
  of the relay; `EcServices` adds the handler's own last step. Nothing is assumed of
  the EC.
- `MsgLoop` has the partition's own steps weakly fair: it runs when it has a
  request. The SPMC delivers what it likes.
- `FfaConsole` has the steps of a log weakly fair: the SPMC returns from
  `FFA_CONSOLE_LOG`, with any answer.

### What the violations mean

Each of these is a disagreement between a comment in the source and the code, met
while modelling. `PROJECT.json` quotes the comments.

- `notify_bit0`: Setup c0 on bit 0; Unassign c0; Setup c1 on bit 0; Assign c0 to 0
  succeeds, because it first releases "its" bit 0, which is c1's.
- `tpm_session`: request locality 0, cmdReady, relinquish, request locality 1: its
  session starts in READY.
- `tpm_sst_late`: through the FIFO, a first start writes part of a command and its
  burst count stays zero for 30 ms. The service stays in READY. The bytes of the
  next start complete the first command, which the TPM executes. The same happens
  when a command outlasts the 90 s of `PTP_TIMEOUT_MAX`: the next start is ignored
  by the TPM and returns the first one's response.
- `ec_relay_stale`: request 1 times out; its answer arrives while request 2, for
  the same response id, is waiting.

Two more observations have no run of their own. GetBst (`services/battery.rs:131`)
takes its four fields and ignores what follows, although the comment on the relay
speaks of exact response parsers; the models have it so (`parse |-> "prefix"`).
`EC_CAP_MAP_SHARE` can never succeed: the one answer that
`FFA_MEM_RETRIEVE_REQ` has besides an error is not among those that
`handle_result_simple` takes for a success, so its caller gets no answer.

## Proofs

All theorems hold for every value of the constants that meets the ASSUMEs in the
modules. They ask for positive sizes and well-formed requests, and beyond that:
- `TpmService`: at least two localities and at most 255, `NUM_LOCALITIES` being a u8
  whose value is the sentinel.
- `MsgLoop`: a chain of services that have a UUID (`ChainAssumption`).
- `EcServices`: the commands of the three services are among the channel's.
- `EcMessages`: discriminants of the EC's errors are numbers (`DiscriminantAssumption`).
- `FfaCalls`: a byte has at least two values (`ByteAssumption`), and their number is a
  power of two, put as: it has no odd divisor but 1 (`PowerAssumption`). The second is
  what makes the bitwise or of two disjoint halves a sum.
- `FfaConsole` and `FfaBoundary`: records are texts, and sample values have the widths
  of their fields.

**NotifyProofs.**
- `TypeCorrect`, `UnwrapSafe`: from `TypeOK /\ Validated`. Types alone are not
  inductive: the second loop of Assign stores ids that only the first has compared
  with the bitmap's width. `Validated` records, for the loop the handler is in,
  which tuples have a known cookie and an id in range, and that applying a tuple
  hides no cookie.
- `OneEntry`: entries' UUIDs change in `find_or_create_entry` alone.
- `FailedRequestsChangeNothing`: from `Untouched`: while a handler can still fail,
  the tables are those of its arrival, and entries not in use are empty.
- `OwnersFree`: from `CopyInv`: where the copy differs from the table, Destroy has
  compared the owner.
- `BitmapStaysExact`, of all requests and for every bit but 0: from `BitInv`, which
  says of a bit that was exact when the request came and is not `Muddled`, and of
  each loop, which table and which bitmap are exact: the copies of Setup and
  Destroy, the table of Unassign against the new bitmap, and for Assign the bits
  that mappings *will* hold (`FutureHolders`) against the simulated bitmap.
  `FreeSlotsClear` keeps unused slots from holding bits.

**TpmServiceProofs.** Requests may come before init and after deinit too. The invariants of the run are inductive as one
conjunction, `SessionInv` (`CrbAgrees` by its two parts). `CallAuthorised` is what
the others need: when a call returns, the locality it was made for is still the active one, or none is.
`FailuresKeepSession`, `LocalitiesAreIsolated` and `SessionsHeld` are action
properties proved from it; the last says that the session of the active locality
is changed only by calls for that locality and by deinit.

**TpmSstProofs.** `TypeCorrect`, `CopiesHold`, `ViewHolds`, `OwnHolds`, `PanicHolds`.
The properties speak of a call's end or of a panic, so the invariant has to say what
is true at each `pc` on the way: `Ops`, which operation a loop belongs to; `Bounds`,
the lengths that have been compared with capacity and buffer by then; and `Session`,
which registers are pending for which locality, what state the TPM can be in, and how
much of which packet has gone through. `Session` holds only until a call fails half
way, which is exactly where `tpm_sst_late` begins.

**EcRelayProofs.** `TypeCorrect`, `LagHolds`, `ChannelSafety`.
- `LagBounded` compares two numbers at a return. What makes it hold is `InOrder`: along
  FIFO, line and EC queue the numbers do not fall and rise after an END flag, each
  belongs to a request that was sent, and each exceeds the number of END flags read so
  far. A lost byte can only shorten that stream.
- `ChannelSafety`: `Spec => Channel!Safety`, the safety half of `ImplementsChannel`. The
  answers in flight are the whole frames of the byte stream, listed by where they end,
  so the first lemmas are about listing a set of numbers in increasing order
  (`SortedLists`: such a list exists, is unique and is what `Sorted` picks). Then what
  each move of bytes does to that list: bytes appended by the EC add a frame at its end
  (`FrameAppended`), and a cut anywhere takes at most one frame out, the first one if
  the cut is at the start (`CutFrames`). No frame becomes whole by losing bytes
  (`NothingJoined`), because the bytes of the stream are strictly ordered by number and
  place. That order is the invariant, `Streaming`, with: the numbers in the stream are
  below those the EC has still to answer, and the buffer holds no END flag.

**EcServicesProofs.** `TypeCorrect`, `BodiesFit`, `StatusHolds`, for any number of
round-trips. `Flight` says that what is pending or in flight was sent, and that an
answer is the one to its request; `InOrder` that numbers rise along the channel;
`Execution` that what has been executed is no longer pending; `Outcome` and `Handled`
tie the reply to the answer it was made from, and a late answer to a round-trip that
was given up no later than the one it answers. `StatusHolds` is for any set of
discriminants, 0 among them or not.

**MsgLoopProofs.** `TypeCorrect`, `AnswersMatch`, `NothingLost`, `MailboxesConsistent`,
and `ServerSafety`: `Spec => Server!Safety`, the safety half of `ImplementsServer`, in
which each step of the loop is a step of the server or a stutter. The invariant ties
the message that is being handled to the one caller that is served (`Holding`), says
how the result that is about to be sent came about (`Handled`), and that requests name
the caller that made them (`RequestsMade`, `Records`). `MailboxesConsistent` follows from `AnswersMatch` and from
what `ucsi_handle` computes.

**InterruptsProofs.** `TypeCorrect`, `ExclusionHolds`, `QuietHolds`, `MaskedHolds`, for
any depth of nesting. `Nesting`: the outermost context restores what `main` left, those
above it are critical sections, and all of them keep interrupts masked. `Handling`: a
handler was entered with interrupts enabled, nothing is nested in it while it talks to
the hypervisor, and an interrupt is active between those two calls only.

**FfaProofs.** `PrintedHolds`, `TypeCorrect`, `RoundTripHolds`, `LayoutCorrect`.
- Induction over a data set is done with the library's theorem on minimal elements of
  a well-founded relation, which takes a set and no operator (`NatSetInduction`, here
  and in `EcRelayProofs`);
  `NatFunction` derives from it that recursive functions over Nat exist, which is what
  `Or` and `FlattenSeq` need before anything can be said of their values.
- `PrintedHolds`: the invariant is that what has been printed, followed by the pieces
  still to do, is the record. `Written` says that a console call of at most 128 bytes shows
  those bytes, through `Bytes` and `BytesOf` (eight bytes and a u64 are the same thing).
- `RoundTripHolds`: one lemma for each call (`...Carried`), which says that a call with
  fields of the right widths comes back from its registers. They rest on `OrHalves`
  (or of disjoint halves is their sum), `Pair`, `Long` and `Low` (halves of a word) and
  `Swapped` (the byte swap of UUIDs is its own inverse). The invariant `Underway` says
  that between the two sides the registers are those of a well-typed call.
- `LayoutCorrect`: from `Underway` and one lemma for each call (`...Placed`). `LayoutHolds`
  sums over a set of fields with the library's fold, whose recursion is over subsets:
  `SummedExists` shows that it has a solution for a finite set, by recursion on the
  cardinality, and `TakenOut` that any element may be taken out first. What remains are
  sums of no, one, two or eight fields (`TotalNone` to `TotalEight`), no two of which
  have the same unit (`UnitsDiffer`).

**Only model-checked.**
- Liveness and ENABLED, which are out of the prover's reach: `CallReturns`,
  `LogReturns`, `Answered`, and the fairness half of `ImplementsServer` and
  `ImplementsChannel`.

## Not modelled

- `espi-device`: register fields and opcode encodings, tables of constants for a
  device that the partitions here do not drive.
- `dev-hooks`: build tooling.
- Page tables, linker scripts, image entry and the start of the platforms before
  `main`: straight-line hardware set-up.
- The memory structures of ihv1-sp (`ec_memory`) and the mapping of the RX/TX
  buffers: layouts that nothing in the repository reads back.
- Vectors for lower exception levels and synchronous exceptions, which only panic.
- The numbers of FF-A function ids and error codes, and the fields inside the
  bodies that the relay-backed services copy.

## Plan

1. `TpmStack`: `TpmService` over an abstract SST call (it takes effect and returns
   Ok, or it fails) that `TpmSst` refines where it holds.
2. An abstract bit allocator that `Notify` implements under
   requests that repeat no cookie, and away from bit 0.
