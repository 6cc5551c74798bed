------------------------------- MODULE TpmSst -------------------------------
(***************************************************************************)
(* The TPM state translation library (ec-service-lib/src/services/         *)
(* tpm_sst.rs): each operation writes a register of the TPM and polls      *)
(* another until it shows what the operation asked for, or until a timeout.*)
(* The TPM, with its CRB or its FIFO interface, is external: it is         *)
(* modelled by what the library expects of it, and it may be slow.  What   *)
(* it was asked for before a timeout it may still do after it.             *)
(*                                                                         *)
(* The caller is the TPM service: view holds its active_locality and       *)
(* current_state, which limit its calls and change when a call returns Ok. *)
(* It is a service that keeps to the normal flow and relinquishes a        *)
(* locality in Idle.  The memory it shares with the host is read where the *)
(* code reads it, and a read may return anything the host can have stored. *)
(*                                                                         *)
(* A poll that finds neither the bits nor the timeout yields and polls     *)
(* again: it changes nothing and is not a step here, unless the SPMC       *)
(* refuses the yield, which panics the partition in the middle of a call.  *)
(*                                                                         *)
(* A definition that stands before another with the same name and a suffix *)
(* (tpm_packet_length_min) is a faulty variant of it, which the properties *)
(* tell apart from the code; the specification uses none.                  *)
(***************************************************************************)
EXTENDS Naturals

CONSTANTS
  Locality,
  NO_ACTIVE_LOCALITY,
  CommandId,             \* commands that the host may put in the buffer
  TPM_HEADER_SIZE,
  CRB_DATA_BUFFER_SIZE,
  Size                   \* values of length and capacity fields

ASSUME LocalityAssumption == NO_ACTIVE_LOCALITY \notin Locality
ASSUME SizeAssumption ==
  /\ TPM_HEADER_SIZE \in Nat \ {0}
  /\ CRB_DATA_BUFFER_SIZE \in Nat /\ TPM_HEADER_SIZE <= CRB_DATA_BUFFER_SIZE
  /\ Size \subseteq Nat

NoId == "none"
Id == CommandId \cup {NoId}
Op == {"go_idle", "cmd_ready", "start", "locality_request",
       "locality_relinquish"}
TpmState == {"Idle", "Ready", "Complete"}

\* The external TPM: who has it, what it has been asked for and has not done,
\* what it is doing, and the packet in its buffer.  length is the length field
\* of the packet; moved counts the bytes of it that went through the FIFO.
Tpm == [locality : Locality \cup {NO_ACTIVE_LOCALITY},
        control : SUBSET (Locality \X {"request", "relinquish"}),
        request : SUBSET {"goIdle", "cmdReady"},
        state : {"Idle", "Ready", "Reception", "Executing", "Completion"},
        id : Id, length : Nat, moved : Nat]

\* The loops of wait_register_bits, and the other points of an operation.
Waits == {"request_clear", "control_status", "sts_ready", "granted",
          "released", "sts_expect", "started"}
Points == {"idle", "command", "go", "response", "panicked"}

VARIABLES
  is_crb,       \* is_crb_interface
  idle_bypass,  \* is_idle_bypass_supported
  pc,           \* where the operation is; "idle" if none is under way
  call,         \* the operation and its locality
  expired,      \* timeout_expired(...) of the current loop
  packet,       \* tpm_command_buffer: id and length of what is in it
  capacity,     \* command_capacity and response_capacity
  index,        \* bytes of the packet that were copied so far
  tpm,          \* the external TPM
  view,         \* the caller's active_locality and current_state
  result,       \* what the last operation returned, until the next begins
  failed        \* history: an operation failed after it had written a register

local == <<packet, capacity, index>>
caller == <<view, result, failed>>
vars == <<is_crb, idle_bypass, pc, call, expired, local, tpm, caller>>

NoCall == [op |-> "none", locality |-> NO_ACTIVE_LOCALITY]
NoPacket == [id |-> NoId, length |-> 0]
NoCapacity == [command |-> 0, response |-> 0]
NoResult == [op |-> "none", code |-> "Ok", sent |-> NoId, received |-> NoId]

\* After TpmSst::init, which has read the kind of interface.
Init ==
  /\ is_crb \in BOOLEAN
  /\ idle_bypass \in BOOLEAN
  /\ pc = "idle"
  /\ call = NoCall
  /\ expired = FALSE
  /\ packet = NoPacket
  /\ capacity = NoCapacity
  /\ index = 0
  /\ tpm = [locality |-> NO_ACTIVE_LOCALITY, control |-> {}, request |-> {},
            state |-> "Idle", id |-> NoId, length |-> 0, moved |-> 0]
  /\ view = [locality |-> NO_ACTIVE_LOCALITY, state |-> "Idle"]
  /\ result = NoResult
  /\ failed = FALSE

-----------------------------------------------------------------------------
(* The registers.  The TPM ignores the control registers of a locality     *)
(* that does not have it.                                                  *)

Owned == tpm.locality = call.locality

\* The TPM after a command, or the next part of one, was written.  Through
\* the FIFO the bytes join those of a command that is only partly there.  A TPM
\* that is idle or busy ignores them.
Load(id, length, moved) ==
  CASE Owned /\ (tpm.state = "Ready" \/ (is_crb /\ tpm.state # "Executing"
                                                  /\ tpm.state # "Idle")) ->
         [tpm EXCEPT !.state = "Reception", !.id = id, !.length = length,
                     !.moved = moved]
    [] Owned /\ ~is_crb /\ tpm.state = "Reception" ->
         [tpm EXCEPT !.moved = IF @ + moved < tpm.length THEN @ + moved
                                                         ELSE tpm.length]
    [] OTHER -> tpm

\* What the write of the start or the tpmGo bit does.
Go == IF Owned /\ tpm.state = "Reception"
        THEN [tpm EXCEPT !.state = "Executing"] ELSE tpm

\* A locality that has the TPM does not have to ask for it, and a TPM that is
\* ready through its FIFO does not have to get ready.
AskControl(l, bit) ==
  IF bit = "request" <=> tpm.locality = l
    THEN tpm ELSE [tpm EXCEPT !.control = @ \cup {<<l, bit>>}]

AskRequest(l, bit) ==
  IF tpm.locality # l \/ (~is_crb /\ tpm.state = "Ready")
    THEN tpm ELSE [tpm EXCEPT !.request = @ \cup {bit}]

-----------------------------------------------------------------------------
(* Calls.                                                                  *)

\* The operation writes a register and enters its first polling loop.
Begin(op, l, label, t) ==
  /\ pc = "idle"
  /\ call' = [op |-> op, locality |-> l]
  /\ pc' = label
  /\ expired' = FALSE
  /\ tpm' = t
  /\ result' = NoResult
  /\ UNCHANGED <<is_crb, idle_bypass, local, view, failed>>

\* The FIFO interface has no goIdle: going idle is commandReady there.
go_idle(l) ==
  /\ view.locality = l /\ view.state # "Idle"
  /\ \/ is_crb /\ Begin("go_idle", l, "request_clear", AskRequest(l, "goIdle"))
     \/ ~is_crb /\ Begin("go_idle", l, "sts_ready", AskRequest(l, "cmdReady"))

cmd_ready(l) ==
  /\ view.locality = l
  /\ view.state = "Complete" => idle_bypass
  /\ Begin("cmd_ready", l, IF is_crb THEN "request_clear" ELSE "sts_ready",
           AskRequest(l, "cmdReady"))

locality_request_steals(l) ==
  Begin("locality_request", l, "granted", AskControl(l, "request"))
locality_request(l) ==
  /\ view.locality \in {NO_ACTIVE_LOCALITY, l}
  /\ Begin("locality_request", l, "granted", AskControl(l, "request"))

locality_relinquish(l) ==
  /\ view.locality = l /\ view.state = "Idle"
  /\ Begin("locality_relinquish", l, "released", AskControl(l, "relinquish"))

\* An operation returns; the service follows an Ok.
view_after(op, l) ==
  CASE op = "go_idle" -> [view EXCEPT !.state = "Idle"]
    [] op = "cmd_ready" -> [view EXCEPT !.state = "Ready"]
    [] op = "start" -> [view EXCEPT !.state = "Complete"]
    [] op = "locality_request" -> [view EXCEPT !.locality = l]
    [] op = "locality_relinquish" ->
         [view EXCEPT !.locality = NO_ACTIVE_LOCALITY]

Return(code, sent, received, touched) ==
  /\ pc' = "idle"
  /\ call' = NoCall
  /\ expired' = FALSE
  /\ packet' = NoPacket /\ capacity' = NoCapacity /\ index' = 0
  /\ result' = [op |-> call.op, code |-> code, sent |-> sent,
                received |-> received]
  /\ view' = IF code = "Ok" THEN view_after(call.op, call.locality) ELSE view
  /\ failed' = (failed \/ (touched /\ code # "Ok"))
  /\ UNCHANGED <<is_crb, idle_bypass>>

Fail(code) == Return(code, packet.id, NoId, TRUE) /\ UNCHANGED tpm

-----------------------------------------------------------------------------
(* The polling loops.                                                      *)

\* The CRB interface clears the bit of a request it has taken up, and shows
\* whether it is idle.
request_clear ==
  (IF call.op = "go_idle" THEN "goIdle" ELSE "cmdReady") \notin tpm.request

control_status == (tpm.state = "Idle") = (call.op = "go_idle")

\* A command has been executed: the start bit is clear, or there is data.
started_unchecked == TRUE
started ==
  \/ is_crb /\ tpm.state # "Executing"
  \/ ~is_crb /\ tpm.state = "Completion" /\ tpm.moved < tpm.length

released_unchecked == TRUE
released == tpm.locality # call.locality

\* The bits that end the loop at label.
bits_ok(label) ==
  CASE label = "request_clear" -> request_clear
    [] label = "control_status" -> control_status
    [] label = "sts_ready" -> tpm.state = "Ready"
    [] label = "granted" -> tpm.locality = call.locality
    [] label = "released" -> released
    [] label = "sts_expect" -> tpm.state # "Reception" \/ tpm.moved >= tpm.length
    [] label = "started" -> started

\* What follows a loop that ended well, inside one operation.
Following == [request_clear |-> "control_status", sts_expect |-> "go",
              started |-> "response"]

\* The loop ends well.
Proceed ==
  \/ /\ pc \in DOMAIN Following
     /\ pc' = Following[pc]
     /\ expired' = FALSE
     /\ index' = 0
     /\ packet' = [packet EXCEPT !.length = 0]
     /\ UNCHANGED <<is_crb, idle_bypass, call, capacity, tpm, caller>>
  \/ /\ pc \notin DOMAIN Following
     /\ Return("Ok", NoId, NoId, TRUE)
     /\ UNCHANGED tpm

wait_register_bits_forever == pc \in Waits /\ bits_ok(pc) /\ Proceed
\* The poll that ends the loop: the bits are as they should be, or they are
\* not and the time is over.
wait_register_bits ==
  /\ pc \in Waits
  /\ \/ bits_ok(pc) /\ Proceed
     \/ ~bits_ok(pc) /\ expired /\ Fail("Denied")

\* The timer of the current loop, or of fifo_read_burst_count, runs out.
timeout_expired ==
  /\ pc \in Waits \/ (~is_crb /\ pc \in {"command", "response"})
  /\ ~expired
  /\ expired' = TRUE
  /\ UNCHANGED <<is_crb, idle_bypass, pc, call, local, tpm, caller>>

\* Yield::exec in a loop that has neither its bits nor, for a burst, a count,
\* and time left: the answer is unwrapped.
Yield_refused ==
  /\ \/ pc \in Waits /\ ~bits_ok(pc)
     \/ ~is_crb /\ pc \in {"command", "response"}
  /\ ~expired
  /\ pc' = "panicked"
  /\ UNCHANGED <<is_crb, idle_bypass, call, expired, local, tpm, caller>>

\* The panic handler waits for good.
wfe == pc = "panicked" /\ UNCHANGED vars

-----------------------------------------------------------------------------
(* start: the command is copied to the TPM, executed, and the response     *)
(* copied back.                                                            *)

InBuffer(size) == size \in TPM_HEADER_SIZE .. CRB_DATA_BUFFER_SIZE

tpm_packet_length_min(length, room) == length >= TPM_HEADER_SIZE
tpm_packet_length_max(length, room) == InBuffer(length)
\* tpm_packet_length is Ok.
tpm_packet_length(length, room) ==
  InBuffer(room) /\ length \in TPM_HEADER_SIZE .. room

\* The capacities, the header and the body are read from the shared memory,
\* each once, and checked before the TPM is touched.
start(l) ==
  /\ pc = "idle"
  /\ view.locality = l
  /\ view.state = "Ready" \/ (view.state = "Complete" /\ idle_bypass)
  /\ \E command, response, length \in Size, id \in CommandId :
       LET valid == InBuffer(command) /\ InBuffer(response)
                      /\ tpm_packet_length(length, command)
       IN  \/ /\ valid
              /\ pc' = "command"
              /\ call' = [op |-> "start", locality |-> l]
              /\ capacity' = [command |-> command, response |-> response]
              /\ packet' = [id |-> id, length |-> length]
              /\ result' = NoResult
           \/ /\ ~valid
              /\ result' = [op |-> "start", code |-> "InvalidParameters",
                            sent |-> NoId, received |-> NoId]
              /\ UNCHANGED <<pc, call, capacity, packet>>
  /\ UNCHANGED <<is_crb, idle_bypass, expired, index, tpm, view, failed>>

\* The bytes that one pass of a copy loop moves: all that remain up to target
\* through the CRB, a burst of any size through the FIFO.
Burst(target) == IF is_crb THEN {target - index} ELSE 1 .. (target - index)

\* One burst of the command; a burst count that stays zero is an error.
copy_command_data ==
  /\ pc = "command"
  /\ \/ \E n \in Burst(packet.length) :
          /\ tpm' = Load(packet.id, packet.length, n)
          /\ index' = index + n
          /\ pc' = IF index' < packet.length THEN "command"
                   ELSE IF is_crb THEN "go" ELSE "sts_expect"
          /\ expired' = FALSE
          /\ UNCHANGED <<is_crb, idle_bypass, call, packet, capacity, caller>>
     \/ ~is_crb /\ expired /\ Fail("Denied")

\* The start bit, or tpmGo, is set, and the wait for its effect begins.
start_command ==
  /\ pc = "go"
  /\ tpm' = Go
  /\ pc' = "started"
  /\ UNCHANGED <<is_crb, idle_bypass, call, expired, local, caller>>

\* What the header holds.  A read that does not begin where the TPM's packet
\* begins takes other bytes for a header.
Aligned == is_crb \/ tpm.moved = index
header_lengths == IF Aligned THEN {tpm.length} ELSE Size

Data == tpm.state = "Completion" /\ tpm.moved < tpm.length

\* One pass of the loops of read_tpm_response: the header up to its end, where
\* the length is checked, then the rest.  Through the FIFO each burst is
\* preceded by its count and each byte by a look at the DATA bit.
copy_response_data ==
  /\ pc = "response"
  /\ LET target == IF index < TPM_HEADER_SIZE THEN TPM_HEADER_SIZE
                                              ELSE packet.length
     IN  /\ index < target
         /\ \/ \E n \in Burst(target), length \in header_lengths :
                 /\ is_crb \/ tpm.moved + n <= tpm.length
                 /\ is_crb \/ Data
                 /\ LET checked == index + n = TPM_HEADER_SIZE IN
                    \/ /\ checked
                       /\ ~tpm_packet_length(length, capacity.response)
                       /\ Return("InvalidParameters", packet.id, NoId, TRUE)
                    \/ /\ checked => tpm_packet_length(length, capacity.response)
                       /\ index' = index + n
                       /\ packet' = IF checked
                                      THEN [packet EXCEPT !.length = length]
                                      ELSE packet
                       /\ expired' = FALSE
                       /\ UNCHANGED <<is_crb, idle_bypass, pc, call, capacity,
                                      caller>>
                 /\ tpm' = IF is_crb THEN tpm ELSE [tpm EXCEPT !.moved = @ + n]
            \/ ~is_crb /\ (expired \/ ~Data) /\ Fail("Denied")

\* The response is copied to the shared memory and start returns.
start_return ==
  /\ pc = "response"
  /\ index >= TPM_HEADER_SIZE /\ index = packet.length
  /\ Return("Ok", packet.id,
            IF Aligned /\ tpm.state = "Completion" THEN tpm.id ELSE NoId, TRUE)
  /\ UNCHANGED tpm

-----------------------------------------------------------------------------
(* The TPM does what it was asked to, in its own time.                     *)

Hardware(t) ==
  tpm' = t /\ UNCHANGED <<is_crb, idle_bypass, pc, call, expired, local, caller>>

TpmGrants(l) ==
  /\ <<l, "request">> \in tpm.control
  /\ tpm.locality = NO_ACTIVE_LOCALITY
  /\ Hardware([tpm EXCEPT !.locality = l, !.control = @ \ {<<l, "request">>}])

TpmReleases(l) ==
  /\ <<l, "relinquish">> \in tpm.control
  /\ Hardware([tpm EXCEPT !.locality = NO_ACTIVE_LOCALITY,
                          !.control = @ \ {<<l, "relinquish">>}])

\* commandReady aborts a command that is executed through the FIFO.
TpmTakesRequest(bit) ==
  /\ bit \in tpm.request
  /\ tpm.state = "Executing" => ~is_crb
  /\ Hardware([tpm EXCEPT !.request = @ \ {bit},
                          !.state = IF bit = "goIdle" THEN "Idle" ELSE "Ready",
                          !.moved = 0])

TpmCompletes ==
  /\ tpm.state = "Executing"
  /\ \E n \in Size :
       Hardware([tpm EXCEPT !.state = "Completion", !.length = n, !.moved = 0])

-----------------------------------------------------------------------------
SstStep == wait_register_bits \/ copy_command_data \/ start_command
             \/ copy_response_data \/ start_return

Next ==
  \/ \E l \in Locality :
       \/ go_idle(l) \/ cmd_ready(l) \/ start(l)
       \/ locality_request(l) \/ locality_relinquish(l)
  \/ SstStep
  \/ timeout_expired \/ Yield_refused \/ wfe
  \/ \E l \in Locality : TpmGrants(l) \/ TpmReleases(l)
  \/ \E bit \in {"goIdle", "cmdReady"} : TpmTakesRequest(bit)
  \/ TpmCompletes

\* The library keeps running while the partition is scheduled, and the counter
\* it measures time with keeps counting.  Nothing is assumed of the TPM.
Fairness == WF_vars(SstStep) /\ WF_vars(timeout_expired)

Spec == Init /\ [][Next]_vars /\ Fairness

-----------------------------------------------------------------------------
(* Properties.                                                             *)

\* Every copy stays inside the local tpm_command_buffer: an index past its end
\* would panic the partition.
TypeOK ==
  /\ is_crb \in BOOLEAN /\ idle_bypass \in BOOLEAN
  /\ pc \in Waits \cup Points
  /\ call \in [op : Op \cup {"none"}, locality : Locality \cup {NO_ACTIVE_LOCALITY}]
  /\ expired \in BOOLEAN
  /\ packet \in [id : Id, length : 0 .. CRB_DATA_BUFFER_SIZE]
  /\ capacity \in [command : 0 .. CRB_DATA_BUFFER_SIZE,
                   response : 0 .. CRB_DATA_BUFFER_SIZE]
  /\ index \in 0 .. CRB_DATA_BUFFER_SIZE
  /\ tpm \in Tpm
  /\ view \in [locality : Locality \cup {NO_ACTIVE_LOCALITY}, state : TpmState]
  /\ result \in [op : Op \cup {"none"},
                 code : {"Ok", "Denied", "InvalidParameters"},
                 sent : Id, received : Id]
  /\ failed \in BOOLEAN

\* What is copied to the TPM is within the command capacity and what is copied
\* back within the response capacity that the host had declared when start
\* read them, whatever length the host's or the TPM's header claims.
CopiesBounded ==
  /\ pc = "command" =>
       index <= packet.length /\ packet.length <= capacity.command
  /\ pc = "response" =>
       /\ packet.length <= capacity.response
       /\ index > TPM_HEADER_SIZE => index <= packet.length

\* Between two calls, as long as none has failed half way, nothing is left for
\* the TPM to do (what was asked for has been done, not only accepted), and the
\* locality and the state that the service keeps are those of the TPM.  Through
\* the FIFO an idle TPM is a ready one.
ViewAgrees ==
  pc = "idle" /\ ~failed =>
    /\ tpm.control = {} /\ tpm.request = {}
    /\ tpm.locality = view.locality
    /\ CASE view.state = "Idle" ->
              tpm.state = "Idle" \/ (~is_crb /\ tpm.state = "Ready")
         [] view.state = "Ready" -> tpm.state = "Ready"
         [] view.state = "Complete" -> tpm.state = "Completion"

\* As long as no call has failed half way, an Ok of start has handed to the
\* host the response to the command that start was given.
OwnResponse ==
  result.op = "start" /\ result.code = "Ok" /\ ~failed =>
    result.received = result.sent

\* start "executes the command, and copies the response back": with an Ok it
\* never hands over the response to another command.
NoOtherResponse ==
  result.op = "start" /\ result.code = "Ok" =>
    result.received \in {result.sent, NoId}

\* A panic in the middle of a call leaves the TPM to the locality that has it,
\* with at most that one call's requests to do, as long as none has failed half
\* way: no other locality's session is touched.
PanicConfined ==
  pc = "panicked" /\ ~failed =>
    /\ tpm.locality \in {NO_ACTIVE_LOCALITY, call.locality}
    /\ \A c \in tpm.control : c[1] = call.locality
    /\ tpm.state = "Executing" => call.op = "start"

\* Every operation returns, whatever the TPM does and however slow it is,
\* unless the SPMC refuses a yield.
CallReturns == (pc # "idle") ~> (pc \in {"idle", "panicked"})
=============================================================================
