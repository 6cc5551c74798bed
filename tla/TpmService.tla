----------------------------- MODULE TpmService -----------------------------
(***************************************************************************)
(* The TPM service (ec-service-lib/src/services/tpm.rs): one internal CRB  *)
(* (command/response buffer) per locality, in memory shared with the host, *)
(* and a state machine that turns Start requests into calls of the state   *)
(* translation library (SST), which drives the real TPM.                   *)
(*                                                                         *)
(* As the Rust struct is generic in S: TpmSstOps, the SST is here any      *)
(* implementation of that trait: a call takes a while and then returns any *)
(* code.  The SST polls the hardware and yields to the host between polls, *)
(* so the host may write the shared registers while a call is under way;   *)
(* it may do so between requests too.  Requests are handled one at a time. *)
(*                                                                         *)
(* A definition that stands before another with the same name and a suffix *)
(* (clean_internal_crb_zeroing) is a faulty variant of it, which the       *)
(* properties tell apart from the code; the specification uses none.       *)
(***************************************************************************)
EXTENDS Naturals

CONSTANTS
  NUM_LOCALITIES,
  Requests,               \* the direct requests the service may receive
  InitialCrb,             \* what the CRB memory may hold before init
  LocalityControlValues,  \* values the host stores in locality_control
  ControlRequestValues    \* values the host stores in crb_control_request

NO_ACTIVE_LOCALITY == NUM_LOCALITIES
Locality == 0 .. NUM_LOCALITIES - 1
TpmFunction == {"GetInterfaceVersion", "GetFeatureInfo", "Start",
                "RegisterForNotification", "UnregisterForNotification",
                "FinishNotified", "ManageLocality", "Other"}
QUALIFIER_COMMAND == 0  \* TPM2_FFA_START_FUNC_QUALIFIER_COMMAND
QUALIFIER_LOCALITY == 1 \* TPM2_FFA_START_FUNC_QUALIFIER_LOCALITY
OPEN == 0               \* TPM2_FFA_MANAGE_LOCALITY_OPEN
CLOSE == 1              \* TPM2_FFA_MANAGE_LOCALITY_CLOSE
NOTIFICATION_FEATURE == 251659009   \* RegisterForNotification = 0x0f00_0301

TpmRequest == [opcode : TpmFunction, function : Nat, locality : Nat,
               source_id : 0 .. 65535]
TpmStatus == {"Ok", "OkResultsReturned", "NoFunc", "NotSup", "InvArg",
              "InvCrbCtrlData", "Already", "Denied", "NoMem"}
TpmState == {"Idle", "Ready", "Complete"}
TpmLocalityState == {"Closed", "Open"}

\* What the service reads and writes of PtpCrbRegisters.  The bits of
\* locality_state and the granted bit of locality_status are only ever set
\* together and cleared together: one flag stands for them.
Crb == [locality_control : SUBSET {"request_access", "relinquish"},
        granted : BOOLEAN,
        crb_control_request : SUBSET {"cmdReady", "goIdle"},
        crb_control_start : BOOLEAN,
        tpm_idle : BOOLEAN,
        crb_data_buffer : {"zero", "command", "response"}]

\* TpmSstOps, and the codes an implementation may return.
CommandOp == {"go_idle", "cmd_ready", "start"}
LocalityOp == {"locality_request", "locality_relinquish"}
ErrorCode == {"Ok", "Denied", "NoMemory", "InvalidParameters"}

ASSUME LocalitiesAssumption == NUM_LOCALITIES \in 2 .. 255
ASSUME RequestsAssumption == Requests \subseteq TpmRequest
ASSUME CrbAssumption ==
  /\ InitialCrb \subseteq Crb
  /\ LocalityControlValues \subseteq SUBSET {"request_access", "relinquish"}
  /\ ControlRequestValues \subseteq SUBSET {"cmdReady", "goIdle"}

VARIABLES
  phase,                    \* "new", "up" after init, "down" after deinit
  current_state,
  active_locality,
  locality_states,
  notification_registered,
  crb,                      \* the internal CRB of each locality
  idle_bypass,              \* sst.is_idle_bypass_supported()
  call,                     \* the SST call under way; op "none" if there is none
  status                    \* status of the last answer

service == <<current_state, active_locality, locality_states,
             notification_registered>>
vars == <<phase, service, crb, idle_bypass, call, status>>

NoCall == [op |-> "none", locality |-> 0]

\* TpmService::new
Init ==
  /\ phase = "new"
  /\ current_state = "Idle"
  /\ active_locality = NO_ACTIVE_LOCALITY
  /\ locality_states = [l \in Locality |-> "Closed"]
  /\ notification_registered = FALSE
  /\ crb \in [Locality -> InitialCrb]
  /\ idle_bypass \in BOOLEAN
  /\ call = NoCall
  /\ status = "Ok"

-----------------------------------------------------------------------------
(* The internal CRBs.                                                      *)

\* All registers and the buffer zeroed, tpmIdle set.
init_internal_crb == [locality_control |-> {}, granted |-> FALSE,
                      crb_control_request |-> {}, crb_control_start |-> FALSE,
                      tpm_idle |-> TRUE, crb_data_buffer |-> "zero"]

clean_internal_crb_stale_idle(c, active, state) ==
  IF active = NO_ACTIVE_LOCALITY THEN c
  ELSE [c EXCEPT ![active] =
          [@ EXCEPT !.locality_control = {}, !.granted = TRUE,
                    !.crb_control_request = {}, !.crb_control_start = FALSE]]
clean_internal_crb_zeroing(c, active, state) ==
  IF active = NO_ACTIVE_LOCALITY THEN c
  ELSE [c EXCEPT ![active] =
          [init_internal_crb EXCEPT !.granted = TRUE,
                                    !.tpm_idle = (state = "Idle")]]
\* The CRBs c after clean_internal_crb, which runs in the new state.
clean_internal_crb(c, active, state) ==
  IF active = NO_ACTIVE_LOCALITY THEN c
  ELSE [c EXCEPT ![active] =
          [locality_control |-> {}, granted |-> TRUE,
           crb_control_request |-> {}, crb_control_start |-> FALSE,
           tpm_idle |-> (state = "Idle"),
           crb_data_buffer |-> c[active].crb_data_buffer]]

convert_error_to_status_raw(code) == code
convert_error_to_status(code) ==
  CASE code = "Ok" -> "Ok"
    [] code = "NoMemory" -> "NoMem"
    [] OTHER -> "Denied"

-----------------------------------------------------------------------------
(* Life cycle, and the host's stores to the shared memory.                 *)

reset_runtime_state ==
  /\ current_state' = "Idle"
  /\ active_locality' = NO_ACTIVE_LOCALITY
  /\ notification_registered' = FALSE

init ==
  /\ phase # "up"
  /\ call = NoCall
  /\ phase' = "up"
  /\ crb' = [l \in Locality |-> init_internal_crb]
  /\ locality_states' = [l \in Locality |-> IF l \in {0, 1} THEN "Open"
                                                           ELSE "Closed"]
  /\ reset_runtime_state
  /\ UNCHANGED <<idle_bypass, call, status>>

deinit ==
  /\ phase = "up"
  /\ call = NoCall
  /\ phase' = "down"
  /\ reset_runtime_state
  /\ locality_states' = [l \in Locality |-> "Closed"]
  /\ UNCHANGED <<crb, idle_bypass, call, status>>

\* The registers and the buffer that the host, not the service, writes.
HostWrite ==
  /\ \E l \in Locality :
       \/ \E v \in LocalityControlValues :
            crb' = [crb EXCEPT ![l].locality_control = v]
       \/ \E v \in ControlRequestValues :
            crb' = [crb EXCEPT ![l].crb_control_request = v]
       \/ crb' = [crb EXCEPT ![l].crb_control_start = TRUE]
       \/ crb' = [crb EXCEPT ![l].crb_data_buffer = "command"]
  /\ UNCHANGED <<phase, service, idle_bypass, call, status>>

-----------------------------------------------------------------------------
(* Start.                                                                  *)

\* start_handler ends: the active locality's CRB is cleaned, whatever the
\* locality and the outcome of the request.
Finish(code, state, active, c) ==
  /\ current_state' = state
  /\ active_locality' = active
  /\ crb' = clean_internal_crb(c, active, state)
  /\ call' = NoCall
  /\ status' = code
  /\ UNCHANGED <<phase, locality_states, notification_registered, idle_bypass>>

Refuse_aborts(code) == Finish(code, "Idle", active_locality, crb)
Refuse(code) == Finish(code, current_state, active_locality, crb)

CallSst(op, l) ==
  /\ call' = [op |-> op, locality |-> l]
  /\ UNCHANGED <<phase, service, crb, idle_bypass, status>>

\* The SST operation that the control registers of c ask for in the current
\* state; "none" if that state refuses them.
command_op(c) ==
  LET goIdle == "goIdle" \in c.crb_control_request
      cmdReady == "cmdReady" \in c.crb_control_request
      start == c.crb_control_start
  IN  CASE current_state = "Idle" /\ cmdReady -> "cmd_ready"
        [] current_state # "Idle" /\ goIdle -> "go_idle"
        [] current_state = "Ready" /\ ~goIdle /\ cmdReady -> "cmd_ready"
        [] current_state = "Ready" /\ ~goIdle /\ ~cmdReady /\ start -> "start"
        [] current_state = "Complete" /\ ~goIdle /\ cmdReady /\ idle_bypass
             -> "cmd_ready"
        [] current_state = "Complete" /\ ~goIdle /\ ~cmdReady /\ start
             /\ idle_bypass -> "start"
        [] OTHER -> "none"

handle_command ==
  LET c == crb[active_locality]
      empty == c.crb_control_request = {} /\ ~c.crb_control_start
  IN  \/ empty /\ Refuse("InvCrbCtrlData")
      \/ ~empty /\ command_op(c) = "none" /\ Refuse("Denied")
      \/ ~empty /\ command_op(c) # "none"
           /\ CallSst(command_op(c), active_locality)

handle_locality_request_unchecked(l) ==
  \/ /\ "relinquish" \in crb[l].locality_control
     /\ CallSst("locality_relinquish", l)
  \/ /\ crb[l].locality_control = {"request_access"}
     /\ CallSst("locality_request", l)
  \/ crb[l].locality_control = {} /\ Refuse("InvCrbCtrlData")
handle_locality_request(l) ==
  LET relinquish == "relinquish" \in crb[l].locality_control
      request == "request_access" \in crb[l].locality_control
  IN  \/ relinquish /\ l # active_locality /\ Refuse("Denied")
      \/ relinquish /\ l = active_locality /\ CallSst("locality_relinquish", l)
      \/ /\ ~relinquish /\ request
         /\ active_locality \notin {NO_ACTIVE_LOCALITY, l}
         /\ Refuse("Denied")
      \/ /\ ~relinquish /\ request
         /\ active_locality \in {NO_ACTIVE_LOCALITY, l}
         /\ CallSst("locality_request", l)
      \/ ~relinquish /\ ~request /\ Refuse("InvCrbCtrlData")

\* function and locality are truncated to 16 and 8 bits.
start_handler(r) ==
  LET function == r.function % 65536
      l == r.locality % 256
  IN  /\ r.opcode = "Start"
      /\ \/ l \notin Locality /\ Refuse("InvArg")
         \/ l \in Locality /\ locality_states[l] = "Closed" /\ Refuse("Denied")
         \/ /\ l \in Locality /\ locality_states[l] = "Open"
            /\ \/ /\ function = QUALIFIER_COMMAND
                  /\ \/ l = active_locality /\ handle_command
                     \/ l # active_locality /\ Refuse("InvArg")
               \/ function = QUALIFIER_LOCALITY /\ handle_locality_request(l)
               \/ /\ function \notin {QUALIFIER_COMMAND, QUALIFIER_LOCALITY}
                  /\ Refuse("InvArg")

\* What a command that succeeds leaves: the state, and the buffer, which is
\* zeroed on leaving Complete and holds the response after a start.
command_state(op) ==
  CASE op = "go_idle" -> "Idle"
    [] op = "cmd_ready" -> "Ready"
    [] op = "start" -> "Complete"

command_buffer_kept(op, buffer) == IF op = "start" THEN "response" ELSE buffer
command_buffer(op, buffer) ==
  IF op = "start" THEN "response"
  ELSE IF current_state = "Complete" THEN "zero"
  ELSE buffer

\* The rest of handle_command once its SST call has returned.
command_returns(code) ==
  LET l == call.locality
      ok == code = "Ok"
      buffer == command_buffer(call.op, crb[l].crb_data_buffer)
  IN  /\ call.op \in CommandOp
      /\ Finish(convert_error_to_status(code),
                IF ok THEN command_state(call.op) ELSE current_state,
                active_locality,
                IF ok THEN [crb EXCEPT ![l].crb_data_buffer = buffer] ELSE crb)

\* What a locality call leaves as the active locality and in the CRBs.
locality_active_unchecked(code) ==
  IF call.op = "locality_request" THEN call.locality ELSE NO_ACTIVE_LOCALITY
locality_active(code) ==
  IF code # "Ok" THEN active_locality
  ELSE IF call.op = "locality_request" THEN call.locality
  ELSE NO_ACTIVE_LOCALITY

locality_crb(code) ==
  IF code = "Ok" THEN [crb EXCEPT ![call.locality] = init_internal_crb] ELSE crb

\* The rest of handle_locality_request; current_state stays as it is.
locality_returns(code) ==
  /\ call.op \in LocalityOp
  /\ Finish(convert_error_to_status(code), current_state,
            locality_active(code), locality_crb(code))

SstReturns ==
  \E code \in ErrorCode : command_returns(code) \/ locality_returns(code)

-----------------------------------------------------------------------------
(* The requests that are answered at once.                                 *)

\* An answer that leaves everything but the registration alone.
Answer(code, registered) ==
  /\ status' = code
  /\ notification_registered' = registered
  /\ UNCHANGED <<phase, current_state, active_locality, locality_states, crb,
                 idle_bypass, call>>

get_interface_version_handler(r) ==
  /\ r.opcode = "GetInterfaceVersion"
  /\ Answer("OkResultsReturned", notification_registered)

\* The feature is the whole 64-bit function field here.
get_feature_info_handler(r) ==
  /\ r.opcode = "GetFeatureInfo"
  /\ Answer(IF r.function = NOTIFICATION_FEATURE THEN "OkResultsReturned"
                                                 ELSE "NotSup",
            notification_registered)

register_handler(r) ==
  /\ r.opcode = "RegisterForNotification"
  /\ Answer(IF notification_registered THEN "Already" ELSE "Ok", TRUE)

unregister_handler(r) ==
  /\ r.opcode = "UnregisterForNotification"
  /\ Answer(IF notification_registered THEN "Ok" ELSE "Denied", FALSE)

finish_handler(r) ==
  /\ r.opcode = "FinishNotified"
  /\ Answer(IF notification_registered THEN "Ok" ELSE "Denied",
            notification_registered)

\* Only a logical partition of TF-A may open and close localities.
FromTfA(r) == r.source_id \div 256 = 255

manage_locality_handler(r) ==
  LET operation == r.function % 65536
      l == r.locality % 256
      bad == l \notin Locality \/ operation \notin {OPEN, CLOSE}
  IN  /\ r.opcode = "ManageLocality"
      /\ \/ ~FromTfA(r) /\ Answer("Denied", notification_registered)
         \/ FromTfA(r) /\ bad /\ Answer("InvArg", notification_registered)
         \/ /\ FromTfA(r) /\ ~bad
            /\ locality_states' = [locality_states EXCEPT ![l] =
                 IF operation = OPEN THEN "Open" ELSE "Closed"]
            /\ status' = "Ok"
            /\ UNCHANGED <<phase, current_state, active_locality,
                           notification_registered, crb, idle_bypass, call>>

unknown_opcode(r) ==
  r.opcode = "Other" /\ Answer("NoFunc", notification_registered)

-----------------------------------------------------------------------------
ffa_msg_send_direct_req2(r) ==
  /\ call = NoCall
  /\ \/ get_interface_version_handler(r)
     \/ get_feature_info_handler(r)
     \/ start_handler(r)
     \/ register_handler(r)
     \/ unregister_handler(r)
     \/ finish_handler(r)
     \/ manage_locality_handler(r)
     \/ unknown_opcode(r)

Next ==
  \/ init \/ deinit \/ HostWrite
  \/ \E r \in Requests : ffa_msg_send_direct_req2(r)
  \/ SstReturns

Spec == Init /\ [][Next]_vars

-----------------------------------------------------------------------------
(* Properties.                                                             *)

\* The types of the service's fields, of the CRBs and of the SST call.  In
\* particular active_locality is never an index past the CRB array other than
\* the sentinel, and a command call is never made with the sentinel.
TypeOK ==
  /\ phase \in {"new", "up", "down"}
  /\ current_state \in TpmState
  /\ active_locality \in Locality \cup {NO_ACTIVE_LOCALITY}
  /\ locality_states \in [Locality -> TpmLocalityState]
  /\ notification_registered \in BOOLEAN
  /\ crb \in [Locality -> Crb]
  /\ idle_bypass \in BOOLEAN
  /\ \/ call = NoCall
     \/ call \in [op : CommandOp \cup LocalityOp, locality : Locality]
  /\ status \in TpmStatus

\* While the SST drives the TPM for a locality, that locality is open; it is the
\* active one, except that a request for access may come when there is none.
CallAuthorised ==
  call # NoCall =>
    /\ locality_states[call.locality] = "Open"
    /\ \/ call.locality = active_locality
       \/ call.op = "locality_request" /\ active_locality = NO_ACTIVE_LOCALITY

\* The host is told that the active locality is granted, over every order of
\* requests, relinquishes, failures, opens and closes, and between init and
\* deinit that no other is.
GrantFollowsActive ==
  \A l \in Locality :
    /\ l = active_locality => crb[l].granted
    /\ phase = "up" /\ crb[l].granted => l = active_locality

\* A response is in the buffer of the active locality only in state Complete, and
\* between init and deinit in no other's: none outlives the command's session.
ResponseConfined ==
  \A l \in Locality : crb[l].crb_data_buffer = "response" =>
    /\ phase = "up" => l = active_locality
    /\ l = active_locality => current_state = "Complete"

\* The tpmIdle bit that the host polls agrees with the state machine, after
\* successful, refused and failed requests alike.
IdleBitAgrees ==
  active_locality # NO_ACTIVE_LOCALITY =>
    (crb[active_locality].tpm_idle <=> current_state = "Idle")

\* What the host reads in the CRBs is what the service keeps: the granted bits
\* show the active locality, and its idle bit the state machine's state.
CrbAgrees == GrantFollowsActive /\ IdleBitAgrees

\* A failed SST call leaves the session as it was: state, active locality, and
\* the granted bits and buffers of all localities.
FailureKeepsSession ==
  [][call # NoCall /\ call' = NoCall /\ status' # "Ok" =>
       /\ UNCHANGED <<current_state, active_locality>>
       /\ \A l \in Locality :
            /\ crb'[l].granted = crb[l].granted
            /\ crb'[l].crb_data_buffer = crb[l].crb_data_buffer]_vars

\* What the service does to the granted bit or the buffer of a locality, other
\* than in init, it does in an SST call for that same locality.
LocalitiesIsolated ==
  [][phase' \in {phase, "down"} => \A l \in Locality :
       \/ call # NoCall /\ call.locality = l
       \/ /\ crb'[l].granted = crb[l].granted
          /\ crb'[l].crb_data_buffer \in {crb[l].crb_data_buffer, "command"}]_vars

\* The session of the active locality, once begun, is changed by calls for that
\* locality and by deinit only: not by requests for other localities, not by
\* the host's stores, and not by TF-A closing the locality, which suspends it
\* until the locality is opened again.
SessionHeld ==
  [][/\ phase' = phase
     /\ active_locality # NO_ACTIVE_LOCALITY
     /\ call = NoCall \/ call.locality # active_locality
     => UNCHANGED <<current_state, active_locality>>]_vars

\* A locality's session follows the "normal state flow" from its start: when
\* a locality becomes active, the state machine is in IDLE, whatever the
\* locality before it left undone.
FreshSessionIdle ==
  [][/\ active_locality = NO_ACTIVE_LOCALITY
     /\ active_locality' # NO_ACTIVE_LOCALITY
     => current_state' = "Idle"]_vars
=============================================================================
