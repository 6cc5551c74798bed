----------------------------- MODULE EcServices -----------------------------
(***************************************************************************)
(* The services that answer from the embedded controller: Thermal, Battery *)
(* and TimeAlarm (ec-service-lib/src/services/{thermal,battery,            *)
(* time_alarm}.rs).  A handler decodes the command byte, makes at most one *)
(* round-trip over the relay that they share (EcChannel), and turns its    *)
(* result into the payload that AML reads.  Payloads are abstracted to     *)
(* their size and to where their bytes come from.                          *)
(*                                                                         *)
(* A definition that stands before another with the same name and a suffix *)
(* is a faulty variant of it; the specification uses none.                 *)
(***************************************************************************)
EXTENDS EcChannel

THERMAL_SERVICE_ID == 9
BATTERY_SERVICE_ID == 8
TIME_ALARM_SERVICE_ID == 11

\* The two ways to make a round-trip: with the request's message id as the
\* response's, or with another response id.
invoke_request_with_response_id(service_id, message_id, response_id) ==
  [service_id |-> service_id, message_id |-> message_id,
   response_id |-> response_id, parse |-> "exact"]
invoke_request(service_id, message_id) ==
  invoke_request_with_response_id(service_id, message_id, message_id)

-----------------------------------------------------------------------------
(* The commands.                                                           *)

get_temperature == invoke_request(THERMAL_SERVICE_ID, 1)
set_threshold   == invoke_request(THERMAL_SERVICE_ID, 2)
get_threshold   == invoke_request(THERMAL_SERVICE_ID, 3)
set_scp         == invoke_request(THERMAL_SERVICE_ID, 4)
get_var         == invoke_request(THERMAL_SERVICE_ID, 5)
set_var         == invoke_request(THERMAL_SERVICE_ID, 6)
ThermalCommand ==
  {get_temperature, set_threshold, get_threshold, set_scp, get_var, set_var}

get_bix == invoke_request(BATTERY_SERVICE_ID, 1)
\* Bytes after the fourth field are ignored.
get_bst == [invoke_request(BATTERY_SERVICE_ID, 2) EXCEPT !.parse = "prefix"]
set_btp == invoke_request(BATTERY_SERVICE_ID, 6)
BatteryCommand == {get_bix, get_bst, set_btp}

get_capabilities ==
  invoke_request_with_response_id(TIME_ALARM_SERVICE_ID, 1, 1)
get_real_time == invoke_request(TIME_ALARM_SERVICE_ID, 2)
get_wake_status_seconds ==
  invoke_request_with_response_id(TIME_ALARM_SERVICE_ID, 4, 5)
get_wake_status ==
  invoke_request_with_response_id(TIME_ALARM_SERVICE_ID, 4, 3)
set_timer_value ==
  invoke_request_with_response_id(TIME_ALARM_SERVICE_ID, 6, 6)
get_timer_value ==
  invoke_request_with_response_id(TIME_ALARM_SERVICE_ID, 7, 5)
get_expired_timer_policy ==
  invoke_request_with_response_id(TIME_ALARM_SERVICE_ID, 9, 4)
TimeAlarmCommand ==
  {get_capabilities, get_real_time, get_wake_status, set_timer_value,
   get_timer_value, get_expired_timer_policy}

EcCommand == ThermalCommand \cup BatteryCommand \cup TimeAlarmCommand
\* The relay is asked for nothing else.
ASSUME EcCommandAssumption == EcCommand \subseteq Command

Setter == {set_threshold, set_scp, set_var, set_btp, set_timer_value}

-----------------------------------------------------------------------------
(* Requests and replies.                                                   *)

\* A direct request: the service that its UUID selects, the command byte, and
\* the length field, which only the variable commands of Thermal have.
VARIABLE_VALUE_LEN == 4
Message == {m \in [service_id : {THERMAL_SERVICE_ID, BATTERY_SERVICE_ID,
                                 TIME_ALARM_SERVICE_ID},
                   byte : 0 .. 9, len : {0, VARIABLE_VALUE_LEN}] :
              m.len = 0 => m.service_id = THERMAL_SERVICE_ID /\ m.byte \in {5, 6}}

\* A reply: Ok or Err, the bytes of its payload, and what they hold: the body
\* of the EC's answer, a status word, 0xFFFF_FFFF in every word, or zeros.
Reply_(tag, size, word) == [tag |-> tag, size |-> size, word |-> word]
NoReply == Reply_("None", 0, "none")
Err == Reply_("Err", 0, "none")
scalar_payload(word) == Reply_("Ok", 4, word)
threshold_payload(word) == Reply_("Ok", 12, word)
timestamp_payload(word) == Reply_("Ok", 16, word)

LOCAL_ERROR_SENTINEL == "max"
INVALID_TIMESTAMP == "zeros"
\* "1" stands for every other code.
status(code) == IF code = 0 THEN "0" ELSE "1"
INVALID_PARAMETER_STATUS == status(1)

\* A result: the outcome of the round-trip.
unwrap_or(result, word) == IF result.code = "Ok" THEN "body" ELSE word

setter_status_swallows(result) ==
  IF result.code \in {"Ok", "Remote"} THEN status(0) ELSE LOCAL_ERROR_SENTINEL
setter_status(result) ==
  CASE result.code = "Ok" -> status(0)
    [] result.code = "Remote" -> status(result.remote)
    [] OTHER -> LOCAL_ERROR_SENTINEL

\* The handlers, once the round-trip has returned.
thermal_reply_scalar(command, result) ==
  IF command \in Setter THEN scalar_payload(setter_status(result))
  ELSE IF command = get_threshold /\ result.code = "Ok" THEN threshold_payload("body")
  ELSE scalar_payload(unwrap_or(result, LOCAL_ERROR_SENTINEL))
thermal_reply(command, result) ==
  IF command \in Setter THEN scalar_payload(setter_status(result))
  ELSE IF command = get_threshold
       THEN threshold_payload(unwrap_or(result, LOCAL_ERROR_SENTINEL))
  ELSE scalar_payload(unwrap_or(result, LOCAL_ERROR_SENTINEL))

battery_reply(command, result) ==
  IF result.code # "Ok" THEN Err
  ELSE CASE command = get_bst -> Reply_("Ok", 16, "body")
         [] command = get_bix -> Reply_("Ok", 100, "body")
         [] command = set_btp -> Reply_("Ok", 0, "none")

time_alarm_reply(command, result) ==
  CASE command = set_timer_value -> scalar_payload(setter_status(result))
    [] command = get_real_time ->
         timestamp_payload(unwrap_or(result, INVALID_TIMESTAMP))
    [] OTHER -> scalar_payload(unwrap_or(result, LOCAL_ERROR_SENTINEL))

reply_to(command, result) ==
  CASE command \in ThermalCommand -> thermal_reply(command, result)
    [] command \in BatteryCommand -> battery_reply(command, result)
    [] OTHER -> time_alarm_reply(command, result)

\* try_from of the command byte: at most one command.
try_from(m) ==
  {c \in EcCommand : c.service_id = m.service_id /\ c.message_id = m.byte}

\* What is refused without a round-trip, and the reply.
wrong_len(m) == \E c \in try_from(m) : c \in {get_var, set_var} /\ m.len # VARIABLE_VALUE_LEN
rejected(m) == try_from(m) = {} \/ wrong_len(m)
rejection(m) ==
  CASE try_from(m) = {} -> Err
    [] get_var \in try_from(m) -> scalar_payload(LOCAL_ERROR_SENTINEL)
    [] OTHER -> scalar_payload(INVALID_PARAMETER_STATUS)

-----------------------------------------------------------------------------
(* The handler and the channel.                                            *)

VARIABLES
  msg,        \* the request being handled, or the last one
  handling,   \* the handler waits for the relay
  reply,      \* what the handler returned
  calls,      \* history: the commands of the round-trips
  executed,   \* history: the round-trips that the EC executed, in order
  abandoned   \* history: those that returned without a whole answer

handler == <<msg, handling, reply, calls>>
history == <<executed, abandoned>>
all == <<vars, handler, history>>

ServicesInit ==
  /\ Init
  /\ msg \in [service_id : {THERMAL_SERVICE_ID}, byte : {0}, len : {4}]
  /\ handling = FALSE
  /\ reply = NoReply
  /\ calls = <<>> /\ executed = <<>> /\ abandoned = {}

\* A request is answered at once, or waits for a round-trip.
ffa_msg_send_direct_req2(m) ==
  /\ ~handling
  /\ msg' = m
  /\ \/ /\ rejected(m)
        /\ reply' = rejection(m)
        /\ UNCHANGED <<vars, handling, calls, history>>
     \/ /\ ~rejected(m)
        /\ \E c \in try_from(m) : Invoke(c) /\ calls' = Append(calls, c)
        /\ handling' = TRUE
        /\ reply' = NoReply
        /\ UNCHANGED history

\* The round-trip has returned.
respond_waits ==
  /\ handling /\ pc = "idle"
  /\ IF outcome.code = "Err"
     THEN /\ pc' = "recv"
          /\ UNCHANGED <<request, outcome, pending, answers, reply, handling>>
     ELSE /\ reply' = reply_to(request.command, outcome)
          /\ handling' = FALSE
          /\ UNCHANGED vars
  /\ UNCHANGED <<msg, calls, history>>
respond ==
  /\ handling /\ pc = "idle"
  /\ reply' = reply_to(request.command, outcome)
  /\ handling' = FALSE
  /\ UNCHANGED <<vars, msg, calls, history>>

send == Send /\ UNCHANGED <<handler, history>>

return ==
  /\ Return
  /\ abandoned' = abandoned \cup (IF outcome'.n = 0 THEN {request.n} ELSE {})
  /\ UNCHANGED <<handler, executed>>

\* The EC executes a request unless it answers with an error; it may execute
\* one whose answer it fails to send.
EcReplies(kind, discriminant) ==
  /\ Reply(kind, discriminant)
  /\ executed' = IF kind = "error" THEN executed
                 ELSE Append(executed, Head(pending).n)
  /\ UNCHANGED <<handler, abandoned>>

EcForgets ==
  /\ Forget
  /\ executed' \in {executed, Append(executed, Head(pending).n)}
  /\ UNCHANGED <<handler, abandoned>>

AnswerLost == Lose /\ UNCHANGED <<handler, history>>

ServicesNext ==
  \/ \E m \in Message : ffa_msg_send_direct_req2(m)
  \/ \E kind \in Kind, discriminant \in Discriminant :
       EcReplies(kind, discriminant)
  \/ respond \/ send \/ return \/ EcForgets \/ AnswerLost

\* The relay returns from every round-trip (EcRelay implements EcChannel), and
\* the partition runs on.
ServicesSpec ==
  /\ ServicesInit /\ [][ServicesNext]_all
  /\ WF_all(respond) /\ WF_all(send) /\ WF_all(return)

-----------------------------------------------------------------------------
(* Properties.                                                             *)

Size(c) ==
  CASE c = get_threshold -> 12
    [] c \in {get_real_time, get_bst} -> 16
    [] c = get_bix -> 100
    [] c = set_btp -> 0
    [] OTHER -> 4

\* Types; in particular a reply has the size that its command's callers
\* decode, whether the round-trip failed or not.
TypeOK ==
  /\ pc \in {"idle", "send", "recv"}
  /\ request \in Call
  /\ outcome \in [code : {"None", "Ok", "Remote", "Err"}, n : Nat, remote : Nat]
  /\ pending \in Seq(Call) /\ answers \in Seq(Header)
  /\ msg \in Message
  /\ handling \in BOOLEAN
  /\ reply.tag \in {"None", "Ok", "Err"}
  /\ reply.tag = "Ok" => \A c \in try_from(msg) : reply.size = Size(c)
  /\ calls \in Seq(EcCommand) /\ Len(calls) = request.n
  /\ executed \in Seq(Nat) /\ abandoned \subseteq Nat

\* The request answered last went to the EC.
Relayed == reply.tag # "None" /\ ~rejected(msg)

\* The body that a getter passes on was sent for the same command of the same
\* service: response ids keep the answers of the six time and alarm commands
\* apart, which share a channel with those of the other services.  It was sent
\* for this round-trip, unless an answer was left behind: then that one or one
\* before it was given up.
BodyFitsCommand ==
  Relayed /\ reply.word = "body" =>
    LET c == CHOOSE c \in try_from(msg) : TRUE IN
    /\ outcome.n \in 1 .. request.n /\ calls[outcome.n] = c
    /\ outcome.n < request.n => \E n \in abandoned : n <= outcome.n

\* The EC executes no request more than once, whatever is lost: a handler
\* never repeats a setter whose answer it did not get.  As long as no earlier
\* round-trip was given up, the status word of a setter tells what the EC did:
\* 0 only if it executed the request or refused it with an error whose
\* discriminant is 0, which setter_status passes on as it is, and any other
\* code only if it did not execute it.
StatusIsTrue ==
  /\ \A i, j \in DOMAIN executed : executed[i] = executed[j] => i = j
  /\ Relayed /\ calls[request.n] \in Setter /\ abandoned \subseteq {request.n} =>
       LET done == {executed[i] : i \in DOMAIN executed} IN
       /\ reply.word = "0" =>
            request.n \in done \/ (outcome.code = "Remote" /\ outcome.remote = 0)
       /\ reply.word = "1" => request.n \notin done

\* Every request is answered, whatever becomes of the EC's answer.
Answered == handling ~> ~handling
=============================================================================
