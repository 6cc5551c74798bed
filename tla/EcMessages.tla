----------------------------- MODULE EcMessages -----------------------------
(***************************************************************************)
(* The messages between the relay and the embedded controller, as far as   *)
(* ec-service-lib/src/services/ec_relay.rs tells them apart.               *)
(***************************************************************************)
EXTENDS Naturals

CONSTANTS
  Command,       \* what the services ask the relay for
  Kind,          \* kinds of answers that the EC gives, of AnswerKind
  Discriminant   \* error discriminants that the EC sends

\* A command names the service, the request and the success response, and
\* whether its parser takes the exact body or a prefix of it.
ASSUME CommandAssumption ==
  Command \subseteq [service_id : Nat, message_id : Nat, response_id : Nat,
                    parse : {"exact", "prefix"}]

\* A response: whether its message type is ODP_MESSAGE_TYPE, the fields of its
\* OdpHeader, and how long its body is compared with what the parser takes
\* ("none": too short for a header).  n, the number of the invocation that it
\* answers, is there for the properties: it is not on the wire.
BodyLen == {"none", "short", "exact", "long"}
Header == [odp : BOOLEAN, is_request : BOOLEAN, service_id : Nat,
           is_error : BOOLEAN, message_id : Nat, body : BodyLen, n : Nat]
Call == [command : Command, n : Nat]

EcRelayError == {"TransportReadTimeout", "MctpRecvIncomplete", "MctpDecode",
                 "UnexpectedMessageType", "UnexpectedOdpRequest",
                 "UnexpectedOdpService", "Remote", "BodyTooShort",
                 "BodyTooLong"}

\* take_exact_array, and take_array for a parser that takes a prefix.
take_array(command, body) ==
  CASE body = "short" -> "BodyTooShort"
    [] body = "long" /\ command.parse = "exact" -> "BodyTooLong"
    [] OTHER -> "Ok"

\* What invoke_request_with_response_id makes of a response.
validate_response_any_service(command, h) ==
  IF h.is_request THEN "UnexpectedOdpRequest"
  ELSE IF h.is_error THEN "Remote"
  ELSE IF h.message_id # command.response_id THEN "UnexpectedOdpService"
  ELSE take_array(command, h.body)
validate_response(command, h) ==
  IF h.is_request THEN "UnexpectedOdpRequest"
  ELSE IF h.service_id # command.service_id THEN "UnexpectedOdpService"
  ELSE IF h.is_error THEN "Remote"
  ELSE IF h.message_id # command.response_id THEN "UnexpectedOdpService"
  ELSE take_array(command, h.body)

\* The value that Remote carries.
RemoteCode(code, h) == IF code = "Remote" THEN h.message_id ELSE 0

\* The checks of invoke that come first.
parse_response(command, h) ==
  IF ~h.odp THEN "UnexpectedMessageType"
  ELSE IF h.body = "none" THEN "BodyTooShort"
  ELSE validate_response(command, h)

\* The EC answers with a success response, with an error of the service, whose
\* discriminant takes the place of the message id, or with a faulty packet:
\* one marked as a request, of another message type, without a whole header,
\* or with a body of another length than the service's.
AnswerKind == {"success", "error", "request", "foreign", "headless", "short",
               "long"}
ASSUME KindAssumption == Kind \subseteq AnswerKind
ASSUME DiscriminantAssumption == Discriminant \subseteq Nat
AnswerTo(kind, discriminant, call) ==
  [odp |-> kind # "foreign",
   is_request |-> kind = "request",
   service_id |-> call.command.service_id,
   is_error |-> kind = "error",
   message_id |-> IF kind = "error" THEN discriminant
                  ELSE call.command.response_id,
   body |-> CASE kind = "headless" -> "none"
              [] kind \in {"short", "long"} -> kind
              [] OTHER -> "exact",
   n |-> call.n]
=============================================================================
