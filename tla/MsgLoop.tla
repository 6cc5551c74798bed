------------------------------ MODULE MsgLoop -------------------------------
(***************************************************************************)
(* The life of a secure partition: main of platform/qemu-sp, msg_loop      *)
(* (ec-service-lib/src/lib.rs), the chain of services                      *)
(* (message_handler.rs) and the callers behind the SPMC.                   *)
(*                                                                         *)
(* The SPMC hands a waiting request to the partition when that waits in    *)
(* MsgWait or in a response.  It may also fail: answer a call with an      *)
(* error or with a function the code does not expect.  Logging is a call   *)
(* too (FfaConsole): a refused log panics.                                 *)
(*                                                                         *)
(* A definition that stands before another with the same name and a suffix *)
(* is a faulty variant of it, which the properties tell apart from the     *)
(* code; the specification uses none.                                      *)
(***************************************************************************)
EXTENDS FfaCalls, LocalServices, FiniteSets

CONSTANTS
  Caller,      \* endpoint ids of the callers
  SpId,        \* endpoint id of the partition
  Appended,    \* the services, in the order in which main appends them
  Body,        \* [uuid, payload] of the requests that callers make
  MaxFaults    \* bound: calls that the SPMC fails

ASSUME CallerAssumption == SpId \notin Caller
ASSUME FaultsAssumption == MaxFaults \in Nat

VARIABLES
  pc,          \* "main", "start", "wait", "loop", "smc", "reply", "panic", "wfe"
  msg,         \* what the last SMC of the loop returned
  outcome,     \* what the handler returned, or the call it has to make first
  client,      \* callers: idle, waiting, serving, answered or dropped
  request,     \* their last requests
  answer,      \* the responses they got to them
  notified,    \* callers notified since their last request
  faults       \* calls that the SPMC failed

partition == <<pc, msg, outcome>>
vars == <<pc, msg, outcome, client, request, answer, notified, faults>>

NoMsg == [fn |-> "None"]

Request(c, b) ==
  [fn |-> "MsgSendDirectReq2", source_id |-> c, destination_id |-> SpId,
   uuid_high |-> b.uuid, uuid_low |-> 0, payload |-> b.payload]

Init ==
  /\ pc = "main"
  /\ msg = NoMsg
  /\ outcome = Err
  /\ client = [c \in Caller |-> "idle"]
  /\ request = [c \in Caller |-> NoMsg]
  /\ answer = [c \in Caller |-> NoMsg]
  /\ notified = {}
  /\ faults = 0

-----------------------------------------------------------------------------
(* The chain of services.                                                  *)

UUID == [Thermal |-> "31f56da7", Ucsi |-> "65467f50", FwMgmt |-> "330c1273",
         Notify |-> "e474d87e", TpmServiceStub |-> "17b862a4",
         Battery |-> "25cb5207"]
ASSUME ChainAssumption == Appended \in Seq(DOMAIN UUID)

\* append puts a service in front of the chain, so the last one that was
\* appended under a UUID handles it; the terminal node is the end.
HandlerNodeTerminal == "Terminal"
handle_default(uuid) ==
  LET matching == {i \in DOMAIN Appended : UUID[Appended[i]] = uuid}
  IN  IF matching = {} THEN "TpmServiceStub"
      ELSE Appended[CHOOSE i \in matching : \A j \in matching : j <= i]
handle_head(uuid) ==
  IF UUID[Appended[Len(Appended)]] = uuid THEN Appended[Len(Appended)]
  ELSE HandlerNodeTerminal
handle(uuid) ==
  LET matching == {i \in DOMAIN Appended : UUID[Appended[i]] = uuid}
  IN  IF matching = {} THEN HandlerNodeTerminal
      ELSE Appended[CHOOSE i \in matching : \A j \in matching : j <= i]

\* Thermal decodes its first byte, Notify the low three bits of register 5.
\* What they do with a request, and what they answer, is in modules of their
\* own (EcServices, Notify): here it is a success or a failure.
Elsewhere == {"Thermal", "Notify"}
ThermalCommand == 1 .. 6
MessageID == 0 .. 5
MSG_INFO_OFFSET == 40
decodes(service, payload) ==
  \/ service = "Thermal" /\ u8_at(payload, 0) \in ThermalCommand
  \/ service = "Notify" /\ u8_at(payload, MSG_INFO_OFFSET) % 8 \in MessageID
Failure == [i \in 1 .. 8 |-> 255]

\* What the handler of a service returns.
outcomes(service, payload) ==
  CASE service = "FwMgmt" -> {FwMgmt(payload)}
    [] service = "Ucsi" -> {Ucsi(payload)}
    [] service = "TpmServiceStub" -> {TpmServiceStub(payload)}
    [] service = "Battery" -> {Battery(payload)}
    [] service \in Elsewhere ->
         IF decodes(service, payload) THEN {Ok(GenericRsp), Ok(Failure)} ELSE {Err}
    [] OTHER -> {Err}

-----------------------------------------------------------------------------
(* The partition.                                                          *)

Fault == faults < MaxFaults /\ faults' = faults + 1

\* main asks for the FF-A version, and unwraps.
main ==
  /\ pc = "main"
  /\ pc' = "start"
  /\ UNCHANGED <<msg, outcome, client, request, answer, notified, faults>>

\* A call that must succeed is refused: FFA_VERSION, or any of the log records
\* that main and msg_loop write between their other calls.
refused ==
  /\ pc \in {"main", "start", "loop", "reply"}
  /\ Fault
  /\ pc' = "panic"
  /\ UNCHANGED <<msg, outcome, client, request, answer, notified>>

\* msg_loop enters its first MsgWait.
start ==
  /\ pc = "start"
  /\ pc' = "wait"
  /\ UNCHANGED <<msg, outcome, client, request, answer, notified, faults>>

\* MsgWait or a response returns: `?` ends the loop and main's expect panics.
Returned(m) ==
  /\ msg' = m
  /\ pc' = IF handle_result_simple(m.fn) = "Ok" THEN "loop" ELSE "panic"

\* One turn of the loop: a request goes down the chain to its handler;
\* anything else is logged and waited over.
turn ==
  /\ pc = "loop"
  /\ \/ /\ msg.fn = "MsgSendDirectReq2"
        /\ \E o \in outcomes(handle(msg.uuid_high), msg.payload) :
             /\ outcome' = o
             /\ pc' = IF o.result \in {"Ok", "Err"} THEN "reply" ELSE "smc"
     \/ /\ msg.fn # "MsgSendDirectReq2"
        /\ pc' = "wait"
        /\ UNCHANGED outcome
  /\ UNCHANGED <<msg, client, request, answer, notified, faults>>

\* The handler's call returns: the SPMC notifies the receiver, retrieves the
\* memory (whose answer the code takes for an error), or fails.
Receiver_swapped == msg.destination_id
Receiver == msg.source_id
service_smc ==
  /\ pc = "smc"
  /\ \E id \in {"Success32", "MemRetrieveResp", "Error", "Interrupt"} :
       LET expected == IF outcome.result = "NotificationSet" THEN "Success32"
                       ELSE "MemRetrieveResp"
       IN  /\ id \in {expected, "Error", "Interrupt"}
           /\ IF id = expected THEN UNCHANGED faults ELSE Fault
           /\ notified' = IF id = "Success32" THEN notified \cup {Receiver}
                          ELSE notified
           /\ outcome' = IF handle_result_simple(id) = "Ok"
                         THEN Ok(GenericRsp) ELSE Err
  /\ pc' = "reply"
  /\ UNCHANGED <<msg, client, request, answer>>

\* The response is executed.  The SPMC passes it on to the caller it names if
\* that waits for one from the partition, and refuses it otherwise.
respond ==
  /\ pc = "reply"
  /\ outcome.result = "Ok"
  /\ LET r == from_req_with_payload(msg, outcome.bytes)
         c == r.destination_id
         accepted == /\ r.source_id = SpId
                     /\ c \in Caller
                     /\ client[c] = "serving"
     IN  /\ pc' = IF accepted THEN "wait" ELSE "panic"
         /\ client' = IF accepted THEN [client EXCEPT ![c] = "answered"]
                      ELSE client
         /\ answer' = IF accepted THEN [answer EXCEPT ![c] = r] ELSE answer
  /\ UNCHANGED <<msg, outcome, request, notified, faults>>

\* A handler's error is logged, and the loop waits: the caller gets nothing.
msg_wait_after_error_continues ==
  /\ pc = "reply"
  /\ outcome.result = "Err"
  /\ pc' = "loop"
  /\ UNCHANGED <<msg, outcome, client, request, answer, notified, faults>>
msg_wait_after_error ==
  /\ pc = "reply"
  /\ outcome.result = "Err"
  /\ pc' = "wait"
  /\ client' = [client EXCEPT ![msg.source_id] = "dropped"]
  /\ UNCHANGED <<msg, outcome, request, answer, notified, faults>>

\* The panic handler logs, or fails to, and waits for good (FfaConsole).
panic ==
  /\ pc = "panic"
  /\ pc' = "wfe"
  /\ UNCHANGED <<msg, outcome, client, request, answer, notified, faults>>

Partition ==
  main \/ start \/ turn \/ service_smc \/ respond \/ msg_wait_after_error \/ panic

-----------------------------------------------------------------------------
(* The SPMC and the callers.                                               *)

\* A caller that is not blocked makes a request.
Ask(c, b) ==
  /\ client[c] \in {"idle", "answered"}
  /\ client' = [client EXCEPT ![c] = "waiting"]
  /\ request' = [request EXCEPT ![c] = Request(c, b)]
  /\ answer' = [answer EXCEPT ![c] = NoMsg]
  /\ notified' = notified \ {c}
  /\ UNCHANGED <<partition, faults>>

Deliver(c) ==
  /\ pc = "wait"
  /\ client[c] = "waiting"
  /\ client' = [client EXCEPT ![c] = "serving"]
  /\ Returned(request[c])
  /\ UNCHANGED <<outcome, request, answer, notified, faults>>

\* The SPMC resumes the partition with something else than a request.
Misdeliver(id) ==
  /\ pc = "wait"
  /\ Fault
  /\ Returned([fn |-> id])
  /\ UNCHANGED <<outcome, client, request, answer, notified>>

Next ==
  \/ Partition
  \/ refused
  \/ \E c \in Caller, b \in Body : Ask(c, b)
  \/ \E c \in Caller : Deliver(c)
  \/ \E id \in AnswerId \ {"MsgSendDirectReq2"} : Misdeliver(id)

\* The partition runs when it is runnable, and the SPMC returns from the calls
\* of a handler; it owes nobody a delivery.
Spec == Init /\ [][Next]_vars /\ WF_vars(Partition)

-----------------------------------------------------------------------------
(* Properties.                                                             *)

Alive == pc \notin {"panic", "wfe"}

\* Types; a caller is being served exactly while the partition holds its
\* request.
TypeOK ==
  /\ pc \in {"main", "start", "wait", "loop", "smc", "reply", "panic", "wfe"}
  /\ client \in [Caller -> {"idle", "waiting", "serving", "answered", "dropped"}]
  /\ outcome.result \in {"Ok", "Err", "NotificationSet", "MemRetrieveReq"}
  /\ notified \subseteq Caller
  /\ faults \in 0 .. MaxFaults
  /\ \A c \in Caller :
       client[c] = "serving" => \/ ~Alive
                                \/ pc \in {"loop", "smc", "reply"} /\ msg = request[c]

\* A caller that has an answer has it from the service it asked: source and
\* destination are swapped, the UUID is its own, and the payload is one that a
\* handler of that UUID gives to its payload.  The success of EC_CAP_TEST_NFY is
\* reported only to a caller that has been notified before.
AnswerMatchesRequest ==
  \A c \in Caller : client[c] = "answered" =>
    LET q == request[c]
        a == answer[c]
        services == {s \in DOMAIN UUID : UUID[s] = q.uuid_high}
    IN  /\ a.destination_id = c /\ a.source_id = SpId
        /\ a.uuid_high = q.uuid_high
        /\ \E s \in services : \E o \in outcomes(s, q.payload) :
             \/ o.result = "Ok" /\ o.bytes = a.payload
             \/ o.result = "NotificationSet" /\ a.payload = GenericRsp
        /\ (/\ q.uuid_high = UUID["FwMgmt"]
            /\ u8_at(q.payload, 0) = EC_CAP_TEST_NFY) => c \in notified

\* The requests that no handler takes: the UUID is not in the chain, or the
\* service does not know the command.  MAP_SHARE is one of them: the success of
\* FFA_MEM_RETRIEVE_REQ is an answer that handle_result_simple rejects.
Unhandled(q) ==
  LET byte0 == u8_at(q.payload, 0) IN
  \/ \A i \in DOMAIN Appended : UUID[Appended[i]] # q.uuid_high
  \/ CASE q.uuid_high = UUID["FwMgmt"] -> byte0 \notin 1 .. 4
       [] q.uuid_high = UUID["Ucsi"] -> byte0 # 0
       [] q.uuid_high = UUID["Battery"] -> byte0 \notin 1 .. 15
       [] q.uuid_high = UUID["Thermal"] -> byte0 \notin 1 .. 6
       [] q.uuid_high = UUID["Notify"] -> u8_at(q.payload, 40) % 8 \notin 0 .. 5
       [] OTHER -> FALSE

\* As long as the SPMC fails no call, no request, of whatever content, ends the
\* partition, and a caller is left without an answer only if its request is
\* one that no handler takes.
NothingLostWithoutFaults ==
  faults = 0 =>
    /\ Alive
    /\ \A c \in Caller : client[c] = "dropped" => Unhandled(request[c])

\* A mailbox that Ucsi returns is consistent: MESSAGE IN holds as many bytes as
\* the CCI announces, zeros follow to the end of MESSAGE OUT, the command is
\* either complete or not supported, and CONTROL is the caller's.
UcsiMailboxConsistent ==
  \A c \in Caller :
    (client[c] = "answered" /\ request[c].uuid_high = UUID["Ucsi"]) =>
      LET m == answer[c].payload
          data_len == m[CCI_OFFSET + 2]
          fixtures == {CAPABILITY_MESSAGE_IN, CONNECTOR_CAPABILITY_MESSAGE_IN,
                       CONNECTOR_STATUS_MESSAGE_IN}
          message == SubSeq(m, MESSAGE_IN_OFFSET + 1, MESSAGE_IN_OFFSET + data_len)
      IN  /\ Len(m) = MAILBOX_LEN
          /\ \/ m[CCI_OFFSET + 4] = 128 /\ message \in fixtures
             \/ m[CCI_OFFSET + 4] = 2 /\ data_len = 0
          /\ \A i \in MESSAGE_IN_OFFSET + data_len + 1 .. MAILBOX_LEN : m[i] = 0
          /\ \A i \in CONTROL_OFFSET + 1 .. CONTROL_OFFSET + 8 :
               m[i] = u8_at(request[c].payload, i)

\* The partition implements the abstract server: in particular a request that
\* it took is answered or dropped, as long as it is alive.
Server == INSTANCE FfaServer WITH alive <- Alive
ImplementsServer == Server!Spec
=============================================================================
