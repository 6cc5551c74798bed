--------------------------- MODULE MsgLoopProofs ----------------------------
(* Proofs about MsgLoop, for any callers, requests and chain of services.  *)
EXTENDS MsgLoop, SequenceTheorems, WellFoundedInduction, TLAPS

-----------------------------------------------------------------------------
(* The chain of services.                                                  *)

\* A set of positions has a last one.
LEMMA LastPosition ==
  ASSUME NEW n \in Nat, NEW S \in SUBSET (1 .. n), S # {}
  PROVE  \E i \in S : \A j \in S : j <= i
<1> DEFINE T == {n - i : i \in S}
<1>1. T \subseteq Nat /\ T # {}
  <2>1. PICK i : i \in S
    OBVIOUS
  <2>2. n - i \in T
    BY <2>1
  <2>3. \A j \in S : n - j \in Nat
    OBVIOUS
  <2> QED BY <2>2, <2>3
<1>2. PICK x \in T : \A y \in T : ~(<<y, x>> \in OpToRel(<, Nat))
  BY <1>1, WFMin, NatLessThanWellFounded
<1>3. \A y \in T : ~(y < x)
  BY <1>1, <1>2 DEF OpToRel
<1>4. PICK i \in S : x = n - i
  OBVIOUS
<1>5. \A j \in S : j <= i
  BY <1>3, <1>4
<1> QED BY <1>5

\* No two services have the same UUID.
LEMMA UuidsDistinct ==
  /\ DOMAIN UUID = {"Thermal", "Ucsi", "FwMgmt", "Notify", "TpmServiceStub",
                    "Battery"}
  /\ \A s, t \in DOMAIN UUID : UUID[s] = UUID[t] => s = t
BY DEF UUID

\* The chain hands a request to a service of its UUID, and to the terminal
\* node only if there is none.
LEMMA HandleFinds ==
  ASSUME NEW uuid
  PROVE  \/ /\ handle(uuid) = HandlerNodeTerminal
            /\ \A i \in DOMAIN Appended : UUID[Appended[i]] # uuid
         \/ handle(uuid) \in DOMAIN UUID /\ UUID[handle(uuid)] = uuid
<1> DEFINE matching == {i \in DOMAIN Appended : UUID[Appended[i]] = uuid}
           last == CHOOSE i \in matching : \A j \in matching : j <= i
<1>1. CASE matching = {}
  BY <1>1 DEF handle
<1>2. CASE matching # {}
  <2>1. /\ Len(Appended) \in Nat /\ DOMAIN Appended = 1 .. Len(Appended)
        /\ \A i \in DOMAIN Appended : Appended[i] \in DOMAIN UUID
    BY ChainAssumption, LenProperties
  <2>2. \E i \in matching : \A j \in matching : j <= i
    BY <1>2, <2>1, LastPosition
  <2>3. last \in matching
    BY <2>2
  <2>4. handle(uuid) = Appended[last]
    BY <1>2 DEF handle
  <2> QED BY <2>1, <2>3, <2>4
<1> QED BY <1>1, <1>2

\* What a service may return: an error or FFA_MEM_RETRIEVE_REQ only for a
\* command it does not take, and success of EC_CAP_TEST_NFY not by itself.
LEMMA OutcomesOf ==
  ASSUME NEW s \in DOMAIN UUID \cup {HandlerNodeTerminal}, NEW q,
         s \in DOMAIN UUID => q.uuid_high = UUID[s],
         NEW o \in outcomes(s, q.payload)
  PROVE  /\ o.result \in {"Ok", "Err", "NotificationSet", "MemRetrieveReq"}
         /\ s = HandlerNodeTerminal => o.result = "Err"
         /\ s # HandlerNodeTerminal /\ o.result \in {"Err", "MemRetrieveReq"}
              => Unhandled(q)
         /\ s = "FwMgmt" /\ u8_at(q.payload, 0) = EC_CAP_TEST_NFY
              => o.result = "NotificationSet"
<1> DEFINE byte0 == u8_at(q.payload, 0)
<1>0. DOMAIN UUID = {"Thermal", "Ucsi", "FwMgmt", "Notify", "TpmServiceStub",
                     "Battery"}
  BY UuidsDistinct
<1>1. CASE s = "FwMgmt"
  <2>1. o = FwMgmt(q.payload)
    BY <1>1 DEF outcomes, Elsewhere
  <2>2. byte0 \in {0, 1, 2, 3, 4, 5} \/ o = Err
    BY <2>1 DEF FwMgmt, EC_CAP_INDIRECT_MSG, EC_CAP_GET_FW_STATE,
      EC_CAP_GET_SVC_LIST, EC_CAP_GET_BID, EC_CAP_TEST_NFY, EC_CAP_MAP_SHARE
  <2> QED
  BY <1>1, <2>1, <2>2, <1>0
  DEF FwMgmt, EC_CAP_INDIRECT_MSG, EC_CAP_GET_FW_STATE, UUID,
      EC_CAP_GET_SVC_LIST, EC_CAP_GET_BID, EC_CAP_TEST_NFY, EC_CAP_MAP_SHARE, 
      process_indirect, test_notify, map_share, Ok, Err, Smc, Unhandled, HandlerNodeTerminal
<1>2. CASE s = "Ucsi"
  <2>1. o = Ucsi(q.payload)
    BY <1>2 DEF outcomes, Elsewhere
  <2> QED BY <1>0, <1>2, <2>1 DEF Ucsi, Ok, Err, Unhandled, UUID, HandlerNodeTerminal, DOORBELL
<1>3. CASE s = "TpmServiceStub"
  <2>1. o = TpmServiceStub(q.payload)
    BY <1>3 DEF outcomes, Elsewhere
  <2> QED BY <1>3, <2>1 DEF TpmServiceStub, Ok, HandlerNodeTerminal
<1>4. CASE s = "Battery"
  <2>1. o = Battery(q.payload)
    BY <1>4 DEF outcomes, Elsewhere
  <2> QED BY <1>0, <1>4, <2>1 DEF Battery, Ok, Err, Unhandled, UUID, HandlerNodeTerminal, 
       EC_BAT_GET_BIX, EC_BAT_GET_BST, EC_BAT_GET_STA
<1>5. CASE s \in Elsewhere
  <2>1. /\ o \in {Ok(GenericRsp), Ok(Failure), Err}
        /\ o = Err => ~decodes(s, q.payload)
    BY <1>5 DEF outcomes, Elsewhere, Ok, Err
  <2>2. ~decodes(s, q.payload) => Unhandled(q)
    BY <1>0, <1>5 DEF decodes, Unhandled, UUID, Elsewhere, ThermalCommand,
       MessageID, MSG_INFO_OFFSET
  <2> QED BY <1>0, <1>5, <2>1, <2>2 DEF Ok, Err, Elsewhere, HandlerNodeTerminal
<1>6. CASE s = HandlerNodeTerminal
  BY <1>6 DEF outcomes, Elsewhere, HandlerNodeTerminal, Err
<1> QED BY <1>0, <1>1, <1>2, <1>3, <1>4, <1>5, <1>6 DEF Elsewhere

-----------------------------------------------------------------------------
(* The inductive invariant.                                                *)

\* Requests and answers are kept per caller.
Records ==
  /\ request = [c \in Caller |-> request[c]]
  /\ answer = [c \in Caller |-> answer[c]]

\* The request of a caller names it and the partition.
RequestsMade ==
  \A c \in Caller : client[c] # "idle" =>
    /\ request[c].fn = "MsgSendDirectReq2"
    /\ request[c].source_id = c
    /\ request[c].destination_id = SpId

Outcomes == outcomes(handle(msg.uuid_high), msg.payload)

\* A turn of the loop holds the request of the one caller that is served, or
\* it has just been given something else.
Holding ==
  pc \in {"loop", "smc", "reply"} =>
    \/ pc = "loop" /\ msg.fn # "MsgSendDirectReq2"
    \/ \E c \in Caller : client[c] = "serving" /\ msg = request[c]

\* What the handler is about to return: its own result, the success of a
\* notification that was sent, or the error of a call that failed or that the
\* code takes for failed.
Handled ==
  /\ pc = "smc" => /\ outcome \in Outcomes
                   /\ outcome.result \in {"NotificationSet", "MemRetrieveReq"}
  /\ pc = "reply" =>
       \/ outcome \in Outcomes /\ outcome.result \in {"Ok", "Err"}
       \/ /\ \E o \in Outcomes : o.result = "NotificationSet"
          /\ outcome = Ok(GenericRsp)
          /\ msg.source_id \in notified
       \/ /\ faults = 0 => \E o \in Outcomes : o.result = "MemRetrieveReq"
          /\ outcome = Err

IInv == /\ TypeOK /\ Records /\ RequestsMade /\ Holding /\ Handled
        /\ AnswerMatchesRequest /\ NothingLostWithoutFaults

\* The caller that is served while a handler runs.
LEMMA ServedCaller ==
  ASSUME IInv, pc \in {"smc", "reply"} \/ (pc = "loop" /\ msg.fn = "MsgSendDirectReq2")
  PROVE  /\ msg.source_id \in Caller
         /\ client[msg.source_id] = "serving"
         /\ msg = request[msg.source_id]
         /\ msg.destination_id = SpId
         /\ msg.fn = "MsgSendDirectReq2"
         /\ \A d \in Caller : client[d] = "serving" => d = msg.source_id
<1>1. PICK c \in Caller : client[c] = "serving" /\ msg = request[c]
  BY DEF IInv, Holding
<1>2. msg.source_id = c /\ msg.destination_id = SpId /\ msg.fn = "MsgSendDirectReq2"
  BY <1>1 DEF IInv, RequestsMade
<1>3. ASSUME NEW d \in Caller, client[d] = "serving" PROVE d = c
  <2>1. msg = request[d]
    BY <1>3 DEF IInv, TypeOK, Alive
  <2> QED BY <1>2, <1>3, <2>1 DEF IInv, RequestsMade
<1> QED BY <1>1, <1>2, <1>3

\* A handler's result, and the request it is the result of.
LEMMA OutcomesHere ==
  ASSUME IInv, NEW o \in Outcomes
  PROVE  /\ o.result \in {"Ok", "Err", "NotificationSet", "MemRetrieveReq"}
         /\ o.result \in {"Err", "MemRetrieveReq"} => Unhandled(msg)
         /\ o.result # "Err" =>
              /\ handle(msg.uuid_high) \in DOMAIN UUID
              /\ UUID[handle(msg.uuid_high)] = msg.uuid_high
         /\ msg.uuid_high = UUID["FwMgmt"] /\ u8_at(msg.payload, 0) = EC_CAP_TEST_NFY
              => o.result \in {"NotificationSet", "Err"}
<1> DEFINE s == handle(msg.uuid_high)
<1>1. o \in outcomes(s, msg.payload)
  BY DEF Outcomes
<1>2. HandlerNodeTerminal \notin DOMAIN UUID
  BY UuidsDistinct DEF HandlerNodeTerminal
<1>3. CASE s = HandlerNodeTerminal /\ \A i \in DOMAIN Appended : UUID[Appended[i]] # msg.uuid_high
  <2>1. Unhandled(msg)
    BY <1>3 DEF Unhandled
  <2>2. o.result = "Err"
    BY <1>1, <1>2, <1>3, OutcomesOf
  <2> QED BY <2>1, <2>2
<1>4. CASE s \in DOMAIN UUID /\ UUID[s] = msg.uuid_high
  <2>1. s # HandlerNodeTerminal
    BY <1>2, <1>4
  <2>2. msg.uuid_high = UUID["FwMgmt"] => s = "FwMgmt"
    BY <1>4, UuidsDistinct
  <2> QED BY <1>1, <1>4, <2>1, <2>2, OutcomesOf
<1> QED BY <1>3, <1>4, HandleFinds

\* A step that leaves the callers alone, or notifies one, keeps what they have.
LEMMA CallersKept ==
  ASSUME IInv, UNCHANGED <<client, request, answer>>, notified \subseteq notified'
  PROVE  Records' /\ RequestsMade' /\ AnswerMatchesRequest'
BY DEF IInv, Records, RequestsMade, AnswerMatchesRequest

-----------------------------------------------------------------------------
(* The steps of the partition.                                             *)

LEMMA MainStep ==
  ASSUME IInv, main \/ start \/ panic
  PROVE  IInv'
<1>1. UNCHANGED <<msg, outcome, client, request, answer, notified, faults>>
  BY DEF main, start, panic
<1>2. TypeOK'
  BY <1>1 DEF main, start, panic, IInv, TypeOK, Alive
<1>3. Holding' /\ Handled' /\ NothingLostWithoutFaults'
  BY <1>1 DEF main, start, panic, IInv, Holding, Handled,
    NothingLostWithoutFaults, Alive
<1> QED BY <1>1, <1>2, <1>3, CallersKept DEF IInv

LEMMA TurnStep ==
  ASSUME IInv, turn
  PROVE  IInv'
<1>1. UNCHANGED <<msg, client, request, answer, notified, faults>> /\ pc = "loop"
  BY DEF turn
<1>2. NothingLostWithoutFaults'
  BY <1>1 DEF turn, IInv, NothingLostWithoutFaults, Alive
<1>3. CASE msg.fn = "MsgSendDirectReq2"
  <2>1. PICK o \in Outcomes :
          /\ outcome' = o
          /\ pc' = IF o.result \in {"Ok", "Err"} THEN "reply" ELSE "smc"
    BY <1>3 DEF turn, Outcomes
  <2>2. o.result \in {"Ok", "Err", "NotificationSet", "MemRetrieveReq"}
    BY OutcomesHere
  <2>3. Outcomes' = Outcomes
    BY <1>1 DEF Outcomes, outcomes
  <2>4. TypeOK'
    BY <1>1, <2>1, <2>2 DEF IInv, TypeOK, Alive
  <2>5. Holding'
    BY <1>1, <1>3, <2>1 DEF IInv, Holding
  <2>6. Handled'
    BY <1>1, <2>1, <2>2, <2>3 DEF Handled
  <2> QED BY <1>1, <1>2, <2>4, <2>5, <2>6, CallersKept DEF IInv
<1>4. CASE msg.fn # "MsgSendDirectReq2"
  <2>1. pc' = "wait" /\ UNCHANGED outcome
    BY <1>4 DEF turn
  <2>2. \A c \in Caller : client[c] # "serving"
    BY <1>1, <1>4 DEF IInv, TypeOK, Alive, RequestsMade
  <2>3. TypeOK' /\ Holding' /\ Handled'
    BY <1>1, <2>1, <2>2 DEF IInv, TypeOK, Holding, Handled
  <2> QED BY <1>1, <1>2, <2>3, CallersKept DEF IInv
<1> QED BY <1>3, <1>4

LEMMA SmcStep ==
  ASSUME IInv, service_smc
  PROVE  IInv'
<1>1. /\ UNCHANGED <<msg, client, request, answer>> /\ pc = "smc" /\ pc' = "reply"
  BY DEF service_smc
<1> DEFINE expected == IF outcome.result = "NotificationSet" THEN "Success32"
                       ELSE "MemRetrieveResp"
<1>2. PICK id \in {expected, "Error", "Interrupt"} :
        /\ IF id = expected THEN UNCHANGED faults ELSE Fault
        /\ notified' = IF id = "Success32" THEN notified \cup {Receiver}
                       ELSE notified
        /\ outcome' = IF handle_result_simple(id) = "Ok"
                      THEN Ok(GenericRsp) ELSE Err
  BY DEF service_smc
<1>3. /\ outcome \in Outcomes /\ Outcomes' = Outcomes
      /\ outcome.result \in {"NotificationSet", "MemRetrieveReq"}
  BY <1>1 DEF IInv, Handled, Outcomes, outcomes
<1>4. /\ msg.source_id \in Caller
      /\ \A d \in Caller : client[d] = "serving" => d = msg.source_id
  BY <1>1, ServedCaller
<1>5. /\ faults' \in 0 .. MaxFaults
      /\ faults' = 0 => faults = 0 /\ id = expected
  BY <1>2, FaultsAssumption DEF Fault, IInv, TypeOK
<1>6. TypeOK'
  <2>1. outcome'.result \in {"Ok", "Err"}
    BY <1>2 DEF Ok, Err
  <2>2. notified' \subseteq Caller
    BY <1>2, <1>4 DEF Receiver, IInv, TypeOK
  <2> QED BY <1>1, <1>5, <2>1, <2>2 DEF IInv, TypeOK, Alive
<1>7. Handled'
  <2>1. CASE id = "Success32"
    BY <1>1, <1>2, <1>3, <2>1 DEF Handled, Receiver, handle_result_simple, Success
  <2>2. CASE id # "Success32"
    <3>1. outcome' = Err
      BY <1>2, <2>2 DEF handle_result_simple, Success
    <3>2. faults' = 0 => outcome.result = "MemRetrieveReq"
      BY <1>3, <1>5, <2>2
    <3> QED BY <1>1, <1>3, <3>1, <3>2 DEF Handled
  <2> QED BY <2>1, <2>2
<1>8. Holding' /\ NothingLostWithoutFaults'
  BY <1>1, <1>5 DEF IInv, Holding, NothingLostWithoutFaults, Alive
<1>9. notified \subseteq notified'
  BY <1>2
<1> QED BY <1>1, <1>6, <1>7, <1>8, <1>9, CallersKept DEF IInv

\* A response always reaches the caller that is served.
LEMMA RespondAccepted ==
  ASSUME IInv, respond
  PROVE  LET c == msg.source_id
         IN  /\ pc = "reply" /\ outcome.result = "Ok"
             /\ c \in Caller /\ client[c] = "serving"
             /\ pc' = "wait"
             /\ client' = [client EXCEPT ![c] = "answered"]
             /\ answer' = [answer EXCEPT ![c] =
                             from_req_with_payload(msg, outcome.bytes)]
             /\ UNCHANGED <<msg, outcome, request, notified, faults>>
<1>1. pc = "reply" /\ outcome.result = "Ok"
  BY DEF respond
<1>2. /\ msg.source_id \in Caller /\ client[msg.source_id] = "serving"
      /\ msg.destination_id = SpId
  BY <1>1, ServedCaller
<1>3. LET r == from_req_with_payload(msg, outcome.bytes)
      IN  r.source_id = SpId /\ r.destination_id = msg.source_id
  BY <1>2 DEF from_req_with_payload
<1> QED BY <1>1, <1>2, <1>3 DEF respond

LEMMA RespondStep ==
  ASSUME IInv, respond
  PROVE  IInv'
<1> DEFINE c == msg.source_id
           r == from_req_with_payload(msg, outcome.bytes)
<1>1. /\ pc = "reply" /\ outcome.result = "Ok"
      /\ c \in Caller /\ client[c] = "serving"
      /\ pc' = "wait"
      /\ client' = [client EXCEPT ![c] = "answered"]
      /\ answer' = [answer EXCEPT ![c] = r]
      /\ UNCHANGED <<msg, outcome, request, notified, faults>>
  BY RespondAccepted
<1>2. /\ msg = request[c] /\ msg.destination_id = SpId
      /\ \A d \in Caller : client[d] = "serving" => d = c
  BY <1>1, ServedCaller
<1>3. TypeOK'
  BY <1>1, <1>2 DEF IInv, TypeOK, Alive
<1>4. Records' /\ RequestsMade' /\ Holding' /\ Handled'
  BY <1>1 DEF IInv, Records, RequestsMade, Holding, Handled, TypeOK
<1>5. NothingLostWithoutFaults'
  BY <1>1 DEF IInv, NothingLostWithoutFaults, Alive, TypeOK
<1>6. AnswerMatchesRequest'
  <2> SUFFICES ASSUME NEW d \in Caller, client'[d] = "answered"
               PROVE  LET q == request[d]
                          a == answer'[d]
                          services == {s \in DOMAIN UUID : UUID[s] = q.uuid_high}
                      IN  /\ a.destination_id = d /\ a.source_id = SpId
                          /\ a.uuid_high = q.uuid_high
                          /\ \E s \in services : \E o \in outcomes(s, q.payload) :
                               \/ o.result = "Ok" /\ o.bytes = a.payload
                               \/ o.result = "NotificationSet" /\ a.payload = GenericRsp
                          /\ (/\ q.uuid_high = UUID["FwMgmt"]
                              /\ u8_at(q.payload, 0) = EC_CAP_TEST_NFY)
                                => d \in notified
    BY <1>1 DEF AnswerMatchesRequest
  <2>1. CASE d # c
    <3>1. client[d] = "answered" /\ answer'[d] = answer[d]
      BY <1>1, <2>1 DEF IInv, TypeOK, Records
    <3> QED BY <3>1 DEF IInv, AnswerMatchesRequest
  <2>2. CASE d = c
    <3>1. answer'[d] = r
      BY <1>1, <2>2 DEF IInv, Records
    <3>2. /\ r.destination_id = c /\ r.source_id = SpId
          /\ r.uuid_high = msg.uuid_high /\ r.payload = outcome.bytes
      BY <1>2 DEF from_req_with_payload
    <3>3. CASE outcome \in Outcomes
      <4>1. /\ handle(msg.uuid_high) \in DOMAIN UUID
            /\ UUID[handle(msg.uuid_high)] = msg.uuid_high
            /\ ~(msg.uuid_high = UUID["FwMgmt"] /\ u8_at(msg.payload, 0) = EC_CAP_TEST_NFY)
        BY <1>1, <3>3, OutcomesHere
      <4> QED BY <1>1, <1>2, <2>2, <3>1, <3>2, <3>3, <4>1 DEF Outcomes
    <3>4. CASE /\ \E o \in Outcomes : o.result = "NotificationSet"
               /\ outcome = Ok(GenericRsp)
               /\ c \in notified
      <4>1. PICK o \in Outcomes : o.result = "NotificationSet"
        BY <3>4
      <4>2. /\ handle(msg.uuid_high) \in DOMAIN UUID
            /\ UUID[handle(msg.uuid_high)] = msg.uuid_high
        BY <4>1, OutcomesHere
      <4>3. r.payload = GenericRsp
        BY <3>2, <3>4 DEF Ok
      <4> QED BY <1>2, <2>2, <3>1, <3>2, <3>4, <4>1, <4>2, <4>3 DEF Outcomes
    <3> QED BY <1>1, <3>3, <3>4 DEF IInv, Handled, Err
  <2> QED BY <2>1, <2>2
<1> QED BY <1>3, <1>4, <1>5, <1>6 DEF IInv

LEMMA DropStep ==
  ASSUME IInv, msg_wait_after_error
  PROVE  IInv'
<1> DEFINE c == msg.source_id
<1>1. /\ pc = "reply" /\ outcome.result = "Err" /\ pc' = "wait"
      /\ client' = [client EXCEPT ![c] = "dropped"]
      /\ UNCHANGED <<msg, outcome, request, answer, notified, faults>>
  BY DEF msg_wait_after_error
<1>2. /\ c \in Caller /\ client[c] = "serving" /\ msg = request[c]
      /\ \A d \in Caller : client[d] = "serving" => d = c
  BY <1>1, ServedCaller
<1>3. TypeOK'
  BY <1>1, <1>2 DEF IInv, TypeOK, Alive
<1>4. Records' /\ RequestsMade' /\ Holding' /\ Handled'
  BY <1>1, <1>2 DEF IInv, Records, RequestsMade, Holding, Handled, TypeOK
<1>5. faults = 0 => Unhandled(msg)
  BY <1>1, OutcomesHere DEF IInv, Handled, Ok
<1>6. NothingLostWithoutFaults'
  <2>1. ASSUME faults = 0, NEW d \in Caller, client'[d] = "dropped"
        PROVE  Unhandled(request[d])
    BY <1>1, <1>2, <1>5, <2>1 DEF IInv, NothingLostWithoutFaults, TypeOK
  <2> QED BY <1>1, <2>1 DEF NothingLostWithoutFaults, Alive
<1>7. AnswerMatchesRequest'
  <2>1. \A d \in Caller : client'[d] = "answered" => client[d] = "answered"
    BY <1>1, <1>2 DEF IInv, TypeOK
  <2> QED BY <1>1, <2>1 DEF IInv, AnswerMatchesRequest
<1> QED BY <1>3, <1>4, <1>6, <1>7 DEF IInv

LEMMA RefusedStep ==
  ASSUME IInv, refused
  PROVE  IInv'
<1>1. /\ UNCHANGED <<msg, outcome, client, request, answer, notified>>
      /\ pc' = "panic" /\ faults' \in 0 .. MaxFaults /\ faults' # 0
  BY FaultsAssumption DEF refused, Fault, IInv, TypeOK
<1>2. TypeOK' /\ Holding' /\ Handled' /\ NothingLostWithoutFaults'
  BY <1>1 DEF IInv, TypeOK, Holding, Handled, NothingLostWithoutFaults, Alive
<1> QED BY <1>1, <1>2, CallersKept DEF IInv

-----------------------------------------------------------------------------
(* The steps of the SPMC and the callers.                                  *)

LEMMA AskStep ==
  ASSUME IInv, NEW c \in Caller, NEW b \in Body, Ask(c, b)
  PROVE  IInv'
<1>1. /\ client[c] \in {"idle", "answered"}
      /\ client' = [client EXCEPT ![c] = "waiting"]
      /\ request' = [request EXCEPT ![c] = Request(c, b)]
      /\ answer' = [answer EXCEPT ![c] = NoMsg]
      /\ notified' = notified \ {c}
      /\ UNCHANGED <<pc, msg, outcome, faults>>
  BY DEF Ask, partition
<1>2. /\ client'[c] = "waiting" /\ request'[c] = Request(c, b)
      /\ \A d \in Caller : d # c =>
           client'[d] = client[d] /\ request'[d] = request[d] /\ answer'[d] = answer[d]
  BY <1>1 DEF IInv, TypeOK, Records
<1>3. TypeOK'
  BY <1>1, <1>2 DEF IInv, TypeOK, Alive
<1>4. Records'
  BY <1>1 DEF IInv, Records
<1>5. RequestsMade'
  BY <1>2 DEF IInv, RequestsMade, Request
<1>6. Holding'
  BY <1>1, <1>2 DEF IInv, Holding
<1>7. Handled'
  <2>1. pc = "reply" => msg.source_id # c
    BY <1>1, ServedCaller
  <2>2. Outcomes' = Outcomes
    BY <1>1 DEF Outcomes, outcomes
  <2> QED BY <1>1, <2>1, <2>2 DEF IInv, Handled
<1>8. AnswerMatchesRequest'
  BY <1>1, <1>2 DEF IInv, AnswerMatchesRequest
<1>9. NothingLostWithoutFaults'
  BY <1>1, <1>2 DEF IInv, NothingLostWithoutFaults, Alive
<1> QED BY <1>3, <1>4, <1>5, <1>6, <1>7, <1>8, <1>9 DEF IInv

LEMMA DeliverStep ==
  ASSUME IInv, NEW c \in Caller, Deliver(c)
  PROVE  IInv'
<1>1. /\ pc = "wait" /\ client[c] = "waiting"
      /\ client' = [client EXCEPT ![c] = "serving"]
      /\ msg' = request[c] /\ Returned(request[c])
      /\ UNCHANGED <<outcome, request, answer, notified, faults>>
  BY DEF Deliver, Returned
<1>2. request[c].fn = "MsgSendDirectReq2"
  BY <1>1 DEF IInv, RequestsMade
<1>3. pc' = "loop"
  BY <1>1, <1>2 DEF Returned, handle_result_simple, Success
<1>4. /\ client'[c] = "serving"
      /\ \A d \in Caller : d # c => client'[d] = client[d] /\ client[d] # "serving"
  BY <1>1 DEF IInv, TypeOK, Alive
<1>5. TypeOK'
  BY <1>1, <1>3, <1>4 DEF IInv, TypeOK, Alive
<1>6. Records' /\ RequestsMade' /\ Holding' /\ Handled'
  BY <1>1, <1>3, <1>4 DEF IInv, Records, RequestsMade, Holding, Handled
<1>7. AnswerMatchesRequest' /\ NothingLostWithoutFaults'
  BY <1>1, <1>3, <1>4 DEF IInv, AnswerMatchesRequest, NothingLostWithoutFaults, Alive
<1> QED BY <1>5, <1>6, <1>7 DEF IInv

LEMMA MisdeliverStep ==
  ASSUME IInv, NEW id \in AnswerId \ {"MsgSendDirectReq2"}, Misdeliver(id)
  PROVE  IInv'
<1>1. /\ UNCHANGED <<outcome, client, request, answer, notified>>
      /\ pc = "wait" /\ pc' \in {"loop", "panic"} /\ msg' = [fn |-> id]
      /\ faults' \in 0 .. MaxFaults /\ faults' # 0
  BY FaultsAssumption DEF Misdeliver, Returned, Fault, IInv, TypeOK
<1>2. msg'.fn # "MsgSendDirectReq2"
  BY <1>1
<1>3. TypeOK' /\ Holding' /\ Handled' /\ NothingLostWithoutFaults'
  BY <1>1, <1>2 DEF IInv, TypeOK, Holding, Handled, NothingLostWithoutFaults, Alive
<1> QED BY <1>1, <1>3, CallersKept DEF IInv

-----------------------------------------------------------------------------
(* The theorems.                                                           *)

\* The invariant is inductive.
LEMMA IInvStep ==
  ASSUME IInv, [Next]_vars
  PROVE  IInv'
<1>1. CASE UNCHANGED vars
  BY <1>1 DEF vars, IInv, TypeOK, Records, RequestsMade, Holding, Handled,
    Outcomes, outcomes, AnswerMatchesRequest, NothingLostWithoutFaults, Alive
<1> QED
  BY <1>1, MainStep, TurnStep, SmcStep, RespondStep, DropStep, RefusedStep,
     AskStep, DeliverStep, MisdeliverStep
  DEF Next, Partition

LEMMA IInvCorrect == Spec => []IInv
<1>1. Init => IInv
  <2> SUFFICES ASSUME Init PROVE IInv
    OBVIOUS
  <2>1. TypeOK
    BY FaultsAssumption DEF Init, TypeOK, Err
  <2>2. Records /\ RequestsMade /\ Holding /\ Handled
    BY DEF Init, Records, RequestsMade, Holding, Handled
  <2>3. AnswerMatchesRequest /\ NothingLostWithoutFaults
    BY DEF Init, AnswerMatchesRequest, NothingLostWithoutFaults, Alive
  <2> QED BY <2>1, <2>2, <2>3 DEF IInv
<1> QED BY <1>1, IInvStep, PTL DEF Spec

\* The types hold, and a caller is served exactly while the partition holds
\* its request.
THEOREM TypeCorrect == Spec => []TypeOK
<1>1. IInv => TypeOK
  BY DEF IInv
<1> QED BY <1>1, IInvCorrect, PTL

\* An answer is that of a service of the UUID asked for to the payload sent,
\* addressed to the caller; and a notification is reported after it was sent.
THEOREM AnswersMatch == Spec => []AnswerMatchesRequest
<1>1. IInv => AnswerMatchesRequest
  BY DEF IInv
<1> QED BY <1>1, IInvCorrect, PTL

\* Without a fault of the SPMC no request ends the partition, and only those
\* that no handler takes are left without an answer.
THEOREM NothingLost == Spec => []NothingLostWithoutFaults
<1>1. IInv => NothingLostWithoutFaults
  BY DEF IInv
<1> QED BY <1>1, IInvCorrect, PTL

\* The partition takes one request at a time, and answers or drops it before
\* the next: it implements what the abstract server may do.
THEOREM ServerSafety == Spec => Server!Safety
<1>1. Init => Server!Init
  BY DEF Init, Server!Init, Alive
<1>2. IInv /\ [Next]_vars => [Server!Next]_(Server!vars)
  <2> SUFFICES ASSUME IInv, [Next]_vars
               PROVE  [Server!Next]_(Server!vars)
    OBVIOUS
  <2> USE DEF Server!vars
  <2>1. CASE UNCHANGED vars
    BY <2>1 DEF vars, Alive
  <2>2. CASE main \/ start \/ turn \/ service_smc \/ panic
    BY <2>2 DEF main, start, turn, service_smc, panic, Alive
  <2>3. CASE respond
    <3>1. PICK c \in Caller :
            /\ pc = "reply" /\ pc' = "wait" /\ client[c] = "serving"
            /\ client' = [client EXCEPT ![c] = "answered"]
      BY <2>3, RespondAccepted
    <3>2. Server!Answer(c)
      BY <3>1 DEF Server!Answer, Alive
    <3> QED BY <3>2 DEF Server!Next
  <2>4. CASE msg_wait_after_error
    <3>1. pc = "reply" /\ pc' = "wait"
          /\ client' = [client EXCEPT ![msg.source_id] = "dropped"]
      BY <2>4 DEF msg_wait_after_error
    <3>2. msg.source_id \in Caller /\ client[msg.source_id] = "serving"
      BY <3>1, ServedCaller
    <3>3. Server!Drop(msg.source_id)
      BY <3>1, <3>2 DEF Server!Drop, Alive
    <3> QED BY <3>2, <3>3 DEF Server!Next
  <2>5. CASE refused
    <3>1. Server!Die
      BY <2>5 DEF refused, Server!Die, Alive
    <3> QED BY <3>1 DEF Server!Next
  <2>6. ASSUME NEW c \in Caller, NEW b \in Body, Ask(c, b)
        PROVE  Server!Next
    <3>1. Server!Ask(c)
      BY <2>6 DEF Ask, partition, Server!Ask, Alive
    <3> QED BY <3>1 DEF Server!Next
  <2>7. ASSUME NEW c \in Caller, Deliver(c)
        PROVE  Server!Next
    <3>1. /\ pc = "wait" /\ client[c] = "waiting" /\ Returned(request[c])
          /\ client' = [client EXCEPT ![c] = "serving"]
      BY <2>7 DEF Deliver
    <3>2. ~Server!Busy
      BY <3>1 DEF IInv, TypeOK, Alive, Server!Busy
    <3>3. pc' = "loop"
      BY <3>1 DEF IInv, RequestsMade, Returned, handle_result_simple, Success
    <3>4. Server!Take(c)
      BY <3>1, <3>2, <3>3 DEF Server!Take, Alive
    <3> QED BY <3>4 DEF Server!Next
  <2>8. ASSUME NEW id \in AnswerId \ {"MsgSendDirectReq2"}, Misdeliver(id)
        PROVE  [Server!Next]_(Server!vars)
    <3>1. pc = "wait" /\ pc' \in {"loop", "panic"} /\ UNCHANGED client
      BY <2>8 DEF Misdeliver, Returned
    <3>2. CASE pc' = "loop"
      BY <3>1, <3>2 DEF Alive
    <3>3. CASE pc' = "panic"
      BY <3>1, <3>3 DEF Alive, Server!Die, Server!Next
    <3> QED BY <3>1, <3>2, <3>3
  <2> QED
    BY <2>1, <2>2, <2>3, <2>4, <2>5, <2>6, <2>7, <2>8 DEF Next, Partition
<1> QED BY <1>1, <1>2, IInvCorrect, PTL DEF Spec, Server!Safety

-----------------------------------------------------------------------------
(* Mailboxes.                                                              *)

\* A mailbox, by its parts.
Parts(m, mailbox, cci, message_in, n) ==
  /\ Len(m) = 48
  /\ m[6] = cci[2] /\ m[8] = cci[4]
  /\ \A i \in 17 .. 16 + n : m[i] = message_in[i - 16]
  /\ \A i \in 17 + n .. 48 : m[i] = 0
  /\ \A i \in 9 .. 16 : m[i] = mailbox[i]

\* What update_mailbox leaves in each part of a mailbox.
LEMMA MailboxParts ==
  \A mailbox, cci, message_in, m : \A n \in 0 .. 16 :
    n = Len(message_in) /\ m = update_mailbox(mailbox, cci, message_in) =>
      Parts(m, mailbox, cci, message_in, n)
<1> TAKE mailbox, cci, message_in, m
<1> TAKE n \in 0 .. 16
<1>1. SUFFICES ASSUME n = Len(message_in),
                      m = update_mailbox(mailbox, cci, message_in)
               PROVE  Parts(m, mailbox, cci, message_in, n)
  BY Zenon
<1>2. m = [i \in 1 .. 48 |->
             CASE i \in 1 .. 2 -> le(VERSION, 2)[i]
               [] i \in 5 .. 8 -> cci[i - 4]
               [] i \in 17 .. 16 + n -> message_in[i - 16]
               [] i > 16 + n -> 0
               [] OTHER -> mailbox[i]]
  BY <1>1 DEF update_mailbox, MAILBOX_LEN, CCI_OFFSET, MESSAGE_IN_OFFSET
<1>3. m[6] = cci[2] /\ m[8] = cci[4]
  BY <1>2
<1>4. \A i \in 17 .. 16 + n : m[i] = message_in[i - 16]
  BY <1>2
<1>5. \A i \in 17 + n .. 48 : m[i] = 0
  BY <1>2
<1>6. \A i \in 9 .. 16 : m[i] = mailbox[i]
  BY <1>2
<1>7. Len(m) = 48
  BY <1>2
<1> QED BY <1>3, <1>4, <1>5, <1>6, <1>7, Zenon DEF Parts

\* The part that holds MESSAGE IN, as a sequence.
LEMMA MailboxMessage ==
  ASSUME NEW message_in \in Seq(Nat), NEW n \in 0 .. 16, Len(message_in) = n,
         NEW m, \A i \in 17 .. 16 + n : m[i] = message_in[i - 16]
  PROVE  SubSeq(m, 17, 16 + n) = message_in
<1>1. \A i \in 17 .. 16 + n : m[i] \in Nat
  <2> TAKE i \in 17 .. 16 + n
  <2>1. i - 16 \in 1 .. Len(message_in)
    OBVIOUS
  <2>2. message_in[i - 16] \in Nat
    BY <2>1, ElementOfSeq
  <2> QED BY <2>2
<1>2. 17 \in Int /\ 16 + n \in Int
  OBVIOUS
<1>3. /\ SubSeq(m, 17, 16 + n) \in Seq(Nat)
      /\ Len(SubSeq(m, 17, 16 + n)) =
           IF 17 <= 16 + n THEN (16 + n) - 17 + 1 ELSE 0
      /\ \A i \in 1 .. (16 + n) - 17 + 1 : SubSeq(m, 17, 16 + n)[i] = m[17 + i - 1]
  BY <1>1, <1>2, SubSeqProperties
<1>4. \A l \in 0 .. 16 : (IF 17 <= 16 + l THEN (16 + l) - 17 + 1 ELSE 0) = l
  OBVIOUS
<1>5. Len(SubSeq(m, 17, 16 + n)) = n
  BY <1>3, <1>4
<1>6. \A i \in 1 .. n : SubSeq(m, 17, 16 + n)[i] = message_in[i]
  <2> TAKE i \in 1 .. n
  <2>1. i \in 1 .. (16 + n) - 17 + 1 /\ 17 + i - 1 \in 17 .. 16 + n
        /\ (17 + i - 1) - 16 = i
    OBVIOUS
  <2>2. SubSeq(m, 17, 16 + n)[i] = m[17 + i - 1]
    BY <1>3, <2>1
  <2>3. m[17 + i - 1] = message_in[(17 + i - 1) - 16]
    BY <2>1
  <2> QED BY <2>1, <2>2, <2>3
<1> QED BY <1>3, <1>5, <1>6, SeqEqual

\* A CCI and MESSAGE IN that belong together.
Announces(cci, message_in) ==
  /\ message_in \in Seq(Nat)
  /\ Len(message_in) \in 0 .. 16
  /\ cci[2] = Len(message_in)
  /\ \/ /\ cci[4] = 128
        /\ message_in \in {CAPABILITY_MESSAGE_IN, CONNECTOR_CAPABILITY_MESSAGE_IN,
                           CONNECTOR_STATUS_MESSAGE_IN}
     \/ cci[4] = 2 /\ Len(message_in) = 0

\* The commands answer with a fixture of the length that their CCI announces,
\* or are not supported.
LEMMA CommandFixtures ==
  ASSUME NEW opcode, NEW connector
  PROVE  Announces(command(opcode, connector)[1], command(opcode, connector)[2])
<1> DEFINE c == command(opcode, connector)
<1>1. CASE c = <<CCI_CAPABILITY, CAPABILITY_MESSAGE_IN>>
  <2>1. /\ CAPABILITY_MESSAGE_IN \in Seq(Nat) /\ Len(CAPABILITY_MESSAGE_IN) = 16
        /\ CCI_CAPABILITY[2] = 16 /\ CCI_CAPABILITY[4] = 128 /\ 16 \in 0 .. 16
    BY DEF CCI_CAPABILITY, CAPABILITY_MESSAGE_IN
  <2>2. Announces(CCI_CAPABILITY, CAPABILITY_MESSAGE_IN)
    BY <2>1 DEF Announces
  <2> QED BY <1>1, <2>2
<1>2. CASE c = <<CCI_CONNECTOR_CAPABILITY, CONNECTOR_CAPABILITY_MESSAGE_IN>>
  <2>1. /\ CONNECTOR_CAPABILITY_MESSAGE_IN \in Seq(Nat)
        /\ Len(CONNECTOR_CAPABILITY_MESSAGE_IN) = 2 /\ 2 \in 0 .. 16
        /\ CCI_CONNECTOR_CAPABILITY[2] = 2 /\ CCI_CONNECTOR_CAPABILITY[4] = 128
    BY DEF CCI_CONNECTOR_CAPABILITY, CONNECTOR_CAPABILITY_MESSAGE_IN
  <2>2. Announces(CCI_CONNECTOR_CAPABILITY, CONNECTOR_CAPABILITY_MESSAGE_IN)
    BY <2>1 DEF Announces
  <2> QED BY <1>2, <2>2
<1>3. CASE c = <<CCI_CONNECTOR_STATUS, CONNECTOR_STATUS_MESSAGE_IN>>
  <2>1. /\ CONNECTOR_STATUS_MESSAGE_IN \in Seq(Nat)
        /\ Len(CONNECTOR_STATUS_MESSAGE_IN) = 11 /\ 11 \in 0 .. 16
        /\ CCI_CONNECTOR_STATUS[2] = 11 /\ CCI_CONNECTOR_STATUS[4] = 128
    BY DEF CCI_CONNECTOR_STATUS, CONNECTOR_STATUS_MESSAGE_IN
  <2>2. Announces(CCI_CONNECTOR_STATUS, CONNECTOR_STATUS_MESSAGE_IN)
    BY <2>1 DEF Announces
  <2> QED BY <1>3, <2>2
<1>4. CASE c = <<CCI_NOT_SUPPORTED, <<>>>>
  <2>1. /\ <<>> \in Seq(Nat) /\ Len(<<>>) = 0 /\ 0 \in 0 .. 16
        /\ CCI_NOT_SUPPORTED[2] = 0 /\ CCI_NOT_SUPPORTED[4] = 2
    BY EmptySeq DEF CCI_NOT_SUPPORTED
  <2>2. Announces(CCI_NOT_SUPPORTED, <<>>)
    BY <2>1 DEF Announces
  <2> QED BY <1>4, <2>2
<1> QED BY <1>1, <1>2, <1>3, <1>4 DEF command

\* A mailbox that Ucsi returns.
LEMMA UcsiResult ==
  ASSUME NEW p, Ucsi(p).result \in {"Ok", "NotificationSet"}
  PROVE  \E mailbox, cci, message_in :
           /\ Ucsi(p) = Ok(update_mailbox(mailbox, cci, message_in))
           /\ Announces(cci, message_in)
           /\ \A i \in 9 .. 16 : mailbox[i] = u8_at(p, i)
<1> DEFINE mailbox == [i \in 1 .. MAILBOX_LEN |-> u8_at(p, MAILBOX_PAYLOAD_START + i - 1)]
           k == command(mailbox[CONTROL_OFFSET + 1], mailbox[CONTROL_OFFSET + 3])
<1>1. Ucsi(p) = Err \/ Ucsi(p) = Ok(update_mailbox(mailbox, k[1], k[2]))
  BY Zenon DEF Ucsi
<1>2. \A i \in 9 .. 16 : mailbox[i] = u8_at(p, i)
  <2> TAKE i \in 9 .. 16
  <2>1. i \in 1 .. MAILBOX_LEN /\ MAILBOX_PAYLOAD_START + i - 1 = i
    BY DEF MAILBOX_LEN, MAILBOX_PAYLOAD_START
  <2> QED BY <2>1
<1>3. Announces(k[1], k[2])
  BY CommandFixtures
<1> HIDE DEF mailbox, k
<1>4. Ucsi(p) = Ok(update_mailbox(mailbox, k[1], k[2]))
  BY <1>1 DEF Err
<1> QED BY <1>2, <1>3, <1>4

\* A mailbox that a caller gets back is consistent.
THEOREM MailboxesConsistent == Spec => []UcsiMailboxConsistent
<1>1. ASSUME AnswerMatchesRequest, NEW c \in Caller, client[c] = "answered",
             request[c].uuid_high = UUID["Ucsi"]
      PROVE  LET m == answer[c].payload
                 data_len == m[CCI_OFFSET + 2]
                 fixtures == {CAPABILITY_MESSAGE_IN, CONNECTOR_CAPABILITY_MESSAGE_IN,
                              CONNECTOR_STATUS_MESSAGE_IN}
                 message == SubSeq(m, MESSAGE_IN_OFFSET + 1, MESSAGE_IN_OFFSET + data_len)
             IN  /\ Len(m) = MAILBOX_LEN
                 /\ \/ m[CCI_OFFSET + 4] = 128 /\ message \in fixtures
                    \/ m[CCI_OFFSET + 4] = 2 /\ data_len = 0
                 /\ \A i \in MESSAGE_IN_OFFSET + data_len + 1 .. MAILBOX_LEN : m[i] = 0
                 /\ \A i \in CONTROL_OFFSET + 1 .. CONTROL_OFFSET + 8 :
                      m[i] = u8_at(request[c].payload, i)
  <2> DEFINE p == request[c].payload
             m == answer[c].payload
  <2>1. PICK s \in DOMAIN UUID : UUID[s] = UUID["Ucsi"] /\ \E o \in outcomes(s, p) :
          \/ o.result = "Ok" /\ o.bytes = m
          \/ o.result = "NotificationSet" /\ m = GenericRsp
    BY <1>1 DEF AnswerMatchesRequest
  <2>2. s = "Ucsi" /\ outcomes(s, p) = {Ucsi(p)}
    BY <2>1, UuidsDistinct DEF outcomes, Elsewhere
  <2>3. Ucsi(p).result \in {"Ok", "NotificationSet"}
    BY <2>1, <2>2
  <2>4. PICK mailbox, cci, message_in :
          /\ Ucsi(p) = Ok(update_mailbox(mailbox, cci, message_in))
          /\ Announces(cci, message_in)
          /\ \A i \in 9 .. 16 : mailbox[i] = u8_at(p, i)
    BY <2>3, UcsiResult
  <2>5. m = update_mailbox(mailbox, cci, message_in)
    BY <2>1, <2>2, <2>4 DEF Ok
  <2>6. PICK n \in 0 .. 16 : n = Len(message_in)
    BY <2>4 DEF Announces
  <2>7. /\ Len(m) = 48
        /\ m[6] = cci[2] /\ m[8] = cci[4]
        /\ \A i \in 17 .. 16 + n : m[i] = message_in[i - 16]
        /\ \A i \in 17 + n .. 48 : m[i] = 0
        /\ \A i \in 9 .. 16 : m[i] = mailbox[i]
    <3>1. Parts(m, mailbox, cci, message_in, n)
      BY <2>5, <2>6, MailboxParts
    <3> QED BY <3>1, Zenon DEF Parts
  <2> HIDE DEF m, p
  <2>8. SubSeq(m, 17, 16 + n) = message_in
    BY <2>4, <2>6, <2>7, MailboxMessage DEF Announces
  <2>9. m[6] = n
    BY <2>4, <2>6, <2>7 DEF Announces
  <2>10. \A i \in 16 + m[6] + 1 .. 48 : m[i] = 0
    <3>1. 16 + m[6] + 1 = 17 + n
      BY <2>9
    <3> QED BY <2>7, <3>1
  <2>11. \A i \in 9 .. 16 : m[i] = u8_at(p, i)
    BY <2>4, <2>7
  <2>12. /\ MESSAGE_IN_OFFSET + 1 = 17 /\ CCI_OFFSET + 2 = 6 /\ CCI_OFFSET + 4 = 8
         /\ CONTROL_OFFSET + 1 = 9 /\ CONTROL_OFFSET + 8 = 16
         /\ MAILBOX_LEN = 48 /\ MESSAGE_IN_OFFSET = 16
    BY DEF MESSAGE_IN_OFFSET, CCI_OFFSET, CONTROL_OFFSET, MAILBOX_LEN
  <2>13. /\ Len(m) = 48
         /\ \/ m[8] = 128 /\ SubSeq(m, 17, 16 + m[6]) \in
                 {CAPABILITY_MESSAGE_IN, CONNECTOR_CAPABILITY_MESSAGE_IN,
                  CONNECTOR_STATUS_MESSAGE_IN}
            \/ m[8] = 2 /\ m[6] = 0
    BY <2>4, <2>6, <2>7, <2>8, <2>9 DEF Announces
  <2> QED BY <2>10, <2>11, <2>12, <2>13, Zenon DEF m, p
<1>2. IInv => UcsiMailboxConsistent
  BY <1>1 DEF IInv, UcsiMailboxConsistent
<1> QED BY <1>2, IInvCorrect, PTL
=============================================================================
