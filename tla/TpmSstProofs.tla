---------------------------- MODULE TpmSstProofs ----------------------------
(* Proofs about TpmSst, for any localities, commands and sizes.            *)
EXTENDS TpmSst, TLAPS

-----------------------------------------------------------------------------
(* The inductive invariant.                                                *)

ViewType == [locality : Locality \cup {NO_ACTIVE_LOCALITY}, state : TpmState]
ResultType == [op : Op \cup {"none"}, code : {"Ok", "Denied", "InvalidParameters"},
               sent : Id, received : Id]

\* The variables of the library and of its caller have their types.
LibraryTyped ==
  /\ is_crb \in BOOLEAN /\ idle_bypass \in BOOLEAN
  /\ pc \in Waits \cup Points
  /\ call \in [op : Op \cup {"none"}, locality : Locality \cup {NO_ACTIVE_LOCALITY}]
  /\ expired \in BOOLEAN
  /\ packet \in [id : Id, length : 0 .. CRB_DATA_BUFFER_SIZE]
  /\ capacity \in [command : 0 .. CRB_DATA_BUFFER_SIZE,
                   response : 0 .. CRB_DATA_BUFFER_SIZE]
  /\ index \in 0 .. CRB_DATA_BUFFER_SIZE
  /\ view \in ViewType /\ result \in ResultType /\ failed \in BOOLEAN

\* The points of start.
StartPoint == {"command", "sts_expect", "go", "started", "response"}
ReadyWait == {"request_clear", "control_status", "sts_ready"}

\* Which operation is where.
Ops ==
  /\ pc = "idle" => call = NoCall
  /\ pc # "idle" => call.locality \in Locality
  /\ pc \in ReadyWait => call.op \in {"go_idle", "cmd_ready"}
  /\ pc = "granted" => call.op = "locality_request"
  /\ pc = "released" => call.op = "locality_relinquish"
  /\ pc \in StartPoint => call.op = "start"

\* What is copied, of what length and how far.
Bounds ==
  /\ pc \notin StartPoint \cup {"panicked"} => index = 0
  /\ pc \in StartPoint => InBuffer(capacity.command) /\ InBuffer(capacity.response)
  /\ pc = "command" => index < packet.length /\ packet.length <= capacity.command
  /\ pc = "response" =>
       \/ index < TPM_HEADER_SIZE /\ packet.length = 0
       \/ /\ TPM_HEADER_SIZE <= index /\ index <= packet.length
          /\ packet.length <= capacity.response

\* A response that has been read to its end through the FIFO.
Spent == ~is_crb /\ tpm.state = "Completion" /\ tpm.moved >= tpm.length

\* The state of the TPM is the one that the service keeps.
StateAgrees ==
  /\ view.state = "Idle" => tpm.state = "Idle" \/ (~is_crb /\ tpm.state = "Ready")
  /\ view.state = "Ready" => tpm.state = "Ready"
  /\ view.state = "Complete" => tpm.state = "Completion" /\ (is_crb \/ Spent)

Quiet == tpm.control = {} /\ tpm.request = {}
Mine == tpm.locality = call.locality /\ view.locality = call.locality

\* go_idle and cmd_ready: the request is there, or has been taken up.
Bit == IF is_crb /\ call.op = "go_idle" THEN "goIdle" ELSE "cmdReady"
Readying ==
  /\ tpm.control = {} /\ Mine
  /\ tpm.request \subseteq {Bit}
  /\ tpm.request = {} => tpm.state = IF Bit = "goIdle" THEN "Idle" ELSE "Ready"
  /\ pc = "sts_ready" => ~is_crb /\ (tpm.request # {} => tpm.state # "Ready")
  /\ pc # "sts_ready" => is_crb
  /\ pc = "control_status" => tpm.request = {}
  /\ tpm.state # "Executing"

\* locality_request and locality_relinquish: so is what they ask for.
Granting ==
  /\ tpm.request = {} /\ StateAgrees
  /\ tpm.control \subseteq {<<call.locality, "request">>}
  /\ tpm.locality = IF tpm.control = {} THEN call.locality ELSE NO_ACTIVE_LOCALITY
Releasing ==
  /\ tpm.request = {} /\ StateAgrees
  /\ tpm.control \subseteq {<<call.locality, "relinquish">>}
  /\ tpm.locality = IF tpm.control = {} THEN NO_ACTIVE_LOCALITY ELSE call.locality

\* start: the TPM has the command that start was given and then its response,
\* or through the FIFO it has ignored the command.
Loaded == tpm.id = packet.id
Starting ==
  /\ Quiet /\ Mine
  /\ pc = "command" => \/ tpm.state = "Ready" \/ Spent
                       \/ is_crb /\ tpm.state = "Completion"
                       \/ tpm.state = "Reception" /\ Loaded
  /\ pc \in {"sts_expect", "go"} => Spent \/ (tpm.state = "Reception" /\ Loaded)
  /\ pc = "started" => \/ Spent
                       \/ tpm.state = "Executing" /\ Loaded
                       \/ tpm.state = "Completion" /\ Loaded /\ tpm.moved = 0
  /\ pc = "response" => /\ tpm.state = "Completion" /\ Loaded
                        /\ is_crb \/ tpm.moved = index
                        /\ index >= TPM_HEADER_SIZE => packet.length = tpm.length

\* After a panic: what the call has asked for may still be done.
Confined ==
  /\ tpm.locality \in {NO_ACTIVE_LOCALITY, call.locality}
  /\ \A c \in tpm.control : c[1] = call.locality
  /\ tpm.state = "Executing" => call.op = "start"

Rest == Quiet /\ tpm.locality = view.locality /\ StateAgrees

Session ==
  /\ pc = "idle" => Rest
  /\ pc \in ReadyWait => Readying
  /\ pc = "granted" => Granting
  /\ pc = "released" => Releasing
  /\ pc \in StartPoint => Starting
  /\ pc = "panicked" => Confined

IInv ==
  /\ LibraryTyped /\ tpm \in Tpm /\ Ops /\ Bounds
  /\ ~failed => Session
  /\ OwnResponse

-----------------------------------------------------------------------------
(* Types and bounds.                                                       *)

\* What the service makes of an Ok.
LEMMA ViewAfter ==
  ASSUME view \in ViewType, NEW l \in Locality
  PROVE  /\ \A op \in Op : view_after(op, l) \in ViewType
         /\ view_after("go_idle", l) = [view EXCEPT !.state = "Idle"]
         /\ view_after("cmd_ready", l) = [view EXCEPT !.state = "Ready"]
         /\ view_after("start", l) = [view EXCEPT !.state = "Complete"]
         /\ view_after("locality_request", l) = [view EXCEPT !.locality = l]
         /\ view_after("locality_relinquish", l) =
              [view EXCEPT !.locality = NO_ACTIVE_LOCALITY]
<1>1. /\ view_after("go_idle", l) = [view EXCEPT !.state = "Idle"]
      /\ view_after("cmd_ready", l) = [view EXCEPT !.state = "Ready"]
      /\ view_after("start", l) = [view EXCEPT !.state = "Complete"]
      /\ view_after("locality_request", l) = [view EXCEPT !.locality = l]
      /\ view_after("locality_relinquish", l) =
           [view EXCEPT !.locality = NO_ACTIVE_LOCALITY]
  BY DEF view_after
<1>2. /\ \A s \in TpmState : [view EXCEPT !.state = s] \in ViewType
      /\ \A m \in Locality \cup {NO_ACTIVE_LOCALITY} :
           [view EXCEPT !.locality = m] \in ViewType
  BY DEF ViewType
<1>3. {"Idle", "Ready", "Complete"} \subseteq TpmState
  BY DEF TpmState
<1> QED BY <1>1, <1>2, <1>3 DEF Op

\* An operation returns.
LEMMA ReturnTyped ==
  ASSUME LibraryTyped,
         NEW code \in {"Ok", "Denied", "InvalidParameters"},
         NEW sent \in Id, NEW received \in Id, NEW touched \in BOOLEAN,
         Return(code, sent, received, touched),
         call.op \in Op, call.locality \in Locality
  PROVE  LibraryTyped' /\ Ops' /\ Bounds'
<1> USE SizeAssumption
<1>1. /\ pc' = "idle" /\ call' = NoCall /\ expired' = FALSE
      /\ packet' = NoPacket /\ capacity' = NoCapacity /\ index' = 0
      /\ UNCHANGED <<is_crb, idle_bypass>>
  BY DEF Return
<1>2. view' \in ViewType
  BY ViewAfter DEF Return, LibraryTyped
<1>3. result' \in ResultType
  BY DEF Return, ResultType
<1>4. failed' \in BOOLEAN
  BY DEF Return
<1>5. /\ packet' \in [id : Id, length : 0 .. CRB_DATA_BUFFER_SIZE]
      /\ capacity' \in [command : 0 .. CRB_DATA_BUFFER_SIZE,
                        response : 0 .. CRB_DATA_BUFFER_SIZE]
      /\ index' \in 0 .. CRB_DATA_BUFFER_SIZE
  BY <1>1 DEF NoPacket, NoCapacity, Id
<1>6. pc' \in Waits \cup Points
      /\ call' \in [op : Op \cup {"none"}, locality : Locality \cup {NO_ACTIVE_LOCALITY}]
  BY <1>1 DEF Points, NoCall
<1>7. LibraryTyped'
  BY <1>1, <1>2, <1>3, <1>4, <1>5, <1>6 DEF LibraryTyped
<1>8. Ops' /\ Bounds'
  BY <1>1 DEF Ops, Bounds, ReadyWait, StartPoint
<1> QED BY <1>7, <1>8

\* An operation begins.
LEMMA BeginTyped ==
  ASSUME LibraryTyped, Ops, Bounds, NEW l \in Locality, NEW t,
         NEW op \in Op, NEW label, Begin(op, l, label, t),
         \/ op \in {"go_idle", "cmd_ready"} /\ label \in ReadyWait
         \/ op = "locality_request" /\ label = "granted"
         \/ op = "locality_relinquish" /\ label = "released"
  PROVE  LibraryTyped' /\ Ops' /\ Bounds'
<1>1. /\ pc = "idle" /\ pc' = label /\ call' = [op |-> op, locality |-> l]
      /\ expired' = FALSE /\ result' = NoResult
      /\ UNCHANGED <<is_crb, idle_bypass, packet, capacity, index, view, failed>>
  BY DEF Begin, local
<1>2. label \in ReadyWait \cup {"granted", "released"}
  OBVIOUS
<1>3. /\ label \in Waits /\ label \notin StartPoint \cup {"panicked", "idle"}
      /\ label \in ReadyWait => label \notin {"granted", "released"}
  BY <1>2 DEF ReadyWait, Waits, StartPoint
<1>4. /\ result' \in ResultType
      /\ call' \in [op : Op \cup {"none"}, locality : Locality \cup {NO_ACTIVE_LOCALITY}]
  BY <1>1 DEF NoResult, ResultType, Id
<1>5. LibraryTyped'
  BY <1>1, <1>3, <1>4 DEF LibraryTyped
<1>6. Ops'
  BY <1>1, <1>3 DEF Ops
<1>7. index = 0
  BY <1>1 DEF Bounds, StartPoint
<1>8. Bounds'
  BY <1>1, <1>3, <1>7 DEF Bounds, StartPoint
<1> QED BY <1>5, <1>6, <1>8

LEMMA LibraryStep ==
  ASSUME LibraryTyped, tpm \in Tpm, Ops, Bounds, [Next]_vars
  PROVE  LibraryTyped' /\ Ops' /\ Bounds'
<1> USE SizeAssumption
<1>0. /\ is_crb \in BOOLEAN /\ idle_bypass \in BOOLEAN
      /\ pc \in Waits \cup Points
      /\ call \in [op : Op \cup {"none"}, locality : Locality \cup {NO_ACTIVE_LOCALITY}]
      /\ expired \in BOOLEAN
      /\ packet \in [id : Id, length : 0 .. CRB_DATA_BUFFER_SIZE]
      /\ capacity \in [command : 0 .. CRB_DATA_BUFFER_SIZE,
                       response : 0 .. CRB_DATA_BUFFER_SIZE]
      /\ index \in 0 .. CRB_DATA_BUFFER_SIZE
      /\ view \in ViewType /\ result \in ResultType /\ failed \in BOOLEAN
  BY DEF LibraryTyped
<1>a. /\ index \in Nat /\ packet.length \in Nat /\ packet.id \in Id /\ NoId \in Id
      /\ capacity.command \in Nat /\ capacity.response \in Nat
  BY <1>0 DEF Id
<1>b. pc # "idle" => call.locality \in Locality
  BY DEF Ops
<1>1. CASE /\ UNCHANGED <<is_crb, idle_bypass, pc, call, local, caller>>
           /\ expired' \in BOOLEAN
  BY <1>0, <1>1 DEF local, caller, LibraryTyped, Ops, Bounds
<1>2. ASSUME NEW l \in Locality, go_idle(l) \/ cmd_ready(l)
      PROVE  LibraryTyped' /\ Ops' /\ Bounds'
  <2>1. PICK op \in {"go_idle", "cmd_ready"}, label \in {"request_clear", "sts_ready"} :
          \E t : Begin(op, l, label, t)
    BY <1>2 DEF go_idle, cmd_ready
  <2> QED BY <2>1, BeginTyped DEF ReadyWait, Op
<1>3. ASSUME NEW l \in Locality, locality_request(l)
      PROVE  LibraryTyped' /\ Ops' /\ Bounds'
  BY <1>3, BeginTyped DEF locality_request, Op
<1>4. ASSUME NEW l \in Locality, locality_relinquish(l)
      PROVE  LibraryTyped' /\ Ops' /\ Bounds'
  BY <1>4, BeginTyped DEF locality_relinquish, Op
<1>5. ASSUME NEW l \in Locality, start(l)
      PROVE  LibraryTyped' /\ Ops' /\ Bounds'
  <2>1. /\ pc = "idle" /\ UNCHANGED <<is_crb, idle_bypass, expired, index, view, failed>>
    BY <1>5 DEF start
  <2>2. PICK command \in Size, response \in Size, length \in Size, id \in CommandId :
          \/ /\ InBuffer(command) /\ InBuffer(response)
             /\ tpm_packet_length(length, command)
             /\ pc' = "command"
             /\ call' = [op |-> "start", locality |-> l]
             /\ capacity' = [command |-> command, response |-> response]
             /\ packet' = [id |-> id, length |-> length]
             /\ result' = NoResult
          \/ /\ result' = [op |-> "start", code |-> "InvalidParameters",
                           sent |-> NoId, received |-> NoId]
             /\ UNCHANGED <<pc, call, capacity, packet>>
    BY <1>5 DEF start
  <2>3. CASE UNCHANGED <<pc, call, capacity, packet>>
    <3>1. result' \in ResultType
      BY <2>2 DEF ResultType, NoResult, Id, Op
    <3> QED BY <1>0, <2>1, <2>3, <3>1 DEF LibraryTyped, Ops, Bounds
  <2>4. CASE /\ InBuffer(command) /\ InBuffer(response)
             /\ tpm_packet_length(length, command)
             /\ pc' = "command"
             /\ call' = [op |-> "start", locality |-> l]
             /\ capacity' = [command |-> command, response |-> response]
             /\ packet' = [id |-> id, length |-> length]
             /\ result' = NoResult
    <3>1. index = 0
      BY <2>1 DEF Bounds, StartPoint
    <3>2. /\ command \in Nat /\ response \in Nat /\ length \in Nat
          /\ command \in 0 .. CRB_DATA_BUFFER_SIZE
          /\ response \in 0 .. CRB_DATA_BUFFER_SIZE
          /\ length \in 0 .. CRB_DATA_BUFFER_SIZE /\ length <= command /\ 0 < length
      BY <2>4 DEF InBuffer, tpm_packet_length
    <3>3. /\ result' \in ResultType
          /\ call' \in [op : Op \cup {"none"},
                        locality : Locality \cup {NO_ACTIVE_LOCALITY}]
          /\ packet' \in [id : Id, length : 0 .. CRB_DATA_BUFFER_SIZE]
          /\ capacity' \in [command : 0 .. CRB_DATA_BUFFER_SIZE,
                            response : 0 .. CRB_DATA_BUFFER_SIZE]
      BY <2>4, <3>2 DEF ResultType, NoResult, Id, Op
    <3>4. LibraryTyped'
      BY <1>0, <2>1, <2>4, <3>3 DEF LibraryTyped, Points
    <3>5. Ops'
      BY <2>4 DEF Ops, ReadyWait
    <3>6. Bounds'
      BY <2>1, <2>4, <3>1, <3>2 DEF Bounds, StartPoint
    <3> QED BY <3>4, <3>5, <3>6
  <2> QED BY <2>2, <2>3, <2>4
<1>6. ASSUME Fail("Denied"), pc \in Waits \cup {"command", "response"}
      PROVE  LibraryTyped' /\ Ops' /\ Bounds'
  <2>1. call.op \in Op /\ call.locality \in Locality
    BY <1>6, <1>b DEF Ops, ReadyWait, StartPoint, Waits, Op
  <2> QED BY <1>6, <1>a, <2>1, ReturnTyped DEF Fail
<1>7. ASSUME Proceed, pc \in Waits
      PROVE  LibraryTyped' /\ Ops' /\ Bounds'
  <2>1. CASE /\ pc \in DOMAIN Following /\ pc' = Following[pc] /\ expired' = FALSE
             /\ index' = 0 /\ packet' = [packet EXCEPT !.length = 0]
             /\ UNCHANGED <<is_crb, idle_bypass, call, capacity, tpm, caller>>
    <3>1. \/ pc = "request_clear" /\ pc' = "control_status"
          \/ pc = "sts_expect" /\ pc' = "go"
          \/ pc = "started" /\ pc' = "response"
      BY <2>1 DEF Following
    <3>2. packet' \in [id : Id, length : 0 .. CRB_DATA_BUFFER_SIZE]
          /\ packet'.length = 0
      BY <1>0, <2>1
    <3>3. LibraryTyped'
      BY <1>0, <2>1, <3>1, <3>2 DEF LibraryTyped, caller, Waits, Points
    <3>4. Ops'
      BY <2>1, <3>1 DEF Ops, ReadyWait, StartPoint
    <3>5. Bounds'
      BY <2>1, <3>1, <3>2 DEF Bounds, StartPoint
    <3> QED BY <3>3, <3>4, <3>5
  <2>2. CASE Return("Ok", NoId, NoId, TRUE)
    <3>1. call.op \in Op /\ call.locality \in Locality
      BY <1>7, <1>b DEF Ops, ReadyWait, StartPoint, Waits, Op
    <3> QED BY <1>a, <2>2, <3>1, ReturnTyped
  <2> QED BY <1>7, <2>1, <2>2 DEF Proceed
<1>8. CASE wait_register_bits
  BY <1>6, <1>7, <1>8 DEF wait_register_bits
<1>9. CASE copy_command_data
  <2>1. CASE Fail("Denied")
    BY <1>6, <1>9, <2>1 DEF copy_command_data
  <2>2. ASSUME NEW n \in Burst(packet.length), index' = index + n,
               pc' = IF index' < packet.length THEN "command"
                     ELSE IF is_crb THEN "go" ELSE "sts_expect",
               expired' = FALSE,
               UNCHANGED <<is_crb, idle_bypass, call, packet, capacity, caller>>
        PROVE  LibraryTyped' /\ Ops' /\ Bounds'
    <3>1. pc = "command"
      BY <1>9 DEF copy_command_data
    <3>2. index < packet.length /\ packet.length <= CRB_DATA_BUFFER_SIZE
      BY <1>0, <3>1 DEF Bounds
    <3>3. n \in Nat /\ n <= packet.length - index
      BY <1>a, <2>2, <3>2 DEF Burst
    <3>4. index' \in 0 .. CRB_DATA_BUFFER_SIZE
      BY <1>a, <2>2, <3>2, <3>3
    <3>5. pc' \in {"command", "go", "sts_expect"}
      BY <2>2
    <3>6. LibraryTyped'
      BY <1>0, <2>2, <3>4, <3>5 DEF LibraryTyped, caller, Waits, Points
    <3>7. Ops'
      BY <2>2, <3>1, <3>5 DEF Ops, ReadyWait, StartPoint
    <3>8. pc' = "command" => index' < packet.length
      BY <2>2
    <3>9. Bounds'
      BY <2>2, <3>1, <3>5, <3>8 DEF Bounds, StartPoint
    <3> QED BY <3>6, <3>7, <3>9
  <2> QED BY <1>9, <2>1, <2>2 DEF copy_command_data
<1>10. CASE start_command
  <2>1. /\ pc = "go" /\ pc' = "started"
        /\ UNCHANGED <<is_crb, idle_bypass, call, expired, local, caller>>
    BY <1>10 DEF start_command
  <2>2. LibraryTyped' /\ Ops'
    BY <1>0, <2>1 DEF LibraryTyped, Ops, local, caller, Waits, ReadyWait, StartPoint
  <2>3. Bounds'
    BY <2>1 DEF Bounds, StartPoint, local
  <2> QED BY <2>2, <2>3
<1>11. CASE copy_response_data
  <2> DEFINE target == IF index < TPM_HEADER_SIZE THEN TPM_HEADER_SIZE
                                                  ELSE packet.length
  <2>1. pc = "response" /\ index < target
    BY <1>11 DEF copy_response_data
  <2>2. call.op = "start" /\ call.op \in Op /\ call.locality \in Locality
    BY <1>b, <2>1 DEF Ops, StartPoint, Op
  <2>3. CASE Fail("Denied")
    BY <1>6, <2>1, <2>3
  <2>4. CASE Return("InvalidParameters", packet.id, NoId, TRUE)
    BY <1>a, <2>2, <2>4, ReturnTyped
  <2>5. ASSUME NEW n \in Burst(target), NEW length \in header_lengths,
               index + n = TPM_HEADER_SIZE =>
                 tpm_packet_length(length, capacity.response),
               index' = index + n,
               packet' = IF index + n = TPM_HEADER_SIZE
                           THEN [packet EXCEPT !.length = length] ELSE packet,
               expired' = FALSE,
               UNCHANGED <<is_crb, idle_bypass, pc, call, capacity, caller>>
        PROVE  LibraryTyped' /\ Ops' /\ Bounds'
    <3>1. /\ InBuffer(capacity.response)
          /\ \/ index < TPM_HEADER_SIZE /\ packet.length = 0
             \/ /\ TPM_HEADER_SIZE <= index /\ index <= packet.length
                /\ packet.length <= capacity.response
      BY <2>1 DEF Bounds, StartPoint
    <3>2. n \in Nat /\ 0 < n /\ n <= target - index
      BY <1>a, <2>1, <2>5 DEF Burst
    <3>3. CASE index < TPM_HEADER_SIZE /\ index + n # TPM_HEADER_SIZE
      <4>1. packet' = packet /\ packet.length = 0 /\ index' < TPM_HEADER_SIZE
            /\ index' \in 0 .. CRB_DATA_BUFFER_SIZE
        BY <1>a, <2>5, <3>1, <3>2, <3>3
      <4>2. LibraryTyped' /\ Ops'
        BY <1>0, <2>5, <4>1 DEF LibraryTyped, Ops, caller
      <4> QED BY <2>1, <2>5, <4>1, <4>2 DEF Bounds, StartPoint
    <3>4. CASE index < TPM_HEADER_SIZE /\ index + n = TPM_HEADER_SIZE
      <4>a. length \in TPM_HEADER_SIZE .. capacity.response
        BY <2>5, <3>4 DEF tpm_packet_length
      <4>b. capacity.response <= CRB_DATA_BUFFER_SIZE
        BY <1>0
      <4>1. length \in TPM_HEADER_SIZE .. capacity.response
            /\ length \in 0 .. CRB_DATA_BUFFER_SIZE
        BY <1>a, <4>a, <4>b
      <4>2. /\ packet'.length = length /\ index' = TPM_HEADER_SIZE
            /\ packet' \in [id : Id, length : 0 .. CRB_DATA_BUFFER_SIZE]
        BY <1>0, <2>5, <3>4, <4>1
      <4>c. /\ index' \in 0 .. CRB_DATA_BUFFER_SIZE
            /\ UNCHANGED <<is_crb, idle_bypass, pc, call, capacity, caller>>
            /\ expired' = FALSE
        BY <2>5, <4>2
      <4>3. LibraryTyped' /\ Ops'
        BY <1>0, <4>2, <4>c DEF LibraryTyped, Ops, caller
      <4> QED BY <1>a, <2>1, <2>5, <3>1, <4>1, <4>2, <4>3 DEF Bounds, StartPoint
    <3>5. CASE ~(index < TPM_HEADER_SIZE)
      <4>1. /\ packet' = packet /\ TPM_HEADER_SIZE <= index' /\ index' <= packet.length
            /\ packet.length <= capacity.response
            /\ index' \in 0 .. CRB_DATA_BUFFER_SIZE
        BY <1>0, <1>a, <2>5, <3>1, <3>2, <3>5
      <4>2. LibraryTyped' /\ Ops'
        BY <1>0, <2>5, <4>1 DEF LibraryTyped, Ops, caller
      <4> QED BY <2>1, <2>5, <4>1, <4>2 DEF Bounds, StartPoint
    <3> QED BY <3>3, <3>4, <3>5
  <2> QED BY <1>11, <2>3, <2>4, <2>5 DEF copy_response_data
<1>12. CASE start_return
  <2>1. pc = "response"
    BY <1>12 DEF start_return
  <2>2. call.op \in Op /\ call.locality \in Locality
    BY <1>b, <2>1 DEF Ops, StartPoint, Op
  <2>3. PICK received : Return("Ok", packet.id, received, TRUE) /\ received \in {tpm.id, NoId}
    BY <1>12 DEF start_return
  <2>4. received \in Id
    BY <1>a, <2>3 DEF Tpm
  <2> QED BY <1>a, <2>2, <2>3, <2>4, ReturnTyped
<1>13. CASE timeout_expired
  BY <1>1, <1>13 DEF timeout_expired
<1>14. CASE Yield_refused
  <2>1. /\ pc # "idle" /\ pc' = "panicked"
        /\ UNCHANGED <<is_crb, idle_bypass, call, expired, local, caller>>
    BY <1>14 DEF Yield_refused, Waits
  <2>2. LibraryTyped' /\ Ops'
    BY <1>0, <2>1 DEF LibraryTyped, Ops, local, caller, Points, ReadyWait, StartPoint
  <2>3. Bounds'
    BY <2>1 DEF Bounds, StartPoint
  <2> QED BY <2>2, <2>3
<1>15. CASE wfe \/ UNCHANGED vars
  BY <1>0, <1>1, <1>15 DEF wfe, vars
<1>16. ASSUME NEW t, Hardware(t) PROVE LibraryTyped' /\ Ops' /\ Bounds'
  BY <1>0, <1>1, <1>16 DEF Hardware
<1> QED
  BY <1>2, <1>3, <1>4, <1>5, <1>8, <1>9, <1>10, <1>11, <1>12, <1>13, <1>14,
     <1>15, <1>16
  DEF Next, SstStep, TpmGrants, TpmReleases, TpmTakesRequest, TpmCompletes

\* What is asked of the TPM, or done to it, leaves it a TPM.
LEMMA TpmTyped ==
  ASSUME LibraryTyped, tpm \in Tpm, Ops, Bounds, [Next]_vars
  PROVE  tpm' \in Tpm
<1> USE SizeAssumption
<1>0. /\ tpm.locality \in Locality \cup {NO_ACTIVE_LOCALITY}
      /\ tpm.control \in SUBSET (Locality \X {"request", "relinquish"})
      /\ tpm.request \in SUBSET {"goIdle", "cmdReady"}
      /\ tpm.state \in {"Idle", "Ready", "Reception", "Executing", "Completion"}
      /\ tpm.id \in Id /\ tpm.length \in Nat /\ tpm.moved \in Nat
  BY DEF Tpm
<1>1. CASE UNCHANGED tpm
  BY <1>1
<1>2. ASSUME NEW l \in Locality, NEW bit \in {"goIdle", "cmdReady"}
      PROVE  AskRequest(l, bit) \in Tpm
  BY <1>0 DEF AskRequest, Tpm
<1>3. ASSUME NEW l \in Locality, NEW bit \in {"request", "relinquish"}
      PROVE  AskControl(l, bit) \in Tpm
  <2>1. tpm.control \cup {<<l, bit>>} \in SUBSET (Locality \X {"request", "relinquish"})
    BY <1>0, <1>3
  <2> QED BY <2>1 DEF AskControl, Tpm
<1>4. ASSUME NEW l \in Locality, go_idle(l) \/ cmd_ready(l) PROVE tpm' \in Tpm
  BY <1>2, <1>4 DEF go_idle, cmd_ready, Begin
<1>5. ASSUME NEW l \in Locality, locality_request(l) \/ locality_relinquish(l)
      PROVE  tpm' \in Tpm
  BY <1>3, <1>5 DEF locality_request, locality_relinquish, Begin
<1>6. ASSUME NEW l, start(l) PROVE tpm' \in Tpm
  BY <1>6 DEF start
<1>7. CASE wait_register_bits
  BY <1>7 DEF wait_register_bits, Proceed, Fail
<1>8. CASE copy_command_data
  <2>1. ASSUME NEW n \in Nat PROVE Load(packet.id, packet.length, n) \in Tpm
    <3>1. packet.id \in Id /\ packet.length \in Nat
      BY DEF LibraryTyped
    <3>2. (IF tpm.moved + n < tpm.length THEN tpm.moved + n ELSE tpm.length) \in Nat
      BY <1>0
    <3>3. /\ [tpm EXCEPT !.state = "Reception", !.id = packet.id,
                         !.length = packet.length, !.moved = n] \in Tpm
          /\ [tpm EXCEPT !.moved = IF @ + n < tpm.length THEN @ + n
                                                         ELSE tpm.length] \in Tpm
      BY <3>1, <3>2 DEF Tpm
    <3> QED BY <3>3 DEF Load
  <2>2. Burst(packet.length) \subseteq Nat
    <3>1. /\ pc = "command" /\ index \in Nat /\ packet.length \in Nat
          /\ index < packet.length
      BY <1>8 DEF copy_command_data, Bounds, LibraryTyped
    <3> QED BY <3>1 DEF Burst
  <2> QED BY <1>8, <2>1, <2>2 DEF copy_command_data, Fail
<1>9. CASE start_command
  BY <1>9 DEF start_command, Go, Tpm
<1>10. CASE copy_response_data
  <2> DEFINE target == IF index < TPM_HEADER_SIZE THEN TPM_HEADER_SIZE
                                                  ELSE packet.length
  <2>1. index < target /\ index \in Nat /\ target \in Nat
    BY <1>10 DEF copy_response_data, LibraryTyped
  <2>2. Burst(target) \subseteq Nat
    BY <2>1 DEF Burst
  <2>3. \A n \in Nat : [tpm EXCEPT !.moved = @ + n] \in Tpm
    BY <1>0 DEF Tpm
  <2> QED BY <1>10, <2>2, <2>3 DEF copy_response_data, Fail
<1>11. CASE start_return \/ timeout_expired \/ Yield_refused \/ wfe \/ UNCHANGED vars
  BY <1>1, <1>11 DEF start_return, timeout_expired, Yield_refused, wfe, vars
<1>12. ASSUME NEW l \in Locality, TpmGrants(l) PROVE tpm' \in Tpm
  BY <1>12, <1>0 DEF TpmGrants, Hardware, Tpm
<1>13. ASSUME NEW l \in Locality, TpmReleases(l) PROVE tpm' \in Tpm
  BY <1>13, <1>0 DEF TpmReleases, Hardware, Tpm
<1>14. ASSUME NEW bit \in {"goIdle", "cmdReady"}, TpmTakesRequest(bit)
       PROVE  tpm' \in Tpm
  BY <1>14, <1>0 DEF TpmTakesRequest, Hardware, Tpm
<1>15. CASE TpmCompletes
  <2>1. PICK n \in Nat :
          tpm' = [tpm EXCEPT !.state = "Completion", !.length = n, !.moved = 0]
    BY <1>15 DEF TpmCompletes, Hardware
  <2> QED BY <2>1 DEF Tpm
<1> QED
  BY <1>4, <1>5, <1>6, <1>7, <1>8, <1>9, <1>10, <1>11, <1>12, <1>13, <1>14, <1>15
  DEF Next, SstStep

LEMMA TypeParts == TypeOK <=> LibraryTyped /\ tpm \in Tpm
BY DEF TypeOK, LibraryTyped, ViewType, ResultType

LEMMA TypeInit ==
  ASSUME Init
  PROVE  LibraryTyped /\ tpm \in Tpm /\ Ops /\ Bounds
<1> USE SizeAssumption
<1>1. tpm \in Tpm
  BY DEF Init, Tpm, Id
<1>2. /\ packet \in [id : Id, length : 0 .. CRB_DATA_BUFFER_SIZE]
      /\ capacity \in [command : 0 .. CRB_DATA_BUFFER_SIZE,
                       response : 0 .. CRB_DATA_BUFFER_SIZE]
      /\ call \in [op : Op \cup {"none"}, locality : Locality \cup {NO_ACTIVE_LOCALITY}]
      /\ view \in ViewType /\ result \in ResultType
  BY DEF Init, NoPacket, NoCapacity, NoCall, NoResult, ViewType, ResultType, Id,
         TpmState
<1>3. LibraryTyped
  <2>1. /\ is_crb \in BOOLEAN /\ idle_bypass \in BOOLEAN /\ pc \in Waits \cup Points
        /\ index \in 0 .. CRB_DATA_BUFFER_SIZE
    BY DEF Init, Points
  <2>2. expired \in BOOLEAN /\ failed \in BOOLEAN
    BY Zenon DEF Init
  <2> QED BY <1>2, <2>1, <2>2, Zenon DEF LibraryTyped
<1>4. Ops /\ Bounds
  BY DEF Init, Ops, Bounds, ReadyWait, StartPoint
<1> QED BY <1>1, <1>3, <1>4

LEMMA BoundsCorrect == Spec => [](LibraryTyped /\ tpm \in Tpm /\ Ops /\ Bounds)
<1>1. LibraryTyped /\ tpm \in Tpm /\ Ops /\ Bounds /\ [Next]_vars
        => (LibraryTyped /\ tpm \in Tpm /\ Ops /\ Bounds)'
  BY LibraryStep, TpmTyped
<1> QED BY <1>1, TypeInit, PTL DEF Spec

\* Types hold; in particular every copy stays inside tpm_command_buffer.
THEOREM TypeCorrect == Spec => []TypeOK
BY BoundsCorrect, TypeParts, PTL

\* What start copies is within the capacities that the host had declared when
\* start read them, whatever the headers claim.
THEOREM CopiesHold == Spec => []CopiesBounded
<1>1. ASSUME LibraryTyped, Bounds PROVE CopiesBounded
  <2>1. /\ index \in Nat /\ packet.length \in Nat /\ capacity.response \in Nat
        /\ TPM_HEADER_SIZE \in Nat
    BY <1>1, SizeAssumption DEF LibraryTyped
  <2>2. pc = "response" =>
          /\ packet.length <= capacity.response
          /\ index > TPM_HEADER_SIZE => index <= packet.length
    BY <1>1, <2>1 DEF Bounds
  <2>3. pc = "command" => index <= packet.length /\ packet.length <= capacity.command
    BY <1>1, <2>1 DEF Bounds
  <2> QED BY <2>2, <2>3 DEF CopiesBounded
<1> QED BY <1>1, BoundsCorrect, PTL

-----------------------------------------------------------------------------
(* Sessions.                                                               *)

\* The part of Session that a point calls for.
LEMMA SessionCases ==
  /\ pc' = "idle" /\ Rest' => Session'
  /\ pc' \in ReadyWait /\ Readying' => Session'
  /\ pc' = "granted" /\ Granting' => Session'
  /\ pc' = "released" /\ Releasing' => Session'
  /\ pc' \in StartPoint /\ Starting' => Session'
  /\ pc' = "panicked" /\ Confined' => Session'
BY DEF Session, ReadyWait, StartPoint

\* What the invariant says when the library keeps to the normal flow.
Normal == LibraryTyped /\ tpm \in Tpm /\ Ops /\ Bounds /\ Session

\* The fields of the TPM.
LEMMA TpmFields ==
  ASSUME tpm \in Tpm
  PROVE  /\ \A s : /\ [tpm EXCEPT !.request = s].request = s
                   /\ [tpm EXCEPT !.request = s].control = tpm.control
                   /\ [tpm EXCEPT !.request = s].locality = tpm.locality
                   /\ [tpm EXCEPT !.request = s].state = tpm.state
                   /\ [tpm EXCEPT !.control = s].control = s
                   /\ [tpm EXCEPT !.control = s].request = tpm.request
                   /\ [tpm EXCEPT !.control = s].locality = tpm.locality
                   /\ [tpm EXCEPT !.control = s].state = tpm.state
                   /\ [tpm EXCEPT !.control = s].moved = tpm.moved
                   /\ [tpm EXCEPT !.control = s].length = tpm.length
         /\ tpm.length \in Nat /\ tpm.moved \in Nat
BY DEF Tpm

LEMMA BeginReady ==
  ASSUME Normal, NEW l \in Locality, go_idle(l) \/ cmd_ready(l)
  PROVE  Session'
<1>0. /\ tpm \in Tpm /\ Session /\ is_crb \in BOOLEAN
  BY DEF Normal, LibraryTyped
<1>1. PICK op \in {"go_idle", "cmd_ready"} :
        /\ view.locality = l
        /\ Begin(op, l, IF is_crb THEN "request_clear" ELSE "sts_ready",
                 AskRequest(l, IF is_crb /\ op = "go_idle" THEN "goIdle"
                                                           ELSE "cmdReady"))
  BY <1>0 DEF go_idle, cmd_ready
<1> DEFINE bit == IF is_crb /\ op = "go_idle" THEN "goIdle" ELSE "cmdReady"
<1>2. /\ pc = "idle" /\ call'.op = op /\ call'.locality = l
      /\ pc' = (IF is_crb THEN "request_clear" ELSE "sts_ready")
      /\ tpm' = AskRequest(l, bit)
      /\ UNCHANGED <<is_crb, view>>
  BY <1>1 DEF Begin
<1>3. /\ tpm.control = {} /\ tpm.request = {} /\ tpm.locality = l /\ StateAgrees
      /\ view \in ViewType
  BY <1>0, <1>1, <1>2 DEF Session, Rest, Quiet, Normal, LibraryTyped
<1>4. tpm.state # "Executing"
  BY <1>3 DEF StateAgrees, ViewType, TpmState
<1>5. Bit' = bit
  BY <1>2 DEF Bit
<1>6. CASE ~is_crb /\ tpm.state = "Ready"
  <2>1. tpm' = tpm /\ pc' = "sts_ready" /\ bit = "cmdReady"
    BY <1>2, <1>6 DEF AskRequest
  <2>2. Readying'
    BY <1>1, <1>2, <1>3, <1>5, <1>6, <2>1 DEF Readying, Mine
  <2> QED BY <2>1, <2>2, SessionCases DEF ReadyWait
<1>7. CASE ~(~is_crb /\ tpm.state = "Ready")
  <2>1. tpm' = [tpm EXCEPT !.request = @ \cup {bit}]
    BY <1>2, <1>3, <1>7 DEF AskRequest
  <2>2. /\ tpm'.request = {bit} /\ tpm'.control = {} /\ tpm'.locality = l
        /\ tpm'.state = tpm.state
    BY <1>0, <1>3, <2>1, TpmFields
  <2>3. Readying'
    BY <1>1, <1>2, <1>4, <1>5, <1>7, <2>2 DEF Readying, Mine
  <2>4. pc' \in ReadyWait
    BY <1>2 DEF ReadyWait
  <2> QED BY <2>3, <2>4, SessionCases
<1> QED BY <1>6, <1>7

LEMMA BeginLocality ==
  ASSUME Normal, NEW l \in Locality, locality_request(l) \/ locality_relinquish(l)
  PROVE  Session'
<1>0. /\ tpm \in Tpm /\ Session /\ NO_ACTIVE_LOCALITY # l
  BY LocalityAssumption DEF Normal
<1>1. PICK bit \in {"request", "relinquish"} :
        /\ bit = "request" => view.locality \in {NO_ACTIVE_LOCALITY, l}
        /\ bit = "relinquish" => view.locality = l
        /\ Begin(IF bit = "request" THEN "locality_request" ELSE "locality_relinquish",
                 l, IF bit = "request" THEN "granted" ELSE "released",
                 AskControl(l, bit))
  BY DEF locality_request, locality_relinquish
<1>2. /\ pc = "idle" /\ call'.locality = l
      /\ pc' = (IF bit = "request" THEN "granted" ELSE "released")
      /\ tpm' = AskControl(l, bit)
      /\ UNCHANGED <<is_crb, view>>
  BY <1>1 DEF Begin
<1>3. /\ tpm.control = {} /\ tpm.request = {} /\ tpm.locality = view.locality
      /\ StateAgrees
  BY <1>0, <1>2 DEF Session, Rest, Quiet
<1>4. CASE bit = "request" /\ tpm.locality = l
  <2>1. tpm' = tpm
    BY <1>2, <1>4 DEF AskControl
  <2>2. StateAgrees'
    BY <1>2, <1>3, <2>1 DEF StateAgrees, Spent
  <2>3. Granting'
    BY <1>2, <1>3, <1>4, <2>1, <2>2 DEF Granting
  <2> QED BY <1>2, <1>4, <2>3, SessionCases
<1>5. CASE ~(bit = "request" /\ tpm.locality = l)
  <2>1. tpm' = [tpm EXCEPT !.control = @ \cup {<<l, bit>>}]
    BY <1>1, <1>2, <1>3, <1>5 DEF AskControl
  <2>2. /\ tpm'.control = {<<l, bit>>} /\ tpm'.request = {}
        /\ tpm'.locality = tpm.locality /\ tpm'.state = tpm.state
        /\ tpm'.moved = tpm.moved /\ tpm'.length = tpm.length
    BY <1>0, <1>3, <2>1, TpmFields
  <2>3. StateAgrees'
    BY <1>2, <1>3, <2>2 DEF StateAgrees, Spent
  <2>4. CASE bit = "request"
    <3>1. Granting'
      BY <1>1, <1>2, <1>3, <1>5, <2>2, <2>3, <2>4 DEF Granting
    <3> QED BY <1>2, <2>4, <3>1, SessionCases
  <2>5. CASE bit = "relinquish"
    <3>1. Releasing'
      BY <1>1, <1>2, <1>3, <2>2, <2>3, <2>5 DEF Releasing
    <3> QED BY <1>2, <2>5, <3>1, SessionCases
  <2> QED BY <2>4, <2>5
<1> QED BY <1>4, <1>5

LEMMA BeginStart ==
  ASSUME Normal, NEW l \in Locality, start(l)
  PROVE  Session'
<1>1. /\ pc = "idle" /\ view.locality = l /\ view.state \in {"Ready", "Complete"}
      /\ UNCHANGED <<is_crb, tpm, view>>
      /\ \/ pc' = "command" /\ call'.locality = l
         \/ UNCHANGED <<pc, call>>
  BY DEF start
<1>2. Rest
  BY <1>1 DEF Normal, Session
<1>3. CASE UNCHANGED <<pc, call>>
  <2>1. Rest'
    BY <1>1, <1>2 DEF Rest, Quiet, StateAgrees, Spent
  <2> QED BY <1>1, <1>3, <2>1, SessionCases
<1>4. CASE pc' = "command" /\ call'.locality = l
  <2>1. tpm.state = "Ready" \/ Spent \/ (is_crb /\ tpm.state = "Completion")
    BY <1>1, <1>2 DEF Rest, StateAgrees
  <2>2. tpm'.state = "Ready" \/ Spent' \/ (is_crb' /\ tpm'.state = "Completion")
    BY <1>1, <2>1 DEF Spent
  <2>3. Quiet' /\ Mine'
    BY <1>1, <1>2, <1>4 DEF Rest, Quiet, Mine
  <2>4. Starting'
    BY <1>4, <2>2, <2>3 DEF Starting
  <2> QED BY <1>4, <2>4, SessionCases DEF StartPoint
<1> QED BY <1>1, <1>3, <1>4

\* A loop that ends well.
LEMMA LoopEnds ==
  ASSUME Normal, pc \in Waits, bits_ok(pc), Proceed
  PROVE  Session'
<1>0. /\ tpm \in Tpm /\ Session /\ Ops /\ view \in ViewType /\ packet.id \in Id
      /\ call.locality \in Locality /\ NO_ACTIVE_LOCALITY # call.locality
      /\ packet \in [id : Id, length : 0 .. CRB_DATA_BUFFER_SIZE]
  BY LocalityAssumption DEF Normal, LibraryTyped, Ops, Waits
<1>a. UNCHANGED <<is_crb, tpm>>
  BY DEF Proceed, Return
<1>1. CASE pc = "request_clear"
  <2>1. pc' = "control_status" /\ UNCHANGED <<call, view>>
    BY <1>1 DEF Proceed, Following, caller
  <2>2. Readying /\ request_clear
    BY <1>0, <1>1 DEF Session, ReadyWait, bits_ok
  <2>3. tpm.request = {}
    BY <1>1, <2>2 DEF Readying, request_clear, Bit
  <2>4. Readying'
    <3>1. Bit' = Bit /\ Mine' /\ is_crb'
      BY <1>1, <1>a, <2>1, <2>2 DEF Readying, Mine, Bit
    <3> QED BY <1>1, <1>a, <2>1, <2>2, <2>3, <3>1 DEF Readying
  <2> QED BY <2>1, <2>4, SessionCases DEF ReadyWait
<1>2. CASE pc \in {"sts_expect", "started"}
  <2>1. /\ pc' = (IF pc = "sts_expect" THEN "go" ELSE "response")
        /\ index' = 0 /\ packet'.id = packet.id
        /\ UNCHANGED <<call, view>>
    <3>1. pc \in DOMAIN Following
      BY <1>2 DEF Following
    <3>2. /\ pc' = Following[pc] /\ index' = 0 /\ packet' = [packet EXCEPT !.length = 0]
          /\ UNCHANGED <<call, view>>
      BY <3>1 DEF Proceed, caller
    <3>3. packet'.id = packet.id
      BY <1>0, <3>2
    <3> QED BY <1>2, <3>2, <3>3 DEF Following
  <2>2. Starting
    BY <1>0, <1>2 DEF Session, StartPoint
  <2>3. Quiet' /\ Mine'
    BY <1>a, <2>1, <2>2 DEF Starting, Quiet, Mine
  <2>4. CASE pc = "sts_expect"
    <3>1. Spent' \/ (tpm'.state = "Reception" /\ Loaded')
      BY <1>a, <2>1, <2>2, <2>4 DEF Starting, Spent, Loaded
    <3>2. Starting'
      BY <2>1, <2>3, <2>4, <3>1 DEF Starting
    <3> QED BY <2>1, <2>4, <3>2, SessionCases DEF StartPoint
  <2>5. CASE pc = "started"
    <3>1. started
      BY <2>5 DEF bits_ok
    <3>2. tpm.length \in Nat /\ tpm.moved \in Nat
      BY <1>0 DEF Tpm
    <3>3. tpm.state = "Completion" /\ Loaded /\ (is_crb \/ tpm.moved = 0)
      BY <2>2, <2>5, <3>1, <3>2 DEF Starting, started, Spent
    <3>4. tpm'.state = "Completion" /\ Loaded' /\ (is_crb' \/ tpm'.moved = index')
      BY <1>a, <2>1, <3>3 DEF Loaded
    <3>5. ~(index' >= TPM_HEADER_SIZE)
      BY <2>1, SizeAssumption
    <3>6. Starting'
      BY <2>1, <2>3, <2>5, <3>4, <3>5 DEF Starting
    <3> QED BY <2>1, <2>5, <3>6, SessionCases DEF StartPoint
  <2> QED BY <1>2, <2>4, <2>5
<1>3. CASE pc \notin {"request_clear", "sts_expect", "started"}
  <2>1. /\ pc' = "idle" /\ view' = view_after(call.op, call.locality)
        /\ pc \in {"control_status", "sts_ready", "granted", "released"}
    BY <1>3 DEF Proceed, Following, Return, Waits
  <2>2. CASE pc \in {"control_status", "sts_ready"}
    <3>1. Readying /\ call.op \in {"go_idle", "cmd_ready"}
      BY <1>0, <2>2 DEF Session, Ops, ReadyWait
    <3>2. tpm.request = {}
      BY <2>2, <3>1 DEF Readying, bits_ok
    <3>3. /\ tpm.control = {} /\ tpm.locality = view.locality
          /\ tpm.state = IF Bit = "goIdle" THEN "Idle" ELSE "Ready"
      BY <3>1, <3>2 DEF Readying, Mine
    <3>4. /\ view'.state = (IF call.op = "go_idle" THEN "Idle" ELSE "Ready")
          /\ view'.locality = view.locality
      BY <1>0, <2>1, <3>1, ViewAfter DEF ViewType
    <3>5. StateAgrees'
      BY <1>a, <3>1, <3>3, <3>4 DEF StateAgrees, Bit
    <3>6. Rest'
      BY <1>a, <3>2, <3>3, <3>4, <3>5 DEF Rest, Quiet
    <3> QED BY <2>1, <3>6, SessionCases
  <2>3. CASE pc = "granted"
    <3>1. Granting /\ tpm.locality = call.locality
      BY <1>0, <2>3 DEF Session, bits_ok
    <3>2. Quiet /\ StateAgrees
      BY <1>0, <3>1 DEF Granting, Quiet
    <3>3. view'.state = view.state /\ view'.locality = call.locality
      BY <1>0, <2>1, <2>3, ViewAfter DEF ViewType, Ops
    <3>4. Rest'
      BY <1>a, <3>1, <3>2, <3>3 DEF Rest, Quiet, StateAgrees, Spent
    <3> QED BY <2>1, <3>4, SessionCases
  <2>4. CASE pc = "released"
    <3>1. Releasing /\ tpm.locality # call.locality
      BY <1>0, <2>4 DEF Session, bits_ok, released
    <3>2. Quiet /\ StateAgrees /\ tpm.locality = NO_ACTIVE_LOCALITY
      BY <3>1 DEF Releasing, Quiet
    <3>3. view'.state = view.state /\ view'.locality = NO_ACTIVE_LOCALITY
      BY <1>0, <2>1, <2>4, ViewAfter DEF ViewType, Ops
    <3>4. Rest'
      BY <1>a, <3>2, <3>3 DEF Rest, Quiet, StateAgrees, Spent
    <3> QED BY <2>1, <3>4, SessionCases
  <2> QED BY <2>1, <2>2, <2>3, <2>4
<1> QED BY <1>1, <1>2, <1>3

LEMMA CommandCopied ==
  ASSUME Normal, pc = "command", NEW n \in Nat,
         tpm' = Load(packet.id, packet.length, n),
         pc' \in {"command", "go", "sts_expect"},
         UNCHANGED <<is_crb, call, packet, view>>
  PROVE  Session'
<1>0. tpm \in Tpm /\ Starting
  BY DEF Normal, Session, StartPoint
<1>1. Quiet /\ Mine /\ Owned
  BY <1>0 DEF Starting, Mine, Owned
<1>2. CASE Spent
  <2>1. tpm' = tpm
    BY <1>2 DEF Spent, Load
  <2>2. Quiet' /\ Mine' /\ Spent'
    BY <1>1, <1>2, <2>1 DEF Quiet, Mine, Spent
  <2>3. Starting'
    BY <2>2 DEF Starting
  <2> QED BY <2>3, SessionCases DEF StartPoint
<1>3. CASE ~Spent
  <2>1. /\ tpm'.state = "Reception" /\ tpm'.id = packet.id
        /\ tpm'.control = tpm.control /\ tpm'.request = tpm.request
        /\ tpm'.locality = tpm.locality
    <3>1. CASE tpm.state = "Ready" \/ (is_crb /\ tpm.state \in {"Completion", "Reception"})
      <4>1. tpm' = [tpm EXCEPT !.state = "Reception", !.id = packet.id,
                               !.length = packet.length, !.moved = n]
        BY <1>1, <3>1 DEF Load
      <4> QED BY <1>0, <4>1 DEF Tpm
    <3>2. CASE ~is_crb /\ tpm.state = "Reception" /\ Loaded
      <4>1. tpm' = [tpm EXCEPT !.moved = IF @ + n < tpm.length THEN @ + n
                                                               ELSE tpm.length]
        BY <1>1, <3>2 DEF Load
      <4> QED BY <1>0, <3>2, <4>1 DEF Tpm, Loaded
    <3> QED BY <1>0, <1>3, <3>1, <3>2 DEF Starting
  <2>2. Quiet' /\ Mine' /\ Loaded'
    BY <1>1, <2>1 DEF Quiet, Mine, Loaded
  <2>3. Starting'
    BY <2>1, <2>2 DEF Starting
  <2> QED BY <2>3, SessionCases DEF StartPoint
<1> QED BY <1>2, <1>3

LEMMA CommandStarted ==
  ASSUME Normal, start_command
  PROVE  Session'
<1>0. tpm \in Tpm /\ Starting
  BY DEF Normal, Session, StartPoint, start_command
<1>1. /\ pc = "go" /\ pc' = "started" /\ tpm' = Go
      /\ UNCHANGED <<is_crb, call, packet, view>>
  BY DEF start_command, local, caller
<1>2. Quiet /\ Mine /\ Owned /\ (Spent \/ (tpm.state = "Reception" /\ Loaded))
  BY <1>0, <1>1 DEF Starting, Mine, Owned
<1>3. CASE Spent
  <2>1. tpm' = tpm
    BY <1>1, <1>3 DEF Spent, Go
  <2>2. Quiet' /\ Mine' /\ Spent'
    BY <1>1, <1>2, <1>3, <2>1 DEF Quiet, Mine, Spent
  <2>3. Starting'
    BY <1>1, <2>2 DEF Starting
  <2> QED BY <1>1, <2>3, SessionCases DEF StartPoint
<1>4. CASE tpm.state = "Reception" /\ Loaded
  <2>1. tpm' = [tpm EXCEPT !.state = "Executing"]
    BY <1>1, <1>2, <1>4 DEF Go
  <2>2. /\ tpm'.state = "Executing" /\ tpm'.id = tpm.id
        /\ tpm'.control = tpm.control /\ tpm'.request = tpm.request
        /\ tpm'.locality = tpm.locality
    BY <1>0, <2>1 DEF Tpm
  <2>3. Quiet' /\ Mine' /\ Loaded'
    BY <1>1, <1>2, <1>4, <2>2 DEF Quiet, Mine, Loaded
  <2>4. Starting'
    BY <1>1, <2>2, <2>3 DEF Starting
  <2> QED BY <1>1, <2>4, SessionCases DEF StartPoint
<1> QED BY <1>2, <1>3, <1>4

LEMMA ResponseCopied ==
  ASSUME Normal, pc = "response", NEW n \in Nat, NEW length \in header_lengths,
         index < TPM_HEADER_SIZE => index + n <= TPM_HEADER_SIZE,
         index' = index + n,
         packet' = IF index + n = TPM_HEADER_SIZE
                     THEN [packet EXCEPT !.length = length] ELSE packet,
         tpm' = IF is_crb THEN tpm ELSE [tpm EXCEPT !.moved = @ + n],
         UNCHANGED <<is_crb, pc, call, view>>
  PROVE  Session'
<1>0. /\ tpm \in Tpm /\ Starting /\ index \in Nat /\ TPM_HEADER_SIZE \in Nat
      /\ packet \in [id : Id, length : 0 .. CRB_DATA_BUFFER_SIZE]
  BY SizeAssumption DEF Normal, Session, StartPoint, LibraryTyped
<1>1. /\ Quiet /\ Mine /\ tpm.state = "Completion" /\ Loaded
      /\ is_crb \/ tpm.moved = index
      /\ index >= TPM_HEADER_SIZE => packet.length = tpm.length
  BY <1>0 DEF Starting
<1>2. /\ tpm'.state = tpm.state /\ tpm'.id = tpm.id /\ tpm'.length = tpm.length
      /\ tpm'.control = tpm.control /\ tpm'.request = tpm.request
      /\ tpm'.locality = tpm.locality /\ (is_crb \/ tpm'.moved = tpm.moved + n)
  BY <1>0 DEF Tpm
<1>3. length = tpm.length
  BY <1>1 DEF header_lengths, Aligned
<1>4. /\ packet'.id = packet.id
      /\ index' >= TPM_HEADER_SIZE => packet'.length = tpm'.length
  <2>1. CASE index + n = TPM_HEADER_SIZE
    BY <1>0, <1>2, <1>3, <2>1
  <2>2. CASE index + n # TPM_HEADER_SIZE
    BY <1>0, <1>1, <1>2, <2>2
  <2> QED BY <2>1, <2>2
<1>5. Quiet' /\ Mine' /\ Loaded'
  BY <1>1, <1>2, <1>4 DEF Quiet, Mine, Loaded
<1>6. is_crb' \/ tpm'.moved = index'
  BY <1>1, <1>2
<1>7. Starting'
  BY <1>1, <1>2, <1>4, <1>5, <1>6 DEF Starting
<1> QED BY <1>7, SessionCases DEF StartPoint

\* start returns with the response to its own command.
LEMMA StartReturns ==
  ASSUME Normal, start_return
  PROVE  Session' /\ result'.received = result'.sent
<1>0. /\ tpm \in Tpm /\ Starting /\ index \in Nat /\ view \in ViewType
      /\ call.locality \in Locality /\ call.op = "start"
      /\ index = packet.length /\ index >= TPM_HEADER_SIZE /\ pc = "response"
  BY DEF Normal, Session, StartPoint, LibraryTyped, Ops, start_return
<1>1. /\ Quiet /\ Mine /\ tpm.state = "Completion" /\ Loaded
      /\ is_crb \/ tpm.moved = index
      /\ packet.length = tpm.length
  BY <1>0 DEF Starting
<1>2. Return("Ok", packet.id, tpm.id, TRUE) /\ UNCHANGED tpm
  BY <1>1 DEF start_return, Aligned
<1>3. /\ pc' = "idle" /\ UNCHANGED is_crb
      /\ view' = view_after("start", call.locality)
      /\ result'.sent = packet.id /\ result'.received = tpm.id
  BY <1>0, <1>2 DEF Return
<1>4. view'.state = "Complete" /\ view'.locality = view.locality
  BY <1>0, <1>3, ViewAfter DEF ViewType
<1>5. StateAgrees'
  <2>1. is_crb \/ Spent
    BY <1>0, <1>1 DEF Spent
  <2>2. is_crb' \/ Spent'
    BY <1>2, <1>3, <2>1 DEF Spent
  <2> QED BY <1>1, <1>2, <1>4, <2>2 DEF StateAgrees
<1>6. Rest'
  BY <1>1, <1>2, <1>4, <1>5 DEF Rest, Quiet, Mine
<1> QED BY <1>1, <1>3, <1>6, SessionCases DEF Loaded

LEMMA Panics ==
  ASSUME Normal, Yield_refused
  PROVE  Session'
<1>0. tpm \in Tpm /\ Session /\ Ops
  BY DEF Normal
<1>1. /\ pc' = "panicked" /\ pc \in Waits \cup {"command", "response"}
      /\ UNCHANGED <<call, tpm>>
  BY DEF Yield_refused
<1>2. pc \in ReadyWait \/ pc = "granted" \/ pc = "released" \/ pc \in StartPoint
  BY <1>1 DEF Waits, ReadyWait, StartPoint
<1>a. StateAgrees /\ view \in ViewType => tpm.state # "Executing"
  BY DEF StateAgrees, ViewType, TpmState
<1>b. view \in ViewType
  BY DEF Normal, LibraryTyped
<1>3. Confined
  <2>1. pc \in ReadyWait \cup StartPoint => Confined
    BY <1>0 DEF Session, Readying, Starting, Quiet, Mine, Confined, Ops
  <2>2. pc = "granted" => Confined
    BY <1>0, <1>a, <1>b DEF Session, Granting, Confined
  <2>3. pc = "released" => Confined
    BY <1>0, <1>a, <1>b DEF Session, Releasing, Confined
  <2> QED BY <1>2, <2>1, <2>2, <2>3
<1>4. Confined'
  BY <1>1, <1>3 DEF Confined
<1> QED BY <1>1, <1>4, SessionCases

\* What the TPM does, it does only where the operation under way waits for it.
LEMMA Pending ==
  ASSUME Normal
  PROVE  /\ tpm.control # {} => pc \in {"granted", "released", "panicked"}
         /\ tpm.request # {} => pc \in ReadyWait \cup {"panicked"}
         /\ tpm.state = "Executing" => pc \in {"started", "panicked"}
<1>0. /\ Session /\ view \in ViewType /\ pc \in Waits \cup Points
  BY DEF Normal, LibraryTyped
<1>1. pc \in {"idle", "granted", "released", "panicked"} \cup ReadyWait \cup StartPoint
  BY <1>0 DEF Waits, Points, ReadyWait, StartPoint
<1>2. StateAgrees => tpm.state # "Executing"
  BY <1>0 DEF StateAgrees, ViewType, TpmState
<1>3. CASE pc = "idle"
  BY <1>0, <1>2, <1>3 DEF Session, Rest, Quiet
<1>4. CASE pc \in ReadyWait
  BY <1>0, <1>4 DEF Session, Readying
<1>5. CASE pc \in {"granted", "released"}
  BY <1>0, <1>2, <1>5 DEF Session, Granting, Releasing
<1>6. CASE pc \in StartPoint
  <2>1. Starting
    BY <1>0, <1>6 DEF Session
  <2>2. Quiet
    BY <2>1 DEF Starting
  <2>3. tpm.state = "Executing" => pc = "started"
    BY <1>6, <2>1 DEF Starting, StartPoint, Spent
  <2> QED BY <2>2, <2>3 DEF Quiet
<1>7. CASE pc = "panicked"
  BY <1>7
<1> QED BY <1>1, <1>3, <1>4, <1>5, <1>6, <1>7

LEMMA LocalityMoves ==
  ASSUME Normal, NEW l \in Locality, TpmGrants(l) \/ TpmReleases(l)
  PROVE  Session'
<1>0. /\ tpm \in Tpm /\ Session
  BY DEF Normal
<1>1. PICK bit \in {"request", "relinquish"} :
        /\ bit = "request" => TpmGrants(l)
        /\ bit = "relinquish" => TpmReleases(l)
  OBVIOUS
<1>2. /\ <<l, bit>> \in tpm.control
      /\ tpm' = [tpm EXCEPT !.locality = IF bit = "request" THEN l
                                                            ELSE NO_ACTIVE_LOCALITY,
                            !.control = @ \ {<<l, bit>>}]
      /\ UNCHANGED <<is_crb, pc, call, view>>
  BY <1>1 DEF TpmGrants, TpmReleases, Hardware, caller
<1>3. /\ tpm'.locality = (IF bit = "request" THEN l ELSE NO_ACTIVE_LOCALITY)
      /\ tpm'.control = tpm.control \ {<<l, bit>>}
      /\ tpm'.request = tpm.request /\ tpm'.state = tpm.state
      /\ tpm'.moved = tpm.moved /\ tpm'.length = tpm.length
  BY <1>0, <1>2 DEF Tpm
<1>4. StateAgrees => StateAgrees'
  BY <1>2, <1>3 DEF StateAgrees, Spent
<1>5. CASE pc = "granted"
  <2>1. Granting
    BY <1>0, <1>5 DEF Session
  <2>2. <<l, bit>> = <<call.locality, "request">>
    BY <1>2, <2>1 DEF Granting
  <2>3. l = call.locality /\ bit = "request"
    BY <2>2
  <2>4. tpm'.control = {}
    BY <1>3, <2>1, <2>2 DEF Granting
  <2>5. Granting'
    BY <1>2, <1>3, <1>4, <2>1, <2>3, <2>4 DEF Granting
  <2> QED BY <1>2, <1>5, <2>5, SessionCases
<1>6. CASE pc = "released"
  <2>1. Releasing
    BY <1>0, <1>6 DEF Session
  <2>2. <<l, bit>> = <<call.locality, "relinquish">>
    BY <1>2, <2>1 DEF Releasing
  <2>3. l = call.locality /\ bit = "relinquish"
    BY <2>2
  <2>4. tpm'.control = {}
    BY <1>3, <2>1, <2>2 DEF Releasing
  <2>5. Releasing'
    BY <1>2, <1>3, <1>4, <2>1, <2>3, <2>4 DEF Releasing
  <2> QED BY <1>2, <1>6, <2>5, SessionCases
<1>7. CASE pc = "panicked"
  <2>1. Confined
    BY <1>0, <1>7 DEF Session
  <2>2. l = call.locality
    BY <1>2, <2>1 DEF Confined
  <2>3. Confined'
    BY <1>2, <1>3, <2>1, <2>2 DEF Confined
  <2> QED BY <1>2, <1>7, <2>3, SessionCases
<1> QED BY <1>2, <1>5, <1>6, <1>7, Pending

LEMMA RequestTaken ==
  ASSUME Normal, NEW bit \in {"goIdle", "cmdReady"}, TpmTakesRequest(bit)
  PROVE  Session'
<1>0. /\ tpm \in Tpm /\ Session
  BY DEF Normal
<1>1. /\ bit \in tpm.request
      /\ tpm' = [tpm EXCEPT !.request = @ \ {bit},
                            !.state = IF bit = "goIdle" THEN "Idle" ELSE "Ready",
                            !.moved = 0]
      /\ UNCHANGED <<is_crb, pc, call, view>>
  BY DEF TpmTakesRequest, Hardware, caller
<1>2. /\ tpm'.request = tpm.request \ {bit}
      /\ tpm'.state = (IF bit = "goIdle" THEN "Idle" ELSE "Ready")
      /\ tpm'.locality = tpm.locality /\ tpm'.control = tpm.control
  BY <1>0, <1>1 DEF Tpm
<1>3. CASE pc \in ReadyWait
  <2>1. Readying
    BY <1>0, <1>3 DEF Session
  <2>2. bit = Bit /\ tpm'.request = {}
    BY <1>1, <1>2, <2>1 DEF Readying
  <2>3. Bit' = Bit /\ Mine'
    BY <1>1, <1>2, <2>1 DEF Bit, Readying, Mine
  <2>4. Readying'
    BY <1>1, <1>2, <2>1, <2>2, <2>3 DEF Readying
  <2> QED BY <1>1, <1>3, <2>4, SessionCases
<1>4. CASE pc = "panicked"
  <2>1. Confined
    BY <1>0, <1>4 DEF Session
  <2>2. Confined'
    BY <1>1, <1>2, <2>1 DEF Confined
  <2> QED BY <1>1, <1>4, <2>2, SessionCases
<1> QED BY <1>1, <1>3, <1>4, Pending

LEMMA CommandCompletes ==
  ASSUME Normal, TpmCompletes
  PROVE  Session'
<1>0. /\ tpm \in Tpm /\ Session
  BY DEF Normal
<1>1. PICK n \in Size :
        /\ tpm' = [tpm EXCEPT !.state = "Completion", !.length = n, !.moved = 0]
        /\ UNCHANGED <<is_crb, pc, call, packet, view>>
  BY DEF TpmCompletes, Hardware, local, caller
<1>2. /\ tpm.state = "Executing" /\ tpm'.state = "Completion" /\ tpm'.moved = 0
      /\ tpm'.request = tpm.request /\ tpm'.id = tpm.id
      /\ tpm'.locality = tpm.locality /\ tpm'.control = tpm.control
  BY <1>0, <1>1 DEF TpmCompletes, Tpm
<1>3. CASE pc = "started"
  <2>1. Starting
    BY <1>0, <1>3 DEF Session, StartPoint
  <2>2. Quiet /\ Mine /\ Loaded
    BY <1>2, <1>3, <2>1 DEF Starting, Spent
  <2>3. Quiet' /\ Mine' /\ Loaded'
    BY <1>1, <1>2, <2>2 DEF Quiet, Mine, Loaded
  <2>4. Starting'
    BY <1>1, <1>2, <1>3, <2>3 DEF Starting
  <2> QED BY <1>1, <1>3, <2>4, SessionCases DEF StartPoint
<1>4. CASE pc = "panicked"
  <2>1. Confined
    BY <1>0, <1>4 DEF Session
  <2>2. Confined'
    BY <1>1, <1>2, <2>1 DEF Confined
  <2> QED BY <1>1, <1>4, <2>2, SessionCases
<1> QED BY <1>2, <1>3, <1>4, Pending

\* A call that fails half way leaves the normal flow for good.
LEMMA FailureIsFinal ==
  ASSUME [Next]_vars, ~failed'
  PROVE  /\ ~failed
         /\ ~Fail("Denied")
         /\ \A sent, received : ~Return("InvalidParameters", sent, received, TRUE)
<1>1. ASSUME NEW code, NEW sent, NEW received, Return(code, sent, received, TRUE)
      PROVE  ~failed /\ code = "Ok"
  BY <1>1, Zenon DEF Return
<1>2. \A code : ~Fail(code) \/ code = "Ok"
  BY <1>1, Zenon DEF Fail
<1>3. \A sent, received : ~Return("InvalidParameters", sent, received, TRUE)
  <2>1. "InvalidParameters" # "Ok"
    OBVIOUS
  <2> QED BY <1>1, <2>1, Zenon
<1>a. ~Fail("Denied")
  <2>1. "Denied" # "Ok"
    OBVIOUS
  <2> QED BY <1>2, <2>1, Zenon
<1>4. UNCHANGED failed => ~failed
  OBVIOUS
<1>5. ASSUME NEW l \in Locality,
             \/ go_idle(l) \/ cmd_ready(l) \/ start(l)
             \/ locality_request(l) \/ locality_relinquish(l)
      PROVE  UNCHANGED failed
  BY <1>5 DEF go_idle, cmd_ready, start, locality_request, locality_relinquish, Begin
<1>6. ASSUME SstStep PROVE ~failed
  <2>1. CASE wait_register_bits
    <3>1. Proceed
      BY <1>a, <2>1, Zenon DEF wait_register_bits
    <3>2. UNCHANGED caller \/ Return("Ok", NoId, NoId, TRUE)
      BY <3>1, Zenon DEF Proceed
    <3> QED BY <1>1, <1>4, <3>2, Zenon DEF caller
  <2>2. CASE copy_command_data \/ start_command
    BY <1>a, <1>4, <2>2 DEF copy_command_data, start_command, caller
  <2>3. CASE copy_response_data
    BY <1>a, <1>3, <1>4, <2>3 DEF copy_response_data, caller
  <2>4. CASE start_return
    BY <1>1, <2>4 DEF start_return
  <2> QED BY <1>6, <2>1, <2>2, <2>3, <2>4 DEF SstStep
<1>7. ASSUME timeout_expired \/ Yield_refused \/ wfe \/ UNCHANGED vars PROVE ~failed
  BY <1>4, <1>7 DEF timeout_expired, Yield_refused, wfe, vars, caller
<1>8. ASSUME NEW t, Hardware(t) PROVE UNCHANGED failed
  BY <1>8 DEF Hardware, caller
<1>9. ~failed
  BY <1>4, <1>5, <1>6, <1>7, <1>8
  DEF Next, TpmGrants, TpmReleases, TpmTakesRequest, TpmCompletes
<1> QED BY <1>3, <1>9, <1>a

\* A burst of the command, or of the response, that was copied.
LEMMA CommandBurst ==
  ASSUME Normal, copy_command_data, ~Fail("Denied")
  PROVE  Session' /\ UNCHANGED result
<1>1. /\ pc = "command" /\ index \in Nat /\ packet.length \in Nat
      /\ index < packet.length
  BY DEF copy_command_data, Normal, Bounds, LibraryTyped
<1>2. Burst(packet.length) \subseteq Nat
  BY <1>1 DEF Burst
<1>3. PICK n \in Nat :
        /\ tpm' = Load(packet.id, packet.length, n)
        /\ pc' = IF index' < packet.length THEN "command"
                 ELSE IF is_crb THEN "go" ELSE "sts_expect"
        /\ UNCHANGED <<is_crb, call, packet, caller>>
  BY <1>2 DEF copy_command_data
<1>4. pc' \in {"command", "go", "sts_expect"} /\ UNCHANGED <<is_crb, call, packet, view>>
  BY <1>3 DEF caller
<1>5. Session'
  BY <1>1, <1>3, <1>4, CommandCopied
<1> QED BY <1>3, <1>5 DEF caller

LEMMA ResponseBurst ==
  ASSUME Normal, copy_response_data, ~Fail("Denied"),
         \A sent, received : ~Return("InvalidParameters", sent, received, TRUE)
  PROVE  Session' /\ UNCHANGED result
<1> DEFINE target == IF index < TPM_HEADER_SIZE THEN TPM_HEADER_SIZE
                                                ELSE packet.length
<1>1. /\ pc = "response" /\ index < target /\ index \in Nat /\ target \in Nat
      /\ TPM_HEADER_SIZE \in Nat
  BY SizeAssumption DEF copy_response_data, Normal, LibraryTyped
<1>2. \A n \in Burst(target) : n \in Nat /\ index + n <= target
  BY <1>1 DEF Burst
<1>3. PICK n \in Burst(target), length \in header_lengths :
        /\ index' = index + n
        /\ packet' = IF index + n = TPM_HEADER_SIZE
                       THEN [packet EXCEPT !.length = length] ELSE packet
        /\ tpm' = IF is_crb THEN tpm ELSE [tpm EXCEPT !.moved = @ + n]
        /\ UNCHANGED <<is_crb, pc, call, caller>>
  BY DEF copy_response_data
<1>4. /\ n \in Nat /\ (index < TPM_HEADER_SIZE => index + n <= TPM_HEADER_SIZE)
      /\ UNCHANGED <<is_crb, pc, call, view>>
  BY <1>2, <1>3 DEF caller
<1>5. Session'
  BY <1>1, <1>3, <1>4, ResponseCopied
<1> QED BY <1>3, <1>5 DEF caller

\* Only start_return hands over a response.
LEMMA LoopResult ==
  ASSUME Normal, pc \in Waits, Proceed
  PROVE  UNCHANGED result \/ result'.op # "start"
<1>1. CASE pc \in DOMAIN Following
  BY <1>1 DEF Proceed, caller
<1>2. CASE pc \notin DOMAIN Following
  <2>1. result'.op = call.op
    BY <1>2 DEF Proceed, Return
  <2>2. pc \in ReadyWait \cup {"granted", "released"}
    BY <1>2 DEF Waits, ReadyWait, Following
  <2>3. call.op # "start"
    BY <2>2 DEF Normal, Ops
  <2> QED BY <2>1, <2>3
<1> QED BY <1>1, <1>2

LEMMA SessionStep ==
  ASSUME IInv, [Next]_vars, ~failed'
  PROVE  Session' /\ OwnResponse'
<1>0. Normal /\ ~failed /\ OwnResponse
  BY FailureIsFinal DEF IInv, Normal
<1>a. ASSUME UNCHANGED result PROVE OwnResponse'
  BY <1>0, <1>a DEF OwnResponse
<1>b. ASSUME \/ result'.op # "start" \/ result'.code # "Ok"
             \/ result'.received = result'.sent
      PROVE  OwnResponse'
  BY <1>b DEF OwnResponse
<1>1. ASSUME NEW l \in Locality,
             go_idle(l) \/ cmd_ready(l) \/ locality_request(l) \/ locality_relinquish(l)
      PROVE  Session' /\ OwnResponse'
  <2>1. result' = NoResult
    BY <1>1 DEF go_idle, cmd_ready, locality_request, locality_relinquish, Begin
  <2>2. Session'
    BY <1>0, <1>1, BeginReady, BeginLocality
  <2> QED BY <1>b, <2>1, <2>2 DEF NoResult
<1>2. ASSUME NEW l \in Locality, start(l)
      PROVE  Session' /\ OwnResponse'
  <2>1. result' = NoResult \/ result'.code = "InvalidParameters"
    BY <1>2 DEF start
  <2> QED BY <1>0, <1>2, <1>b, <2>1, BeginStart DEF NoResult
<1>3. CASE wait_register_bits
  <2>1. pc \in Waits /\ bits_ok(pc) /\ Proceed
    BY <1>3, FailureIsFinal DEF wait_register_bits
  <2> QED BY <1>0, <1>a, <1>b, <2>1, LoopEnds, LoopResult
<1>4. CASE copy_command_data
  BY <1>0, <1>4, <1>a, FailureIsFinal, CommandBurst
<1>5. CASE start_command
  BY <1>0, <1>5, <1>a, CommandStarted DEF start_command, caller
<1>6. CASE copy_response_data
  BY <1>0, <1>6, <1>a, FailureIsFinal, ResponseBurst
<1>7. CASE start_return
  BY <1>0, <1>7, <1>b, StartReturns
<1>8. CASE Yield_refused
  BY <1>0, <1>8, <1>a, Panics DEF Yield_refused, caller
<1>9. CASE timeout_expired \/ wfe \/ UNCHANGED vars
  <2>1. UNCHANGED <<is_crb, pc, call, packet, index, tpm, view, result>>
    BY <1>9 DEF timeout_expired, wfe, vars, local, caller
  <2>2. Session'
    BY <1>0, <2>1 DEF Normal, Session, Rest, Readying, Granting, Releasing, Starting,
       Confined, StateAgrees, Spent, Quiet, Mine, Bit, Loaded
  <2> QED BY <1>a, <2>1, <2>2
<1>10. ASSUME NEW l \in Locality, TpmGrants(l) \/ TpmReleases(l)
       PROVE  Session' /\ OwnResponse'
  BY <1>0, <1>10, <1>a, LocalityMoves DEF TpmGrants, TpmReleases, Hardware, caller
<1>11. ASSUME NEW bit \in {"goIdle", "cmdReady"}, TpmTakesRequest(bit)
       PROVE  Session' /\ OwnResponse'
  BY <1>0, <1>11, <1>a, RequestTaken DEF TpmTakesRequest, Hardware, caller
<1>12. CASE TpmCompletes
  BY <1>0, <1>12, <1>a, CommandCompletes DEF TpmCompletes, Hardware, caller
<1> QED
  BY <1>1, <1>2, <1>3, <1>4, <1>5, <1>6, <1>7, <1>8, <1>9, <1>10, <1>11, <1>12
  DEF Next, SstStep

LEMMA Inductive == Spec => []IInv
<1>1. Init => IInv
  <2> SUFFICES ASSUME Init PROVE IInv
    OBVIOUS
  <2>1. Rest /\ pc = "idle"
    BY DEF Init, Rest, Quiet, StateAgrees
  <2>2. Session
    BY <2>1 DEF Session, ReadyWait, StartPoint
  <2>3. OwnResponse
    BY DEF Init, NoResult, OwnResponse
  <2> QED BY <2>2, <2>3, TypeInit DEF IInv
<1>2. IInv /\ [Next]_vars => IInv'
  <2> SUFFICES ASSUME IInv, [Next]_vars PROVE IInv'
    OBVIOUS
  <2>1. LibraryTyped' /\ Ops' /\ Bounds' /\ tpm' \in Tpm
    BY LibraryStep, TpmTyped DEF IInv
  <2>2. (~failed)' => Session' /\ OwnResponse'
    BY SessionStep
  <2>3. OwnResponse'
    BY <2>2 DEF OwnResponse
  <2> QED BY <2>1, <2>2, <2>3 DEF IInv
<1> QED BY <1>1, <1>2, PTL DEF Spec

\* Between two calls, as long as none has failed half way, the TPM has done all
\* it was asked for, and is where the service believes it to be.
THEOREM ViewHolds == Spec => []ViewAgrees
<1>1. ASSUME IInv PROVE ViewAgrees
  <2> SUFFICES ASSUME pc = "idle", ~failed
               PROVE  /\ tpm.control = {} /\ tpm.request = {}
                      /\ tpm.locality = view.locality
                      /\ CASE view.state = "Idle" ->
                                tpm.state = "Idle" \/ (~is_crb /\ tpm.state = "Ready")
                           [] view.state = "Ready" -> tpm.state = "Ready"
                           [] view.state = "Complete" -> tpm.state = "Completion"
    BY DEF ViewAgrees
  <2>1. Rest /\ view.state \in TpmState
    BY <1>1 DEF IInv, Session, LibraryTyped, ViewType
  <2>2. CASE view.state = "Idle"
    BY <2>1, <2>2 DEF Rest, Quiet, StateAgrees
  <2>3. CASE view.state = "Ready"
    BY <2>1, <2>3 DEF Rest, Quiet, StateAgrees
  <2>4. CASE view.state = "Complete"
    BY <2>1, <2>4 DEF Rest, Quiet, StateAgrees
  <2> QED BY <2>1, <2>2, <2>3, <2>4 DEF TpmState
<1> QED BY <1>1, Inductive, PTL

\* As long as no call has failed half way, an Ok of start has handed over the
\* response to the command that start was given.
THEOREM OwnHolds == Spec => []OwnResponse
<1>1. IInv => OwnResponse
  BY DEF IInv
<1> QED BY <1>1, Inductive, PTL

\* A panic in the middle of a call leaves the sessions of the other localities
\* alone, as long as no call has failed half way.
THEOREM PanicHolds == Spec => []PanicConfined
<1>1. IInv => PanicConfined
  BY DEF IInv, Session, Confined, PanicConfined
<1> QED BY <1>1, Inductive, PTL

=============================================================================
