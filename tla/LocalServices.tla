--------------------------- MODULE LocalServices ----------------------------
(***************************************************************************)
(* The services that answer by themselves: FwMgmt, Ucsi and TpmServiceStub *)
(* of ec-service-lib and the battery of platform/qemu-sp.  A payload is    *)
(* the sequence of its bytes, the zeros at its end left out.               *)
(*                                                                         *)
(* A handler returns Ok with the payload of its response, an error, or the *)
(* FF-A call whose answer decides between the two.                         *)
(***************************************************************************)
EXTENDS Naturals, Sequences

Ok(bytes) == [result |-> "Ok", bytes |-> bytes]
Err == [result |-> "Err", bytes |-> <<>>]
Smc(fn) == [result |-> fn, bytes |-> <<>>]

u8_at(payload, i) == IF i < Len(payload) THEN payload[i + 1] ELSE 0
Zeros(n) == [i \in 1 .. n |-> 0]
le(v, n) == [i \in 1 .. n |-> (v \div 256 ^ (i - 1)) % 256]

-----------------------------------------------------------------------------
(* FwMgmt.                                                                 *)

EC_CAP_INDIRECT_MSG == 0
EC_CAP_GET_FW_STATE == 1
EC_CAP_GET_SVC_LIST == 2
EC_CAP_GET_BID == 3
EC_CAP_TEST_NFY == 4
EC_CAP_MAP_SHARE == 5

GenericRsp == Zeros(8)
get_fw_state == le(256, 2) \o <<0>> \o <<1>>
get_svc_list == Zeros(8) \o le(1, 2) \o <<1, 1, 1, 0>> \o le(7, 2)
get_bid == Zeros(8) \o le(1, 2) \o le(57005, 2) \o Zeros(4)
test_notify == Smc("NotificationSet")
map_share == Smc("MemRetrieveReq")
process_indirect == Err

FwMgmt(payload) ==
  LET cmd == u8_at(payload, 0) IN
  CASE cmd = EC_CAP_INDIRECT_MSG -> process_indirect
    [] cmd = EC_CAP_GET_FW_STATE -> Ok(get_fw_state)
    [] cmd = EC_CAP_GET_SVC_LIST -> Ok(get_svc_list)
    [] cmd = EC_CAP_GET_BID -> Ok(get_bid)
    [] cmd = EC_CAP_TEST_NFY -> test_notify
    [] cmd = EC_CAP_MAP_SHARE -> map_share
    [] OTHER -> Err

-----------------------------------------------------------------------------
(* Ucsi.                                                                   *)

MAILBOX_LEN == 48
MAILBOX_PAYLOAD_START == 1
CCI_OFFSET == 4
CONTROL_OFFSET == 8
MESSAGE_IN_OFFSET == 16
VERSION == 288
DOORBELL == 0
CONNECTOR_ONE == 1
OP_GET_CAPABILITY == 6
OP_GET_CONNECTOR_CAPABILITY == 7
OP_GET_CONNECTOR_STATUS == 18

\* CCIs, least significant byte first: bit 31 and the data length in bits
\* 15 .. 8, or bit 25 for what is not supported.
CCI_CAPABILITY == <<0, 16, 0, 128>>
CCI_CONNECTOR_CAPABILITY == <<0, 2, 0, 128>>
CCI_CONNECTOR_STATUS == <<0, 11, 0, 128>>
CCI_NOT_SUPPORTED == <<0, 0, 0, 2>>

CAPABILITY_MESSAGE_IN == <<70, 64, 0, 0, 1, 0, 0, 0, 0, 0, 32, 1, 0, 3, 0, 2>>
CONNECTOR_CAPABILITY_MESSAGE_IN == <<100, 3>>
CONNECTOR_STATUS_MESSAGE_IN == <<0, 0, 41, 32, 0, 0, 0, 0, 0, 0, 0>>

\* The CCI and MESSAGE IN of a command.
command(opcode, connector) ==
  CASE opcode = OP_GET_CAPABILITY -> <<CCI_CAPABILITY, CAPABILITY_MESSAGE_IN>>
    [] opcode = OP_GET_CONNECTOR_CAPABILITY /\ connector = CONNECTOR_ONE ->
         <<CCI_CONNECTOR_CAPABILITY, CONNECTOR_CAPABILITY_MESSAGE_IN>>
    [] opcode = OP_GET_CONNECTOR_STATUS /\ connector = CONNECTOR_ONE ->
         <<CCI_CONNECTOR_STATUS, CONNECTOR_STATUS_MESSAGE_IN>>
    [] OTHER -> <<CCI_NOT_SUPPORTED, <<>>>>

\* The version and the CCI are overwritten, MESSAGE IN and MESSAGE OUT zeroed
\* before the message is put in.
update_mailbox_unfilled(mailbox, cci, message_in) ==
  [i \in 1 .. MAILBOX_LEN |->
     CASE i \in 1 .. 2 -> le(VERSION, 2)[i]
       [] i \in CCI_OFFSET + 1 .. CCI_OFFSET + 4 -> cci[i - CCI_OFFSET]
       [] i \in MESSAGE_IN_OFFSET + 1 .. MESSAGE_IN_OFFSET + Len(message_in) ->
            message_in[i - MESSAGE_IN_OFFSET]
       [] OTHER -> mailbox[i]]
update_mailbox(mailbox, cci, message_in) ==
  [i \in 1 .. MAILBOX_LEN |->
     CASE i \in 1 .. 2 -> le(VERSION, 2)[i]
       [] i \in CCI_OFFSET + 1 .. CCI_OFFSET + 4 -> cci[i - CCI_OFFSET]
       [] i \in MESSAGE_IN_OFFSET + 1 .. MESSAGE_IN_OFFSET + Len(message_in) ->
            message_in[i - MESSAGE_IN_OFFSET]
       [] i > MESSAGE_IN_OFFSET + Len(message_in) -> 0
       [] OTHER -> mailbox[i]]

Ucsi(payload) ==
  LET mailbox == [i \in 1 .. MAILBOX_LEN |->
                    u8_at(payload, MAILBOX_PAYLOAD_START + i - 1)]
      c == command(mailbox[CONTROL_OFFSET + 1], mailbox[CONTROL_OFFSET + 3])
  IN  IF u8_at(payload, 0) # DOORBELL THEN Err
      ELSE Ok(update_mailbox(mailbox, c[1], c[2]))

-----------------------------------------------------------------------------
(* TpmServiceStub, and the battery of qemu-sp.                             *)

TpmServiceStub(payload) == Ok([i \in 1 .. 8 |-> 255])

EC_BAT_GET_BIX == 1
EC_BAT_GET_BST == 2
EC_BAT_GET_STA == 15
generic_test == Zeros(8)
get_bst == le(1, 4) \o le(500, 4) \o le(5000, 4) \o le(12000, 4)

Battery(payload) ==
  LET cmd == u8_at(payload, 0) IN
  CASE cmd = EC_BAT_GET_BST -> Ok(get_bst)
    [] cmd \in EC_BAT_GET_BIX .. EC_BAT_GET_STA \ {EC_BAT_GET_BST} ->
         Ok(generic_test)
    [] OTHER -> Err
=============================================================================
