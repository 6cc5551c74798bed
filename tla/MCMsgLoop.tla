----------------------------- MODULE MCMsgLoop ------------------------------
(* An instance of MsgLoop for TLC.                                         *)
EXTENDS MsgLoop

\* The chain of qemu-sp, and the TPM stub.
MCAppended == <<"Thermal", "Ucsi", "FwMgmt", "Notify", "TpmServiceStub",
                "Battery">>

FwMgmtBodies == {[uuid |-> UUID["FwMgmt"], payload |-> <<cmd>>] : cmd \in 0 .. 6}
BatteryBodies ==
  {[uuid |-> UUID["Battery"], payload |-> <<cmd>>] : cmd \in {0, 2, 15}}
\* Mailboxes with bytes in every part of them.
UcsiMailbox(tag, opcode, connector) ==
  [i \in 1 .. 1 + MAILBOX_LEN |->
     CASE i = 1 -> tag
       [] i = 2 + CONTROL_OFFSET -> opcode
       [] i = 4 + CONTROL_OFFSET -> connector
       [] OTHER -> 100 + i]
UcsiBodies ==
  {[uuid |-> UUID["Ucsi"], payload |-> UcsiMailbox(m[1], m[2], m[3])] :
     m \in {<<0, 6, 0>>, <<0, 7, 1>>, <<0, 18, 1>>, <<0, 18, 2>>, <<1, 6, 1>>}}
MCBody == FwMgmtBodies \cup BatteryBodies \cup UcsiBodies
            \cup {[uuid |-> u, payload |-> <<>>] :
                    u \in {UUID["TpmServiceStub"], UUID["Thermal"],
                           UUID["Notify"], "none"}}
            \cup {[uuid |-> UUID["Thermal"], payload |-> <<2>>],
                  [uuid |-> UUID["Notify"], payload |-> Zeros(40) \o <<14>>]}
=============================================================================
