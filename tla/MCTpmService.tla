---------------------------- MODULE MCTpmService ----------------------------
(***************************************************************************)
(* Instances of TpmService for TLC.                                        *)
(***************************************************************************)
EXTENDS TpmService, FiniteSets

R(opcode, function, locality, source_id) ==
  [opcode |-> opcode, function |-> function, locality |-> locality,
   source_id |-> source_id]

Host == 1
TfA == 65280 + 7

\* Every opcode; localities in range, one past it, and one that wraps to 0.
MCRequests ==
  {R("Start", f, l, Host) : f \in {0, 1, 2}, l \in Locality}
    \cup {R("Start", 0, NUM_LOCALITIES, Host), R("Start", 65536, 256, Host)}
    \cup {R("ManageLocality", f, l, TfA) : f \in {0, 1}, l \in Locality}
    \cup {R("ManageLocality", 2, 0, TfA), R("ManageLocality", 1, 0, Host),
          R("ManageLocality", 0, NUM_LOCALITIES, TfA)}
    \cup {R(opcode, 0, 0, Host) : opcode \in {"GetInterfaceVersion",
            "GetFeatureInfo", "RegisterForNotification",
            "UnregisterForNotification", "FinishNotified", "Other"}}
    \cup {R("GetFeatureInfo", NOTIFICATION_FEATURE, 0, Host)}

\* Memory that was never written, and memory left over from earlier use.
MCInitialCrb ==
  {init_internal_crb,
   [locality_control |-> {}, granted |-> TRUE,
    crb_control_request |-> {}, crb_control_start |-> FALSE,
    tpm_idle |-> FALSE, crb_data_buffer |-> "response"]}

MCLocalityControl == {{"request_access"}, {"relinquish"}}
MCControlRequest == {{"cmdReady"}, {"goIdle"}}

\* Bound on the control registers that the host has set and the service has
\* not yet cleared, over all localities; it is tighter before init and after
\* deinit, when no locality is open until TF-A opens one.
MaxPending == IF phase = "up" THEN 2 ELSE 1
Pending ==
  {l \in Locality : crb[l].locality_control # {}} \X {"locality_control"}
    \cup {l \in Locality : crb[l].crb_control_request # {}} \X {"request"}
    \cup {l \in Locality : crb[l].crb_control_start} \X {"start"}
BoundedPending == Cardinality(Pending) <= MaxPending
=============================================================================
