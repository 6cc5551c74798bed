-------------------------- MODULE TpmServiceProofs --------------------------
(***************************************************************************)
(* Proofs about TpmService, for every number of localities, every set of   *)
(* requests and every behaviour of the host and of the SST.                *)
(***************************************************************************)
EXTENDS TpmService, TLAPS

\* The five invariants are inductive together: what a returning call may do to
\* the CRBs is safe because CallAuthorised ties the call to the active locality.
SessionInv ==
  /\ TypeOK
  /\ CallAuthorised
  /\ GrantFollowsActive
  /\ ResponseConfined
  /\ IdleBitAgrees

LEMMA NoActive == NO_ACTIVE_LOCALITY \notin Locality
  BY LocalitiesAssumption DEF NO_ACTIVE_LOCALITY, Locality

LEMMA InitCrbType == init_internal_crb \in Crb
  BY DEF init_internal_crb, Crb

-----------------------------------------------------------------------------
(* How start_handler ends.                                                 *)

\* What clean_internal_crb leaves in each CRB.
LEMMA CleanCrb ==
  ASSUME NEW c \in [Locality -> Crb],
         NEW active \in Locality \cup {NO_ACTIVE_LOCALITY},
         NEW state \in TpmState,
         NEW d, d = clean_internal_crb(c, active, state)
  PROVE  /\ d \in [Locality -> Crb]
         /\ \A l \in Locality :
              /\ d[l].crb_data_buffer = c[l].crb_data_buffer
              /\ l # active => d[l] = c[l]
              /\ l = active => /\ d[l].granted
                               /\ d[l].tpm_idle <=> state = "Idle"
<1> DEFINE cleaned == [locality_control |-> {}, granted |-> TRUE,
                       crb_control_request |-> {}, crb_control_start |-> FALSE,
                       tpm_idle |-> (state = "Idle"),
                       crb_data_buffer |-> c[active].crb_data_buffer]
<1>1. CASE active = NO_ACTIVE_LOCALITY
  BY <1>1, NoActive DEF clean_internal_crb
<1>2. CASE active \in Locality
  <2>1. c[active].crb_data_buffer \in {"zero", "command", "response"}
    BY <1>2 DEF Crb
  <2>2. cleaned \in Crb
    BY <2>1 DEF Crb
  <2>3. clean_internal_crb(c, active, state) = [c EXCEPT ![active] = cleaned]
    BY <1>2, NoActive DEF clean_internal_crb
  <2> HIDE DEF cleaned
  <2>4. /\ [c EXCEPT ![active] = cleaned] \in [Locality -> Crb]
        /\ [c EXCEPT ![active] = cleaned][active] = cleaned
        /\ \A l \in Locality :
             l # active => [c EXCEPT ![active] = cleaned][l] = c[l]
    BY <1>2, <2>2
  <2>5. /\ cleaned.granted
        /\ cleaned.tpm_idle <=> state = "Idle"
        /\ cleaned.crb_data_buffer = c[active].crb_data_buffer
    BY DEF cleaned
  <2> QED BY <2>3, <2>4, <2>5
<1> QED BY <1>1, <1>2

\* Finish re-establishes the invariant from what the handler left in the CRBs:
\* no granted bit and no response outside the new session.
LEMMA FinishInv ==
  ASSUME SessionInv,
         NEW code \in TpmStatus, NEW state \in TpmState,
         NEW active \in Locality \cup {NO_ACTIVE_LOCALITY},
         NEW c \in [Locality -> Crb],
         phase = "up" => \A l \in Locality : c[l].granted => l = active,
         \A l \in Locality : c[l].crb_data_buffer = "response" =>
           /\ phase = "up" => l = active
           /\ l = active => state = "Complete",
         Finish(code, state, active, c)
  PROVE  SessionInv'
<1> DEFINE d == clean_internal_crb(c, active, state)
<1>0. d = clean_internal_crb(c, active, state)
  OBVIOUS
<1> HIDE DEF d
<1>1. /\ current_state' = state /\ active_locality' = active /\ crb' = d
      /\ call' = NoCall /\ status' = code
      /\ UNCHANGED <<phase, locality_states, notification_registered, idle_bypass>>
  BY <1>0 DEF Finish
<1>2. /\ d \in [Locality -> Crb]
      /\ \A l \in Locality :
           /\ d[l].crb_data_buffer = c[l].crb_data_buffer
           /\ l # active => d[l] = c[l]
           /\ l = active => /\ d[l].granted
                            /\ d[l].tpm_idle <=> state = "Idle"
  <2>1. d \in [Locality -> Crb]
    BY <1>0, CleanCrb
  <2>2. ASSUME NEW l \in Locality
        PROVE  /\ d[l].crb_data_buffer = c[l].crb_data_buffer
               /\ l # active => d[l] = c[l]
               /\ l = active => /\ d[l].granted
                                /\ d[l].tpm_idle <=> state = "Idle"
    BY <1>0, CleanCrb
  <2> QED BY <2>1, <2>2
<1>3. \A l \in Locality : c[l] \in Crb /\ d[l] \in Crb
  BY <1>2
<1>4. \A l \in Locality : d[l].granted \in BOOLEAN /\ d[l].tpm_idle \in BOOLEAN
  BY <1>3 DEF Crb
<1>5. TypeOK'
  BY <1>1, <1>2 DEF SessionInv, TypeOK
<1>6. CallAuthorised'
  BY <1>1 DEF CallAuthorised
<1>7. GrantFollowsActive'
  BY <1>1, <1>2, <1>4 DEF GrantFollowsActive
<1>8. ResponseConfined'
  BY <1>1, <1>2 DEF ResponseConfined
<1>9. IdleBitAgrees'
  BY <1>1, <1>2 DEF IdleBitAgrees
<1> QED BY <1>5, <1>6, <1>7, <1>8, <1>9 DEF SessionInv

LEMMA RefuseInv ==
  ASSUME SessionInv, NEW code \in TpmStatus, Refuse(code)
  PROVE  SessionInv'
<1>1. /\ current_state \in TpmState
      /\ active_locality \in Locality \cup {NO_ACTIVE_LOCALITY}
      /\ crb \in [Locality -> Crb]
  BY DEF SessionInv, TypeOK
<1>2. phase = "up" => \A l \in Locality : crb[l].granted => l = active_locality
  BY DEF SessionInv, GrantFollowsActive
<1>3. \A l \in Locality : crb[l].crb_data_buffer = "response" =>
        /\ phase = "up" => l = active_locality
        /\ l = active_locality => current_state = "Complete"
  BY DEF SessionInv, ResponseConfined
<1>4. Finish(code, current_state, active_locality, crb)
  BY DEF Refuse
<1> QED BY <1>1, <1>2, <1>3, <1>4, FinishInv

\* A call made for an open locality that may use the TPM.
LEMMA CallInv ==
  ASSUME SessionInv,
         NEW op \in CommandOp \cup LocalityOp, NEW l \in Locality,
         locality_states[l] = "Open",
         \/ l = active_locality
         \/ op = "locality_request" /\ active_locality = NO_ACTIVE_LOCALITY,
         CallSst(op, l)
  PROVE  SessionInv'
<1>1. call' = [op |-> op, locality |-> l]
      /\ UNCHANGED <<phase, current_state, active_locality, locality_states,
                     notification_registered, crb, idle_bypass, status>>
  BY DEF CallSst, service
<1>2. TypeOK'
  BY <1>1 DEF SessionInv, TypeOK
<1>3. CallAuthorised'
  BY <1>1 DEF CallAuthorised
<1>4. GrantFollowsActive' /\ ResponseConfined' /\ IdleBitAgrees'
  BY <1>1 DEF SessionInv, GrantFollowsActive, ResponseConfined, IdleBitAgrees
<1> QED BY <1>2, <1>3, <1>4 DEF SessionInv

-----------------------------------------------------------------------------
(* One lemma per action.                                                   *)

LEMMA InitOk == Init => SessionInv
<1> SUFFICES ASSUME Init PROVE SessionInv
  OBVIOUS
<1>1. TypeOK
  BY CrbAssumption DEF Init, TypeOK, TpmState, TpmLocalityState, TpmStatus
<1> QED
  BY <1>1, NoActive DEF Init, SessionInv, CallAuthorised, GrantFollowsActive,
              ResponseConfined, IdleBitAgrees

LEMMA LifeCycle == SessionInv /\ (init \/ deinit) => SessionInv'
<1> SUFFICES ASSUME SessionInv, init \/ deinit PROVE SessionInv'
  OBVIOUS
<1>1. CASE init
  <2>1. /\ phase' = "up" /\ current_state' = "Idle"
        /\ active_locality' = NO_ACTIVE_LOCALITY
        /\ notification_registered' = FALSE
        /\ crb' = [l \in Locality |-> init_internal_crb]
        /\ UNCHANGED <<idle_bypass, call, status>>
    BY <1>1 DEF init, reset_runtime_state
  <2>2. locality_states' \in [Locality -> TpmLocalityState]
    BY <1>1 DEF init, TpmLocalityState
  <2>3. call = NoCall
    BY <1>1 DEF init, SessionInv, CallAuthorised
  <2>4. TypeOK'
    BY <2>1, <2>2, InitCrbType DEF SessionInv, TypeOK, TpmState
  <2>5. \A l \in Locality : /\ crb'[l].granted = FALSE
                            /\ crb'[l].crb_data_buffer = "zero"
    BY <2>1 DEF init_internal_crb
  <2>6. CallAuthorised' /\ IdleBitAgrees'
    BY <2>1, <2>3 DEF CallAuthorised, IdleBitAgrees
  <2>7. GrantFollowsActive' /\ ResponseConfined'
    BY <2>1, <2>5, NoActive DEF GrantFollowsActive, ResponseConfined
  <2> QED BY <2>4, <2>6, <2>7 DEF SessionInv
<1>2. CASE deinit
  BY <1>2, NoActive DEF deinit, reset_runtime_state, SessionInv, TypeOK, TpmState,
              TpmLocalityState, CallAuthorised, GrantFollowsActive,
              ResponseConfined, IdleBitAgrees
<1> QED BY <1>1, <1>2

LEMMA HostInv == SessionInv /\ HostWrite => SessionInv'
<1> SUFFICES ASSUME SessionInv, HostWrite PROVE SessionInv'
  OBVIOUS
<1>0. UNCHANGED <<phase, current_state, active_locality, locality_states,
                  notification_registered, idle_bypass, call, status>>
  BY DEF HostWrite, service
<1>1. PICK l \in Locality :
        \/ \E v \in LocalityControlValues :
             crb' = [crb EXCEPT ![l].locality_control = v]
        \/ \E v \in ControlRequestValues :
             crb' = [crb EXCEPT ![l].crb_control_request = v]
        \/ crb' = [crb EXCEPT ![l].crb_control_start = TRUE]
        \/ crb' = [crb EXCEPT ![l].crb_data_buffer = "command"]
  BY DEF HostWrite
<1>2. crb \in [Locality -> Crb] /\ crb[l] \in Crb
  BY DEF SessionInv, TypeOK
<1>3. crb' \in [Locality -> Crb]
  <2>1. ASSUME NEW v \in SUBSET {"request_access", "relinquish"}
        PROVE  [crb EXCEPT ![l].locality_control = v] \in [Locality -> Crb]
    BY <1>2 DEF Crb
  <2>2. ASSUME NEW v \in SUBSET {"cmdReady", "goIdle"}
        PROVE  [crb EXCEPT ![l].crb_control_request = v] \in [Locality -> Crb]
    BY <1>2 DEF Crb
  <2>3. [crb EXCEPT ![l].crb_control_start = TRUE] \in [Locality -> Crb]
    BY <1>2 DEF Crb
  <2>4. [crb EXCEPT ![l].crb_data_buffer = "command"] \in [Locality -> Crb]
    BY <1>2 DEF Crb
  <2>5. CASE \E v \in LocalityControlValues :
               crb' = [crb EXCEPT ![l].locality_control = v]
    BY <2>1, <2>5, CrbAssumption
  <2>6. CASE \E v \in ControlRequestValues :
               crb' = [crb EXCEPT ![l].crb_control_request = v]
    BY <2>2, <2>6, CrbAssumption
  <2> QED BY <1>1, <2>3, <2>4, <2>5, <2>6
<1>4. \A k \in Locality :
        /\ crb'[k].granted = crb[k].granted
        /\ crb'[k].tpm_idle = crb[k].tpm_idle
        /\ crb'[k].crb_data_buffer \in {crb[k].crb_data_buffer, "command"}
  BY <1>1, <1>2 DEF Crb
<1>5. TypeOK'
  BY <1>0, <1>3 DEF SessionInv, TypeOK
<1>6. CallAuthorised'
  BY <1>0 DEF SessionInv, CallAuthorised
<1>7. GrantFollowsActive' /\ ResponseConfined'
  BY <1>0, <1>4 DEF SessionInv, GrantFollowsActive, ResponseConfined
<1>8. IdleBitAgrees'
  BY <1>0, <1>4 DEF SessionInv, TypeOK, IdleBitAgrees
<1> QED BY <1>5, <1>6, <1>7, <1>8 DEF SessionInv

LEMMA StartInv ==
  ASSUME SessionInv, NEW r \in Requests, start_handler(r)
  PROVE  SessionInv'
<1> DEFINE function == r.function % 65536
           l == r.locality % 256
<1>1. {"InvArg", "Denied", "InvCrbCtrlData"} \subseteq TpmStatus
  BY DEF TpmStatus
<1>2. CASE \E code \in TpmStatus : Refuse(code)
  BY <1>2, RefuseInv
<1>3. CASE /\ l \in Locality /\ locality_states[l] = "Open"
           /\ l = active_locality /\ handle_command
  <2>1. CASE \E code \in TpmStatus : Refuse(code)
    BY <2>1, RefuseInv
  <2>2. CASE \E op \in CommandOp : CallSst(op, l)
    BY <1>3, <2>2, CallInv
  <2>3. command_op(crb[l]) \in CommandOp \cup {"none"}
    BY DEF command_op, CommandOp
  <2> QED BY <1>1, <1>3, <2>1, <2>2, <2>3 DEF handle_command
<1>4. CASE /\ l \in Locality /\ locality_states[l] = "Open"
           /\ handle_locality_request(l)
  <2>1. CASE \E code \in TpmStatus : Refuse(code)
    BY <2>1, RefuseInv
  <2>2. CASE l = active_locality /\ CallSst("locality_relinquish", l)
    BY <1>4, <2>2, CallInv DEF LocalityOp
  <2>3. CASE /\ active_locality \in {NO_ACTIVE_LOCALITY, l}
             /\ CallSst("locality_request", l)
    BY <1>4, <2>3, CallInv DEF LocalityOp
  <2> QED BY <1>1, <1>4, <2>1, <2>2, <2>3 DEF handle_locality_request
<1> QED BY <1>1, <1>2, <1>3, <1>4 DEF start_handler

LEMMA ReturnInv == SessionInv /\ SstReturns => SessionInv'
<1> SUFFICES ASSUME SessionInv, NEW code \in ErrorCode,
                    command_returns(code) \/ locality_returns(code)
             PROVE  SessionInv'
  BY DEF SstReturns
<1> DEFINE l == call.locality
           st == convert_error_to_status(code)
<1>1. st \in TpmStatus
  BY DEF convert_error_to_status, TpmStatus, ErrorCode
<1>2. /\ call # NoCall
      /\ call \in [op : CommandOp \cup LocalityOp, locality : Locality]
  BY DEF command_returns, locality_returns, CommandOp, LocalityOp, NoCall,
         SessionInv, TypeOK
<1>3. /\ l \in Locality
      /\ \/ l = active_locality
         \/ call.op = "locality_request" /\ active_locality = NO_ACTIVE_LOCALITY
  BY <1>2 DEF SessionInv, CallAuthorised
<1>4. /\ current_state \in TpmState
      /\ active_locality \in Locality \cup {NO_ACTIVE_LOCALITY}
      /\ crb \in [Locality -> Crb]
      /\ phase = "up" => \A k \in Locality : crb[k].granted => k = active_locality
      /\ \A k \in Locality : crb[k].crb_data_buffer = "response" =>
           /\ phase = "up" => k = active_locality
           /\ k = active_locality => current_state = "Complete"
  BY <1>3 DEF SessionInv, TypeOK, GrantFollowsActive, ResponseConfined
<1>5. CASE command_returns(code)
  <2> DEFINE ok == code = "Ok"
             state == command_state(call.op)
             buffer == command_buffer(call.op, crb[l].crb_data_buffer)
             newState == IF ok THEN state ELSE current_state
             newCrb == IF ok THEN [crb EXCEPT ![l].crb_data_buffer = buffer]
                             ELSE crb
  <2>1. call.op \in CommandOp /\ Finish(st, newState, active_locality, newCrb)
    BY <1>5 DEF command_returns
  <2>2. l = active_locality
    BY <1>3, <2>1 DEF CommandOp
  <2>3. state \in TpmState /\ (call.op = "start" => state = "Complete")
    BY <2>1 DEF command_state, CommandOp, TpmState
  <2>4. buffer \in {"zero", "command", "response"}
        /\ (buffer = "response" => call.op = "start")
    BY <1>3, <1>4, <2>2 DEF command_buffer, Crb
  <2>5. newState \in TpmState
    BY <1>4, <2>3
  <2> HIDE DEF state, buffer
  <2>6. newCrb \in [Locality -> Crb]
    BY <1>3, <1>4, <2>4 DEF Crb
  <2>7. \A k \in Locality :
          /\ newCrb[k].granted = crb[k].granted
          /\ ok /\ k = l => newCrb[k].crb_data_buffer = buffer
          /\ ok /\ k # l => newCrb[k].crb_data_buffer = crb[k].crb_data_buffer
    BY <1>3, <1>4 DEF Crb
  <2>8. \A k \in Locality : newCrb[k].crb_data_buffer = "response" =>
          /\ phase = "up" => k = active_locality
          /\ k = active_locality => newState = "Complete"
    BY <1>4, <2>2, <2>3, <2>4, <2>7
  <2>9. phase = "up" => \A k \in Locality :
          newCrb[k].granted => k = active_locality
    BY <1>4, <2>7
  <2> HIDE DEF newCrb, newState, st
  <2> QED BY <1>1, <1>3, <1>4, <2>1, <2>5, <2>6, <2>8, <2>9, FinishInv
<1>6. CASE locality_returns(code)
  <2> DEFINE ok == code = "Ok"
             newActive == locality_active(code)
             newCrb == locality_crb(code)
  <2>1. Finish(st, current_state, newActive, newCrb)
    BY <1>6 DEF locality_returns
  <2>2. newActive \in Locality \cup {NO_ACTIVE_LOCALITY}
    BY <1>3, <1>4 DEF locality_active
  <2>3. newCrb \in [Locality -> Crb]
    BY <1>3, <1>4, InitCrbType DEF locality_crb
  <2>4. init_internal_crb.granted = FALSE
        /\ init_internal_crb.crb_data_buffer = "zero"
    BY DEF init_internal_crb
  <2>5. \A k \in Locality :
          /\ phase = "up" /\ newCrb[k].granted => k = newActive
          /\ newCrb[k].crb_data_buffer = "response" =>
               /\ phase = "up" => k = newActive
               /\ k = newActive => current_state = "Complete"
    BY <1>3, <1>4, <2>4, NoActive DEF locality_active, locality_crb
  <2> HIDE DEF newCrb, newActive, st
  <2>6. phase = "up" => \A k \in Locality : newCrb[k].granted => k = newActive
    BY <2>5
  <2>7. \A k \in Locality : newCrb[k].crb_data_buffer = "response" =>
          /\ phase = "up" => k = newActive
          /\ k = newActive => current_state = "Complete"
    BY <2>5
  <2> QED BY <1>1, <1>4, <2>1, <2>2, <2>3, <2>6, <2>7, FinishInv
<1> QED BY <1>5, <1>6

\* Requests other than Start touch neither the CRBs nor the session.
LEMMA QuickInv ==
  ASSUME SessionInv, call = NoCall, NEW r \in Requests,
         \/ get_interface_version_handler(r)
         \/ get_feature_info_handler(r)
         \/ register_handler(r)
         \/ unregister_handler(r)
         \/ finish_handler(r)
         \/ manage_locality_handler(r)
         \/ unknown_opcode(r)
  PROVE  SessionInv'
<1>1. /\ UNCHANGED <<phase, current_state, active_locality, crb, idle_bypass, call>>
      /\ status' \in TpmStatus
  BY DEF get_interface_version_handler, get_feature_info_handler,
         register_handler, unregister_handler, finish_handler,
         manage_locality_handler, unknown_opcode, Answer, TpmStatus
<1>2. /\ notification_registered \in BOOLEAN
      /\ locality_states \in [Locality -> TpmLocalityState]
      /\ {"Open", "Closed"} \subseteq TpmLocalityState
  BY DEF SessionInv, TypeOK, TpmLocalityState
<1>3. notification_registered' \in BOOLEAN
  <2>1. CASE register_handler(r)
    BY <2>1 DEF register_handler, Answer
  <2>2. CASE unregister_handler(r)
    BY <2>2 DEF unregister_handler, Answer
  <2>3. CASE ~register_handler(r) /\ ~unregister_handler(r)
    <3>1. notification_registered' = notification_registered
      BY <2>3 DEF get_interface_version_handler, get_feature_info_handler,
                  finish_handler, manage_locality_handler, unknown_opcode,
                  Answer
    <3> QED BY <1>2, <3>1
  <2> QED BY <2>1, <2>2, <2>3
<1>4. locality_states' \in [Locality -> TpmLocalityState]
  <2>1. \/ locality_states' = locality_states
        \/ \E l \in Locality, s \in {"Open", "Closed"} :
             locality_states' = [locality_states EXCEPT ![l] = s]
    <3>1. CASE manage_locality_handler(r)
      BY <3>1 DEF manage_locality_handler, Answer
    <3>2. CASE ~manage_locality_handler(r)
      BY <3>2 DEF get_interface_version_handler, get_feature_info_handler,
                  register_handler, unregister_handler, finish_handler,
                  unknown_opcode, Answer
    <3> QED BY <3>1, <3>2
  <2> QED BY <1>2, <2>1
<1>5. TypeOK'
  BY <1>1, <1>3, <1>4 DEF SessionInv, TypeOK
<1>6. CallAuthorised' /\ GrantFollowsActive' /\ ResponseConfined' /\ IdleBitAgrees'
  BY <1>1 DEF SessionInv, CallAuthorised, GrantFollowsActive, ResponseConfined,
              IdleBitAgrees
<1> QED BY <1>5, <1>6 DEF SessionInv

LEMMA StepInv == SessionInv /\ [Next]_vars => SessionInv'
<1> SUFFICES ASSUME SessionInv, [Next]_vars PROVE SessionInv'
  OBVIOUS
<1>1. CASE init \/ deinit
  BY <1>1, LifeCycle
<1>2. CASE HostWrite
  BY <1>2, HostInv
<1>3. CASE \E r \in Requests : ffa_msg_send_direct_req2(r)
  <2>1. PICK r \in Requests : ffa_msg_send_direct_req2(r)
    BY <1>3
  <2>2. call = NoCall
    BY <2>1 DEF ffa_msg_send_direct_req2
  <2>3. CASE start_handler(r)
    BY <2>2, <2>3, StartInv
  <2>4. CASE ~start_handler(r)
    BY <2>1, <2>2, <2>4, QuickInv DEF ffa_msg_send_direct_req2
  <2> QED BY <2>3, <2>4
<1>4. CASE SstReturns
  BY <1>4, ReturnInv
<1>5. CASE UNCHANGED vars
  BY <1>5 DEF vars, service, SessionInv, TypeOK, CallAuthorised,
              GrantFollowsActive, ResponseConfined, IdleBitAgrees
<1> QED BY <1>1, <1>2, <1>3, <1>4, <1>5 DEF Next

LEMMA AlwaysSession == Spec => []SessionInv
<1> QED BY InitOk, StepInv, PTL DEF Spec

-----------------------------------------------------------------------------
(* The theorems.                                                           *)

\* Type correctness: active_locality is a locality or the sentinel, and no SST
\* call, and so no CRB access, is made for the sentinel.
THEOREM TypeCorrect == Spec => []TypeOK
<1>1. SessionInv => TypeOK
  BY DEF SessionInv
<1> QED BY <1>1, AlwaysSession, PTL

\* The SST is only ever driven for an open locality that holds the TPM or asks
\* for it while nobody does (start_handler's checks survive to the call's end).
THEOREM CallsAuthorised == Spec => []CallAuthorised
<1>1. SessionInv => CallAuthorised
  BY DEF SessionInv
<1> QED BY <1>1, AlwaysSession, PTL

\* No response outlives the session that its command was run in.
THEOREM ResponsesConfined == Spec => []ResponseConfined
<1>1. SessionInv => ResponseConfined
  BY DEF SessionInv
<1> QED BY <1>1, AlwaysSession, PTL

\* The CRBs never show two granted localities, nor one that is not the active
\* one, and the tpmIdle bit in the active CRB is the state machine's.
THEOREM CrbsAgree == Spec => []CrbAgrees
<1>1. SessionInv => CrbAgrees
  BY DEF SessionInv, CrbAgrees
<1> QED BY <1>1, AlwaysSession, PTL

-----------------------------------------------------------------------------
(* What a step may not do.                                                 *)

\* A call that fails ends with the CRBs only cleaned.
LEMMA FailedReturn ==
  ASSUME SessionInv, NEW code \in ErrorCode,
         command_returns(code) \/ locality_returns(code), status' # "Ok"
  PROVE  Finish(convert_error_to_status(code), current_state, active_locality,
                crb)
<1>1. code # "Ok"
  BY DEF command_returns, locality_returns, Finish, convert_error_to_status
<1> QED BY <1>1 DEF command_returns, locality_returns, locality_active,
                    locality_crb

\* Finish changes buffers and granted bits only as its caller did, but for the
\* granted bit of the active locality, which is set already.
LEMMA FinishFrame ==
  ASSUME SessionInv,
         NEW code, NEW state \in TpmState,
         NEW active \in Locality \cup {NO_ACTIVE_LOCALITY},
         NEW c \in [Locality -> Crb], Finish(code, state, active, c),
         NEW l \in Locality
  PROVE  /\ crb'[l].crb_data_buffer = c[l].crb_data_buffer
         /\ l # active => crb'[l].granted = c[l].granted
         /\ l = active => crb'[l].granted
<1>1. crb' = clean_internal_crb(c, active, state)
  BY DEF Finish
<1>2. /\ crb'[l].crb_data_buffer = c[l].crb_data_buffer
      /\ l # active => crb'[l] = c[l]
      /\ l = active => crb'[l].granted
  BY <1>1, CleanCrb
<1> QED BY <1>2

LEMMA UnchangedSession ==
  ASSUME SessionInv, NEW code,
         Finish(code, current_state, active_locality, crb)
  PROVE  \A l \in Locality :
           /\ crb'[l].granted = crb[l].granted
           /\ crb'[l].crb_data_buffer = crb[l].crb_data_buffer
<1> SUFFICES ASSUME NEW l \in Locality
             PROVE  /\ crb'[l].granted = crb[l].granted
                    /\ crb'[l].crb_data_buffer = crb[l].crb_data_buffer
  OBVIOUS
<1>1. /\ current_state \in TpmState /\ crb \in [Locality -> Crb]
      /\ active_locality \in Locality \cup {NO_ACTIVE_LOCALITY}
  BY DEF SessionInv, TypeOK
<1>2. /\ crb'[l].crb_data_buffer = crb[l].crb_data_buffer
      /\ l # active_locality => crb'[l].granted = crb[l].granted
      /\ l = active_locality => crb'[l].granted
  BY <1>1, FinishFrame
<1>3. crb[l].granted \in BOOLEAN /\ (l = active_locality => crb[l].granted)
  BY <1>1 DEF SessionInv, GrantFollowsActive, Crb
<1> QED BY <1>2, <1>3

\* A call that fails, at whichever register the SST gave up, leaves the session
\* and every buffer as they were (handle_command, handle_locality_request).
THEOREM FailuresKeepSession == Spec => FailureKeepsSession
<1>1. SessionInv /\ [Next]_vars =>
        [call # NoCall /\ call' = NoCall /\ status' # "Ok" =>
           /\ UNCHANGED <<current_state, active_locality>>
           /\ \A l \in Locality :
                /\ crb'[l].granted = crb[l].granted
                /\ crb'[l].crb_data_buffer = crb[l].crb_data_buffer]_vars
  <2> SUFFICES ASSUME SessionInv, Next, call # NoCall, call' = NoCall,
                      status' # "Ok"
               PROVE  /\ UNCHANGED <<current_state, active_locality>>
                      /\ \A l \in Locality :
                           /\ crb'[l].granted = crb[l].granted
                           /\ crb'[l].crb_data_buffer = crb[l].crb_data_buffer
    OBVIOUS
  <2>1. SstReturns
    BY DEF Next, init, deinit, HostWrite, ffa_msg_send_direct_req2
  <2>2. PICK code \in ErrorCode : command_returns(code) \/ locality_returns(code)
    BY <2>1 DEF SstReturns
  <2>3. Finish(convert_error_to_status(code), current_state, active_locality, crb)
    BY <2>2, FailedReturn
  <2>4. UNCHANGED <<current_state, active_locality>>
    BY <2>3 DEF Finish
  <2> QED BY <2>3, <2>4, UnchangedSession
<1> QED BY <1>1, AlwaysSession, PTL DEF Spec, FailureKeepsSession

\* No request for one locality, and no failure, changes another locality's
\* buffer or granted bit.
THEOREM LocalitiesAreIsolated == Spec => LocalitiesIsolated
<1> DEFINE Kept(l) ==
      \/ call # NoCall /\ call.locality = l
      \/ /\ crb'[l].granted = crb[l].granted
         /\ crb'[l].crb_data_buffer \in {crb[l].crb_data_buffer, "command"}
<1>1. SessionInv /\ [Next]_vars =>
        [phase' \in {phase, "down"} => \A l \in Locality : Kept(l)]_vars
  <2> SUFFICES ASSUME SessionInv, Next, phase' \in {phase, "down"},
                      NEW l \in Locality
               PROVE  Kept(l)
    OBVIOUS
  <2>0. crb \in [Locality -> Crb]
    BY DEF SessionInv, TypeOK
  <2>1. CASE init \/ deinit
    BY <2>1 DEF init, deinit
  <2>2. CASE HostWrite
    BY <2>0, <2>2 DEF HostWrite, Crb
  <2>3. CASE \E r \in Requests : ffa_msg_send_direct_req2(r)
    <3>1. PICK r \in Requests : ffa_msg_send_direct_req2(r)
      BY <2>3
    <3>2. CASE crb' = crb
      BY <3>2
    <3>3. CASE \E code \in TpmStatus : Refuse(code)
      BY <3>3, UnchangedSession DEF Refuse
    <3>4. start_handler(r) => crb' = crb \/ \E code \in TpmStatus : Refuse(code)
      <4>1. {"InvArg", "Denied", "InvCrbCtrlData"} \subseteq TpmStatus
        BY DEF TpmStatus
      <4> QED BY <4>1 DEF start_handler, handle_command,
                          handle_locality_request, CallSst
    <3>5. ~start_handler(r) => crb' = crb
      BY <3>1 DEF ffa_msg_send_direct_req2, get_interface_version_handler,
                  get_feature_info_handler, register_handler,
                  unregister_handler, finish_handler, manage_locality_handler,
                  unknown_opcode, Answer
    <3> QED BY <3>2, <3>3, <3>4, <3>5
  <2>4. CASE SstReturns
    <3>1. PICK code \in ErrorCode : command_returns(code) \/ locality_returns(code)
      BY <2>4 DEF SstReturns
    <3>2. /\ call # NoCall
          /\ call \in [op : CommandOp \cup LocalityOp, locality : Locality]
      BY <3>1 DEF command_returns, locality_returns, CommandOp, LocalityOp,
                  NoCall, SessionInv, TypeOK
    <3> SUFFICES ASSUME call.locality # l
                 PROVE  /\ crb'[l].granted = crb[l].granted
                        /\ crb'[l].crb_data_buffer = crb[l].crb_data_buffer
      BY <3>2
    <3>3. ASSUME NEW st, NEW state \in TpmState,
                 NEW active \in Locality \cup {NO_ACTIVE_LOCALITY},
                 NEW c \in [Locality -> Crb], c[l] = crb[l],
                 active = l <=> active_locality = l,
                 Finish(st, state, active, c)
          PROVE  /\ crb'[l].granted = crb[l].granted
                 /\ crb'[l].crb_data_buffer = crb[l].crb_data_buffer
      <4>1. /\ crb'[l].crb_data_buffer = c[l].crb_data_buffer
            /\ l # active => crb'[l].granted = c[l].granted
            /\ l = active => crb'[l].granted
            /\ crb'[l] \in Crb
        BY <2>4, <3>3, FinishFrame, ReturnInv DEF SessionInv, TypeOK
      <4>2. crb[l].granted \in BOOLEAN /\ crb'[l].granted \in BOOLEAN
        BY <2>0, <4>1 DEF Crb
      <4>3. l = active_locality => crb[l].granted
        BY DEF SessionInv, GrantFollowsActive
      <4> QED BY <3>3, <4>1, <4>2, <4>3
    <3>4. /\ current_state \in TpmState
          /\ active_locality \in Locality \cup {NO_ACTIVE_LOCALITY}
      BY DEF SessionInv, TypeOK
    <3>5. CASE code # "Ok"
      <4>1. Finish(convert_error_to_status(code), current_state,
                   active_locality, crb)
        BY <3>1, <3>5 DEF command_returns, locality_returns, locality_active,
                          locality_crb
      <4> QED BY <2>0, <3>3, <3>4, <4>1
    <3>6. CASE code = "Ok" /\ command_returns(code)
      <4> DEFINE state == command_state(call.op)
                 buffer == command_buffer(call.op,
                                          crb[call.locality].crb_data_buffer)
                 c == [crb EXCEPT ![call.locality].crb_data_buffer = buffer]
      <4>1. Finish(convert_error_to_status(code), state, active_locality, c)
        BY <3>6 DEF command_returns
      <4>2. state \in TpmState
        BY <3>6 DEF command_returns, command_state, CommandOp, TpmState
      <4>3. buffer \in {"zero", "command", "response"}
        BY <2>0, <3>2 DEF command_buffer, Crb
      <4> HIDE DEF state, buffer
      <4>4. c \in [Locality -> Crb] /\ c[l] = crb[l]
        BY <2>0, <3>2, <4>3 DEF Crb
      <4> HIDE DEF c
      <4> QED BY <3>3, <3>4, <4>1, <4>2, <4>4
    <3>7. CASE code = "Ok" /\ locality_returns(code)
      <4> DEFINE active == locality_active(code)
                 c == locality_crb(code)
      <4>1. Finish(convert_error_to_status(code), current_state, active, c)
        BY <3>7 DEF locality_returns
      <4>2. active \in Locality \cup {NO_ACTIVE_LOCALITY}
        BY <3>2, <3>4 DEF locality_active
      <4>3. active # l /\ active_locality # l
        BY <3>2, <3>7, NoActive DEF SessionInv, CallAuthorised, locality_active
      <4>4. c \in [Locality -> Crb] /\ c[l] = crb[l]
        BY <2>0, <3>2, InitCrbType DEF locality_crb
      <4> HIDE DEF active, c
      <4> QED BY <3>3, <3>4, <4>1, <4>2, <4>3, <4>4
    <3> QED BY <3>1, <3>5, <3>6, <3>7
  <2> QED BY <2>1, <2>2, <2>3, <2>4 DEF Next
<1> QED BY <1>1, AlwaysSession, PTL DEF Spec, LocalitiesIsolated

\* Only calls for the active locality, and deinit, change its session: the
\* requests themselves, TF-A's closing of it included, and the host's stores
\* do not.
THEOREM SessionsHeld == Spec => SessionHeld
<1>1. SessionInv /\ [Next]_vars =>
        [/\ phase' = phase
         /\ active_locality # NO_ACTIVE_LOCALITY
         /\ call = NoCall \/ call.locality # active_locality
         => UNCHANGED <<current_state, active_locality>>]_vars
  <2> SUFFICES ASSUME SessionInv, Next, phase' = phase,
                      active_locality # NO_ACTIVE_LOCALITY,
                      call = NoCall \/ call.locality # active_locality
               PROVE  UNCHANGED <<current_state, active_locality>>
    OBVIOUS
  <2>1. CASE init \/ deinit
    BY <2>1 DEF init, deinit
  <2>2. CASE HostWrite
    BY <2>2 DEF HostWrite, service
  <2>3. CASE \E r \in Requests : ffa_msg_send_direct_req2(r)
    <3>1. PICK r \in Requests : ffa_msg_send_direct_req2(r)
      BY <2>3
    <3>2. CASE start_handler(r)
      BY <3>2 DEF start_handler, handle_command, handle_locality_request,
                  CallSst, Refuse, Finish, service
    <3>3. CASE ~start_handler(r)
      BY <3>1, <3>3 DEF ffa_msg_send_direct_req2, get_interface_version_handler,
                        get_feature_info_handler, register_handler,
                        unregister_handler, finish_handler,
                        manage_locality_handler, unknown_opcode, Answer
    <3> QED BY <3>2, <3>3
  <2>4. CASE SstReturns
    <3>1. call # NoCall
      BY <2>4 DEF SstReturns, command_returns, locality_returns, CommandOp,
                  LocalityOp, NoCall
    <3>2. call.locality = active_locality
      BY <3>1 DEF SessionInv, CallAuthorised
    <3> QED BY <3>1, <3>2
  <2> QED BY <2>1, <2>2, <2>3, <2>4 DEF Next
<1> QED BY <1>1, AlwaysSession, PTL DEF Spec, SessionHeld
=============================================================================
