---------------------------- MODULE NotifyProofs ----------------------------
(* Proofs about Notify, for every number of services, slots, tuples, bits. *)
EXTENDS Notify, TLAPS

\* What the decoding of a message guarantees of a request.
LEMMA RequestType ==
  ASSUME NEW r \in Requests \cup {NoRequest}
  PROVE  /\ r.count \in Nat
         /\ r.count <= NOTIFY_MAX_TUPLES_PER_REQ
         /\ r.src_id \in SrcId
         /\ r.receiver \in Uuid
         /\ \A i \in 1 .. r.count : r.notifications[i] \in Tuple
<1>1. CASE r = NoRequest
  BY <1>1, BoundsAssumption, DefaultsAssumption DEF NoRequest
<1>2. CASE r \in Requests
  <2>1. PICK msg \in Message : r = NotifyReq(msg)
    BY <1>2, MessagesAssumption DEF Requests
  <2>2. /\ msg.count \in Nat /\ msg.src_id \in SrcId /\ msg.receiver \in Uuid
        /\ msg.regs \in [1 .. NOTIFY_MAX_TUPLES_PER_REQ -> Tuple]
    BY DEF Message
  <2>3. CASE msg.count < NOTIFY_MAX_TUPLES_PER_REQ
    BY <2>1, <2>2, <2>3, BoundsAssumption DEF NotifyReq
  <2>4. CASE ~(msg.count < NOTIFY_MAX_TUPLES_PER_REQ)
    BY <2>1, <2>2, <2>4, BoundsAssumption DEF NotifyReq
  <2> QED BY <2>3, <2>4
<1> QED BY <1>1, <1>2

\* The empty table and the constants of the type definitions.
LEMMA DefaultsType ==
  /\ DefaultMapping \in NfyMapping
  /\ NoMappings \in [Slots -> NfyMapping]
  /\ NoSnapshot \in [mappings : [Services -> [Slots -> NfyMapping]],
                     bitmap : SUBSET Bits]
  /\ 1 \in Services
BY BoundsAssumption, DefaultsAssumption
DEF DefaultMapping, NfyMapping, NoMappings, NoSnapshot, Bits, NotifyType,
    Services

\* Answering a request restores the types of the handler's locals.
LEMMA RespondType ==
  ASSUME NEW code \in ErrorCode, Respond(code)
  PROVE  /\ pc' \in Labels /\ status' \in ErrorCode
         /\ req' \in Requests \cup {NoRequest} /\ entry_index' \in Services
         /\ next' \in Nat \ {0} /\ temp_mappings' \in [Slots -> NfyMapping]
         /\ temp_bitmap' \subseteq Bits
         /\ before' \in [mappings : [Services -> [Slots -> NfyMapping]],
                         bitmap : SUBSET Bits]
BY DefaultsType DEF Respond, Labels

\* An early return keeps the type invariant.
LEMMA RejectType ==
  ASSUME TypeOK, NEW code \in ErrorCode, Reject(code)
  PROVE  TypeOK'
BY RespondType DEF Reject, TypeOK

\* So does entering a loop on a well-typed table.
LEMMA EnterType ==
  ASSUME TypeOK, NEW r \in Requests, NEW e \in Services,
         NEW label \in Labels, entries' \in [Services -> NfyEntry],
         Enter(label, r, e, entries')
  PROVE  TypeOK'
<1>1. entries'[e].mappings \in [Slots -> NfyMapping]
  BY DEF NfyEntry
<1>2. Snapshot \in [mappings : [Services -> [Slots -> NfyMapping]],
                    bitmap : SUBSET Bits]
  BY DEF TypeOK, Snapshot, NfyEntry
<1> QED BY <1>1, <1>2 DEF TypeOK, Enter

\* What retargeting one mapping does to the table, field by field.
LEMMA RetargetFields ==
  ASSUME entries \in [Services -> NfyEntry], entry_index \in Services,
         NEW m \in Slots, NEW id \in Bits, NEW ntype \in NotifyType,
         NEW es, es = retarget(m, id, ntype)
  PROVE  /\ es \in [Services -> NfyEntry]
         /\ \A e \in Services :
              /\ es[e].in_use = entries[e].in_use
              /\ es[e].service_uuid = entries[e].service_uuid
         /\ \A e \in Services, n \in Slots :
              /\ es[e].mappings[n].in_use = entries[e].mappings[n].in_use
              /\ es[e].mappings[n].cookie = entries[e].mappings[n].cookie
              /\ es[e].mappings[n].src_id = entries[e].mappings[n].src_id
              /\ es[e].mappings[n].id = IF e = entry_index /\ n = m
                   THEN id ELSE entries[e].mappings[n].id
<1> DEFINE old == entries[entry_index].mappings
           new == [old EXCEPT ![m].id = id, ![m].ntype = ntype]
<1>1. /\ entries[entry_index] \in NfyEntry /\ old \in [Slots -> NfyMapping]
      /\ old[m] \in NfyMapping
  BY DEF NfyEntry
<1>2. /\ new \in [Slots -> NfyMapping]
      /\ \A n \in Slots :
           /\ new[n].in_use = old[n].in_use /\ new[n].cookie = old[n].cookie
           /\ new[n].src_id = old[n].src_id
           /\ new[n].id = IF n = m THEN id ELSE old[n].id
  BY <1>1 DEF NfyMapping
<1>3. es = [entries EXCEPT ![entry_index].mappings = new]
  BY <1>1 DEF retarget
<1> HIDE DEF new
<1> QED BY <1>1, <1>2, <1>3 DEF NfyEntry

-----------------------------------------------------------------------------
(* Type correctness.                                                       *)

LEMMA InitType == Init => TypeOK
<1> SUFFICES ASSUME Init PROVE TypeOK
  OBVIOUS
<1>1. entries \in [Services -> NfyEntry]
  BY DefaultsType, DefaultsAssumption DEF Init, NfyEntry
<1>2. /\ global_bitmap \subseteq Bits /\ temp_bitmap \subseteq Bits
      /\ pc \in Labels /\ status \in ErrorCode /\ next \in Nat \ {0}
  BY DEF Init, Labels, ErrorCode
<1> QED BY <1>1, <1>2, DefaultsType DEF Init, TypeOK

\* Receiving a request: it is refused, or the handler enters its loop.
LEMMA ReceiveType ==
  ASSUME TypeOK, NEW r \in Requests, Receive(r)
  PROVE  TypeOK'
<1> USE DEF Labels, ErrorCode
<1>1. CASE UnknownMessage(r)
  BY <1>1, RejectType DEF UnknownMessage
<1>2. CASE nfy_setup(r)
  <2>1. CASE Reject("InvalidParameters") \/ Reject("NoMemory")
    BY <2>1, RejectType
  <2>2. ASSUME NEW e \in Services, Enter("register", r, e, entries'),
               find_or_create_entry(r.receiver, e, entries')
        PROVE  TypeOK'
    <3>1. [service_uuid |-> r.receiver, in_use |-> TRUE,
           mappings |-> NoMappings] \in NfyEntry
      BY RequestType, DefaultsType DEF NfyEntry
    <3>2. entries' \in [Services -> NfyEntry]
      BY <2>2, <3>1 DEF find_or_create_entry, TypeOK
    <3> QED BY <2>2, <3>2, EnterType
  <2> QED BY <1>2, <2>1, <2>2 DEF nfy_setup
<1>3. ASSUME NEW ids, NEW label \in Labels, WithEntry(r, ids, label)
      PROVE  TypeOK'
  <2>1. CASE Reject("InvalidParameters")
    BY <2>1, RejectType
  <2>2. ASSUME NEW e \in Services, Enter(label, r, e, entries),
               UNCHANGED entries
        PROVE  TypeOK'
    <3>1. entries' \in [Services -> NfyEntry] /\ Enter(label, r, e, entries')
      BY <2>2 DEF TypeOK
    <3> QED BY <3>1, EnterType
  <2> QED BY <1>3, <2>1, <2>2 DEF WithEntry
<1>4. CASE nfy_unassign(r)
  <2>1. CASE Reject("InvalidParameters")
    BY <2>1, RejectType
  <2>2. ASSUME NEW e \in Services, UNCHANGED entries,
               Enter("unassign_apply", r, e, entries)
        PROVE  TypeOK'
    <3>1. /\ entries' \in [Services -> NfyEntry]
          /\ Enter("unassign_apply", r, e, entries')
      BY <2>2 DEF TypeOK
    <3> QED BY <3>1, EnterType
  <2> QED BY <1>4, <2>1, <2>2 DEF nfy_unassign
<1> QED
  BY <1>1, <1>2, <1>3, <1>4 DEF Receive, nfy_destroy, nfy_assign

\* A pass of a loop, or the end of one.
LEMMA HandleType ==
  ASSUME TypeOK, Validated, Handle
  PROVE  TypeOK'
<1> USE DEF Labels, ErrorCode
<1>1. /\ req.count \in Nat /\ req.src_id \in SrcId
      /\ \A i \in 1 .. req.count : req.notifications[i] \in Tuple
  BY RequestType DEF TypeOK
<1>2. ASSUME next <= req.count
      PROVE  req.notifications[next] \in Tuple
  BY <1>1, <1>2 DEF TypeOK
<1>3. CASE Reject("InvalidParameters") \/ Reject("NoMemory")
  BY <1>3, RejectType
<1>4. CASE nfy_register_mapping
  <2>1. ASSUME NEW m \in Slots, NEW t \in Tuple, nfy_bitmask_ok(t.id),
               temp_mappings' = [temp_mappings EXCEPT ![m] =
                  [cookie |-> t.cookie, id |-> t.id, ntype |-> t.ntype,
                   src_id |-> req.src_id, in_use |-> TRUE]],
               temp_bitmap' = temp_bitmap \cup {t.id}, next' = next + 1,
               UNCHANGED <<entries, global_bitmap, pc, status, loopVars>>
        PROVE  TypeOK'
    <3>1. t.id \in Bits
      BY <2>1, BoundsAssumption DEF nfy_bitmask_ok, Bits, Tuple
    <3>2. [cookie |-> t.cookie, id |-> t.id, ntype |-> t.ntype,
           src_id |-> req.src_id, in_use |-> TRUE] \in NfyMapping
      BY <1>1, <3>1 DEF NfyMapping, Tuple
    <3> QED BY <2>1, <3>1, <3>2 DEF TypeOK, loopVars
  <2> QED BY <1>2, <1>3, <1>4, <2>1 DEF nfy_register_mapping, register_conflict
<1>5. CASE nfy_unregister_mapping
  <2>1. ASSUME NEW m \in Slots,
               temp_mappings' = [temp_mappings EXCEPT ![m] = DefaultMapping],
               temp_bitmap' = temp_bitmap \ {temp_mappings[m].id},
               next' = next + 1,
               UNCHANGED <<entries, global_bitmap, pc, status, loopVars>>
        PROVE  TypeOK'
    BY <2>1, DefaultsType DEF TypeOK, loopVars
  <2> QED BY <1>3, <1>5, <2>1 DEF nfy_unregister_mapping
<1>6. CASE commit_temp
  <2>1. entries' \in [Services -> NfyEntry]
    BY <1>6 DEF commit_temp, TypeOK, NfyEntry
  <2> QED BY <1>6, <2>1, RespondType DEF commit_temp, TypeOK
<1>7. CASE nfy_assign_check
  <2>1. ASSUME NEW t \in Tuple, nfy_bitmask_ok(t.id), NEW m \in Slots,
               temp_bitmap' = (temp_bitmap \ {entries[entry_index].mappings[m].id})
                                 \cup {t.id},
               next' = next + 1,
               UNCHANGED <<entries, global_bitmap, pc, temp_mappings, status,
                           loopVars>>
        PROVE  TypeOK'
    <3>1. t.id \in Bits
      BY <2>1, BoundsAssumption DEF nfy_bitmask_ok, Bits, Tuple
    <3> QED BY <2>1, <3>1 DEF TypeOK, loopVars
  <2> QED BY <1>2, <1>3, <1>7, <2>1 DEF nfy_assign_check
<1>8. CASE nfy_assign_validated
  BY <1>8 DEF nfy_assign_validated, TypeOK, loopVars
<1>9. CASE nfy_unassign_apply
  <2>1. 0 \in Bits /\ "Global" \in NotifyType
    BY BoundsAssumption DEF Bits, NotifyType
  <2>2. entries' \in [Services -> NfyEntry]
    BY <1>9, <2>1, RetargetFields DEF nfy_unassign_apply, TypeOK
  <2> QED BY <1>9, <2>2 DEF nfy_unassign_apply, TypeOK, loopVars
<1>10. CASE commit_bitmap
  BY <1>10, RespondType DEF commit_bitmap, TypeOK
<1>11. CASE nfy_assign_apply
  <2>1. /\ req.notifications[next].id \in Bits
        /\ req.notifications[next].ntype \in NotifyType
    BY <1>2, <1>11 DEF nfy_assign_apply, Validated, TypeOK, Tuple
  <2>2. entries' \in [Services -> NfyEntry]
    BY <1>11, <2>1, RetargetFields DEF nfy_assign_apply, TypeOK
  <2> QED BY <1>11, <2>2 DEF nfy_assign_apply, TypeOK, loopVars
<1> QED
  BY <1>4, <1>5, <1>6, <1>7, <1>8, <1>9, <1>10, <1>11 DEF Handle

-----------------------------------------------------------------------------
(* What the validating loops establish stays true until the second loops.  *)

\* Retargeting a mapping does not change which slots a cookie is found in.
LEMMA RetargetFinds ==
  ASSUME entries \in [Services -> NfyEntry], entry_index \in Services,
         NEW m \in Slots, NEW id \in Bits, NEW ntype \in NotifyType,
         entries' = retarget(m, id, ntype)
  PROVE  \A e \in Services : \A c : nfy_find_matching_cookie(e, c)'
                                   = nfy_find_matching_cookie(e, c)
BY RetargetFields DEF nfy_find_matching_cookie

\* Between requests there is nothing to validate.
LEMMA IdleValidated ==
  ASSUME NEW code, Respond(code)
  PROVE  Validated'
BY DEF Respond, Validated, NoRequest

LEMMA ReceiveValidated ==
  ASSUME NEW r \in Requests, Receive(r)
  PROVE  Validated'
<1>1. r.count \in Nat
  BY RequestType
<1>2. ASSUME NEW code, Reject(code)
      PROVE  Validated'
  BY <1>2, IdleValidated DEF Reject
<1>3. CASE UnknownMessage(r)
  BY <1>2, <1>3 DEF UnknownMessage
<1>4. CASE nfy_setup(r)
  <2>1. ASSUME NEW e \in Services, NEW es, Enter("register", r, e, es)
        PROVE  Validated'
    BY <1>1, <2>1 DEF Enter, Validated
  <2> QED BY <1>2, <1>4, <2>1 DEF nfy_setup
<1>5. CASE nfy_destroy(r)
  <2>1. ASSUME NEW e \in Services, NEW es, Enter("unregister", r, e, es)
        PROVE  Validated'
    BY <1>1, <2>1 DEF Enter, Validated
  <2> QED BY <1>2, <1>5, <2>1 DEF nfy_destroy, WithEntry
<1>6. CASE nfy_assign(r)
  <2>1. ASSUME NEW e \in Services, NEW es, r.msg_id \in {"Assign"},
               Enter("assign_check", r, e, es)
        PROVE  Validated'
    BY <1>1, <2>1 DEF Enter, Validated
  <2> QED BY <1>2, <1>6, <2>1 DEF nfy_assign, WithEntry
<1>7. CASE nfy_unassign(r)
  <2>1. ASSUME NEW e \in Services, Enter("unassign_apply", r, e, entries),
               UNCHANGED entries,
               \A i \in 1 .. r.count : nfy_find_matching_cookie(
                              e, r.notifications[i].cookie) # {}
        PROVE  Validated'
    BY <1>1, <2>1
    DEF Enter, Validated, Known, nfy_find_matching_cookie
  <2> QED BY <1>2, <1>7, <2>1 DEF nfy_unassign
<1> QED BY <1>3, <1>4, <1>5, <1>6, <1>7 DEF Receive

LEMMA HandleValidated ==
  ASSUME TypeOK, Validated, Handle
  PROVE  Validated'
<1>1. /\ req.count \in Nat /\ next \in Nat \ {0}
      /\ \A i \in 1 .. req.count : req.notifications[i] \in Tuple
  BY RequestType DEF TypeOK
<1>2. ASSUME NEW code, Reject(code)
      PROVE  Validated'
  BY <1>2, IdleValidated DEF Reject
<1>3. CASE nfy_register_mapping
  BY <1>1, <1>2, <1>3 DEF nfy_register_mapping, Validated, loopVars
<1>4. CASE nfy_unregister_mapping
  BY <1>1, <1>2, <1>4 DEF nfy_unregister_mapping, Validated, loopVars
<1>5. CASE commit_temp
  BY <1>5, IdleValidated DEF commit_temp
<1>6. CASE nfy_assign_check
  <2>1. ASSUME next <= req.count, nfy_bitmask_ok(req.notifications[next].id),
               NEW m \in Slots,
               IsFirst(m, nfy_find_matching_cookie(entry_index,
                                 req.notifications[next].cookie)),
               pc = "assign_check", next' = next + 1,
               UNCHANGED <<entries, global_bitmap, pc, temp_mappings, status,
                           loopVars>>
        PROVE  Validated'
    <3>1. req.notifications[next].id \in Bits
      BY <1>1, <2>1, BoundsAssumption DEF nfy_bitmask_ok, Bits, Tuple
    <3>2. Known(next)
      BY <2>1 DEF Known, IsFirst
    <3>3. \A i \in 1 .. next : Known(i) /\ req.notifications[i].id \in Bits
      BY <1>1, <2>1, <3>1, <3>2 DEF Validated
    <3>4. \A i \in 1 .. next' - 1 : Known(i)' /\ req'.notifications[i].id \in Bits
      BY <1>1, <2>1, <3>3 DEF Known, nfy_find_matching_cookie, loopVars
    <3> QED BY <1>1, <2>1, <3>4 DEF Validated, loopVars
  <2> QED BY <1>2, <1>6, <2>1 DEF nfy_assign_check
<1>7. CASE nfy_assign_validated
  <2>1. \A i \in 1 .. req.count : Known(i) /\ req.notifications[i].id \in Bits
    BY <1>1, <1>7 DEF nfy_assign_validated, Validated
  <2>2. \A i \in 1 .. req'.count : Known(i)' /\ req'.notifications[i].id \in Bits
    BY <1>7, <2>1
    DEF nfy_assign_validated, Known, nfy_find_matching_cookie, loopVars
  <2> QED BY <1>1, <1>7, <2>2 DEF nfy_assign_validated, Validated, loopVars
<1>8. ASSUME NEW m \in Slots, NEW id \in Bits, NEW ntype \in NotifyType,
             pc \in {"assign_apply", "unassign_apply"}, next <= req.count,
             entries' = retarget(m, id, ntype), next' = next + 1,
             UNCHANGED <<pc, loopVars>>
      PROVE  Validated'
  <2>1. \A i : Known(i)' <=> Known(i)
    BY <1>8, RetargetFinds DEF Known, TypeOK, loopVars
  <2> QED BY <1>1, <1>8, <2>1 DEF Validated, loopVars
<1>9. CASE nfy_assign_apply
  <2>1. /\ req.notifications[next].id \in Bits
        /\ req.notifications[next].ntype \in NotifyType
    BY <1>1, <1>9 DEF nfy_assign_apply, Validated, Tuple
  <2> QED BY <1>8, <1>9, <2>1 DEF nfy_assign_apply
<1>10. CASE nfy_unassign_apply
  <2>1. 0 \in Bits /\ "Global" \in NotifyType
    BY BoundsAssumption DEF Bits, NotifyType
  <2> QED BY <1>8, <1>10, <2>1 DEF nfy_unassign_apply
<1>11. CASE commit_bitmap
  BY <1>11, IdleValidated DEF commit_bitmap
<1> QED
  BY <1>3, <1>4, <1>5, <1>6, <1>7, <1>9, <1>10, <1>11 DEF Handle

\* Every step of the service keeps the types and what the loops validated.
LEMMA TypeStep == TypeOK /\ Validated /\ [Next]_vars => TypeOK' /\ Validated'
<1> SUFFICES ASSUME TypeOK, Validated, [Next]_vars
             PROVE  TypeOK' /\ Validated'
  OBVIOUS
<1>1. CASE \E r \in Requests : Receive(r)
  BY <1>1, ReceiveType, ReceiveValidated
<1>2. CASE Handle
  BY <1>2, HandleType, HandleValidated
<1>3. CASE UNCHANGED vars
  <2>1. TypeOK'
    BY <1>3 DEF TypeOK, vars
  <2>2. Validated'
    BY <1>3 DEF Validated, Known, nfy_find_matching_cookie, vars
  <2> QED BY <2>1, <2>2
<1> QED BY <1>1, <1>2, <1>3 DEF Next

LEMMA TypeInductive == Spec => [](TypeOK /\ Validated)
<1>1. Init => TypeOK /\ Validated
  BY InitType DEF Init, Validated, NoRequest
<1> QED BY <1>1, TypeStep, PTL DEF Spec

\* The tables stay well typed over every sequence of requests; in particular
\* every stored id is below the width of the bitmap, so that the unchecked shift
\* of nfy_unregister_mapping cannot overflow.
THEOREM TypeCorrect == Spec => []TypeOK
BY TypeInductive, PTL

\* The unwrap() calls of the second loops of Assign and Unassign never panic.
THEOREM UnwrapSafe == Spec => []NoUnwrapPanic
<1>1. TypeOK /\ Validated => NoUnwrapPanic
  <2> SUFFICES ASSUME TypeOK, Validated PROVE NoUnwrapPanic
    OBVIOUS
  <2>1. req.count \in Nat /\ next \in Nat \ {0}
    BY RequestType DEF TypeOK
  <2> QED BY <2>1 DEF Validated, Known, NoUnwrapPanic
<1> QED BY <1>1, TypeInductive, PTL

-----------------------------------------------------------------------------
(* One entry per service.                                                  *)

\* Only Setup and Add change which services the table names.
LEMMA NamesUnchanged ==
  ASSUME TypeOK, Validated, Handle
  PROVE  \A e \in Services : /\ entries'[e].in_use = entries[e].in_use
                             /\ entries'[e].service_uuid = entries[e].service_uuid
<1>1. CASE commit_temp
  BY <1>1 DEF commit_temp, TypeOK, NfyEntry
<1>2. CASE nfy_assign_apply
  <2>1. /\ req.notifications[next].id \in Bits
        /\ req.notifications[next].ntype \in NotifyType
    BY <1>2, RequestType DEF nfy_assign_apply, Validated, Tuple, TypeOK
  <2> QED BY <1>2, <2>1, RetargetFields DEF nfy_assign_apply, TypeOK
<1>3. CASE nfy_unassign_apply
  <2>1. 0 \in Bits /\ "Global" \in NotifyType
    BY BoundsAssumption DEF Bits, NotifyType
  <2> QED BY <1>3, <2>1, RetargetFields DEF nfy_unassign_apply, TypeOK
<1> QED
  BY <1>1, <1>2, <1>3
  DEF Handle, nfy_register_mapping, nfy_unregister_mapping, nfy_assign_check,
      nfy_assign_validated, commit_bitmap, Reject

LEMMA OneEntryStep ==
  TypeOK /\ Validated /\ OneEntryPerService /\ [Next]_vars
    => OneEntryPerService'
<1> SUFFICES ASSUME TypeOK, Validated, OneEntryPerService, [Next]_vars
             PROVE  OneEntryPerService'
  OBVIOUS
<1>1. ASSUME NEW r \in Requests, nfy_setup(r)
      PROVE  OneEntryPerService'
  <2>1. CASE UNCHANGED entries
    BY <2>1 DEF OneEntryPerService
  <2>2. ASSUME NEW e \in Services, nfy_find_entry(r.receiver) = {},
               entries' = [entries EXCEPT ![e] =
                             [service_uuid |-> r.receiver, in_use |-> TRUE,
                              mappings |-> NoMappings]]
        PROVE  OneEntryPerService'
    <3>1. \A x \in Services :
            entries[x].in_use => entries[x].service_uuid # r.receiver
      BY <2>2 DEF nfy_find_entry
    <3> QED BY <2>2, <3>1 DEF OneEntryPerService, TypeOK
  <2> QED
    BY <1>1, <2>1, <2>2 DEF nfy_setup, find_or_create_entry, Reject
<1>2. ASSUME NEW r \in Requests, Receive(r), ~nfy_setup(r)
      PROVE  UNCHANGED entries
  BY <1>2 DEF Receive, UnknownMessage, nfy_destroy, nfy_assign, WithEntry,
              nfy_unassign, Reject
<1>3. CASE Handle
  BY <1>3, NamesUnchanged DEF OneEntryPerService
<1>4. CASE UNCHANGED entries
  BY <1>4 DEF OneEntryPerService
<1> QED BY <1>1, <1>2, <1>3, <1>4 DEF Next, vars

\* No sequence of requests, failed ones included, registers a service twice.
THEOREM OneEntry == Spec => []OneEntryPerService
<1>1. Init => OneEntryPerService
  BY DEF Init, OneEntryPerService
<1> QED BY <1>1, OneEntryStep, TypeInductive, PTL DEF Spec

-----------------------------------------------------------------------------
(* Failed requests change nothing.                                         *)

\* A handler that fails after it entered a loop does so from a loop that works
\* on copies, and leaves the tables alone.
LEMMA FailureUntouched ==
  ASSUME Untouched, Handle, pc' = "idle", status' # "Ok"
  PROVE  Snapshot' = before
<1>1. /\ pc \in {"register", "unregister", "assign_check"}
      /\ UNCHANGED <<entries, global_bitmap>>
  BY DEF Handle, nfy_register_mapping, nfy_unregister_mapping, commit_temp,
         nfy_assign_check, nfy_assign_validated, nfy_assign_apply,
         nfy_unassign_apply, commit_bitmap, Respond, Reject
<1> QED BY <1>1 DEF Untouched, Snapshot

LEMMA UntouchedStep ==
  TypeOK /\ Validated /\ Untouched /\ [Next]_vars => Untouched'
<1> SUFFICES ASSUME TypeOK, Validated, Untouched, [Next]_vars
             PROVE  Untouched'
  OBVIOUS
<1>1. ASSUME UNCHANGED entries, pc' = "idle"
      PROVE  Untouched'
  BY <1>1 DEF Untouched
<1>2. ASSUME UNCHANGED <<entries, global_bitmap, pc, before, entry_index>>
      PROVE  Untouched'
  BY <1>2 DEF Untouched, Snapshot
<1>3. ASSUME NEW label, NEW r, NEW e \in Services, UNCHANGED entries,
             e \in nfy_find_entry(r.receiver), Enter(label, r, e, entries)
      PROVE  Untouched'
  BY <1>3 DEF Enter, Untouched, Snapshot, nfy_find_entry
<1>4. ASSUME NEW r \in Requests, Receive(r)
      PROVE  Untouched'
  <2>1. ASSUME NEW e \in Services, e \in nfy_find_empty_slot,
               entries' = [entries EXCEPT ![e] =
                             [service_uuid |-> r.receiver, in_use |-> TRUE,
                              mappings |-> NoMappings]],
               Enter("register", r, e, entries')
        PROVE  Untouched'
    <3>1. entries[e].mappings = NoMappings
      BY <2>1 DEF nfy_find_empty_slot, Untouched
    <3>2. \A x \in Services : entries'[x].mappings = entries[x].mappings
      BY <2>1, <3>1 DEF TypeOK
    <3>3. \A x \in Services :
            ~entries'[x].in_use => entries'[x].mappings = NoMappings
      BY <2>1, <3>2 DEF Untouched, TypeOK
    <3>4. before' = Snapshot'
      BY <2>1, <3>2 DEF Enter, Snapshot
    <3>5. entries'[entry_index'].in_use
      BY <2>1 DEF Enter, TypeOK
    <3> QED BY <3>3, <3>4, <3>5 DEF Untouched
  <2>2. CASE nfy_setup(r)
    BY <1>1, <1>3, <2>1, <2>2
    DEF nfy_setup, find_or_create_entry, IsFirst, Reject, Respond
  <2>3. CASE UnknownMessage(r) \/ nfy_destroy(r) \/ nfy_assign(r)
               \/ nfy_unassign(r)
    BY <1>1, <1>3, <2>3
    DEF UnknownMessage, nfy_destroy, nfy_assign, nfy_unassign, WithEntry,
        IsFirst, Reject, Respond
  <2> QED BY <1>4, <2>2, <2>3 DEF Receive
<1>5. CASE Handle
  <2>1. CASE UNCHANGED <<entries, global_bitmap, pc, before, entry_index>>
    BY <2>1, <1>2
  <2>2. CASE UNCHANGED entries /\ pc' = "idle"
    BY <2>2, <1>1
  <2>3. CASE nfy_assign_validated
    BY <2>3 DEF nfy_assign_validated, Untouched, loopVars
  <2>4. CASE commit_temp \/ nfy_assign_apply \/ nfy_unassign_apply
    <3>1. /\ pc # "idle"
          /\ pc' \in {"idle", "assign_apply", "unassign_apply"}
          /\ pc' # "idle" => entry_index' = entry_index
      BY <2>4
      DEF commit_temp, nfy_assign_apply, nfy_unassign_apply, Respond, loopVars
    <3>2. \A e \in Services \ {entry_index} : entries'[e] = entries[e]
      BY <2>4
      DEF commit_temp, nfy_assign_apply, nfy_unassign_apply, retarget, TypeOK
    <3>3. entries[entry_index].in_use /\ entries'[entry_index].in_use
      BY <1>5, <3>1, NamesUnchanged DEF Untouched, TypeOK
    <3> QED BY <3>1, <3>2, <3>3 DEF Untouched, TypeOK
  <2> QED
    BY <1>5, <2>1, <2>2, <2>3, <2>4
    DEF Handle, nfy_register_mapping, nfy_unregister_mapping, nfy_assign_check,
        commit_bitmap, Reject, Respond, loopVars
<1> QED BY <1>4, <1>5, <1>2 DEF Next, vars

LEMMA UntouchedInductive == Spec => []Untouched
<1>1. Init => Untouched
  BY DEF Init, Untouched
<1> QED BY <1>1, UntouchedStep, TypeInductive, PTL DEF Spec

\* A request that fails, at whichever of its tuples, leaves every mapping and
\* the bitmap as they were when it arrived.
THEOREM FailedRequestsChangeNothing == Spec => AllOrNothing
<1>1. Untouched /\ [Next]_vars =>
        [pc # "idle" /\ pc' = "idle" /\ status' # "Ok"
           => Snapshot' = before]_vars
  <2> SUFFICES ASSUME Untouched, Next, pc # "idle", pc' = "idle",
                      status' # "Ok"
               PROVE  Snapshot' = before
    BY DEF vars
  <2>1. ~ \E r \in Requests : Receive(r)
    BY DEF Receive, UnknownMessage, nfy_setup, nfy_destroy, nfy_assign,
           nfy_unassign, WithEntry
  <2> QED BY <2>1, FailureUntouched DEF Next
<1> QED BY <1>1, UntouchedInductive, PTL DEF Spec, AllOrNothing

-----------------------------------------------------------------------------
(* Mappings are freed by their owners only.                                *)

LEMMA CopyStep == TypeOK /\ CopyInv /\ [Next]_vars => CopyInv'
<1> SUFFICES ASSUME TypeOK, CopyInv, [Next]_vars PROVE CopyInv'
  OBVIOUS
<1>1. ASSUME pc' \notin {"register", "unregister"}
      PROVE  CopyInv'
  BY <1>1 DEF CopyInv
<1>2. ASSUME NEW label, NEW r, NEW e \in Services, Enter(label, r, e, entries')
      PROVE  CopyInv'
  BY <1>2 DEF Enter, CopyInv
<1>3. ASSUME NEW r \in Requests, Receive(r)
      PROVE  CopyInv'
  <2>1. CASE nfy_setup(r)
    BY <1>1, <1>2, <2>1 DEF nfy_setup, Reject, Respond
  <2>2. CASE nfy_destroy(r)
    <3>1. ASSUME NEW e \in Services, Enter("unregister", r, e, entries),
                 UNCHANGED entries
          PROVE  CopyInv'
      BY <3>1 DEF Enter, CopyInv
    <3> QED BY <1>1, <2>2, <3>1 DEF nfy_destroy, WithEntry, Reject, Respond
  <2>3. CASE UnknownMessage(r) \/ nfy_assign(r) \/ nfy_unassign(r)
    BY <1>1, <2>3 DEF UnknownMessage, nfy_assign, nfy_unassign, WithEntry,
                      Enter, Reject, Respond
  <2> QED BY <1>3, <2>1, <2>2, <2>3 DEF Receive
<1>4. CASE nfy_register_mapping
  <2>1. ASSUME NEW m \in Slots, NEW mp, ~temp_mappings[m].in_use,
               temp_mappings' = [temp_mappings EXCEPT ![m] = mp],
               pc = "register", UNCHANGED <<entries, pc, entry_index, req>>
        PROVE  CopyInv'
    BY <2>1 DEF CopyInv, TypeOK
  <2> QED
    BY <1>1, <1>4, <2>1
    DEF nfy_register_mapping, free_slots, IsFirst, Reject, Respond, loopVars
<1>5. CASE nfy_unregister_mapping
  <2>1. ASSUME NEW m \in Slots, NEW mp, temp_mappings[m].src_id = req.src_id,
               temp_mappings' = [temp_mappings EXCEPT ![m] = mp],
               pc = "unregister", UNCHANGED <<entries, pc, entry_index, req>>
        PROVE  CopyInv'
    BY <2>1 DEF CopyInv, TypeOK
  <2> QED
    BY <1>1, <1>5, <2>1
    DEF nfy_unregister_mapping, unregister_match, Reject, Respond, loopVars
<1>6. CASE commit_temp \/ commit_bitmap \/ nfy_assign_check
             \/ nfy_assign_validated \/ nfy_assign_apply \/ nfy_unassign_apply
  BY <1>1, <1>6
  DEF commit_temp, commit_bitmap, nfy_assign_check, nfy_assign_validated,
      nfy_assign_apply, nfy_unassign_apply, Reject, Respond
<1>7. CASE UNCHANGED vars
  BY <1>7 DEF CopyInv, vars
<1> QED BY <1>3, <1>4, <1>5, <1>6, <1>7 DEF Next, Handle

LEMMA CopyInductive == Spec => []CopyInv
<1>1. Init => CopyInv
  BY DEF Init, CopyInv
<1> QED BY <1>1, CopyStep, TypeInductive, PTL DEF Spec

\* A mapping is freed only by a request of the endpoint that set it up, also
\* when a request repeats cookies or a service has a cookie twice.
THEOREM OwnersFree == Spec => OnlyOwnerFrees
<1> DEFINE A == \A e \in Services, m \in Slots :
                  /\ entries[e].mappings[m].in_use
                  /\ ~entries'[e].mappings[m].in_use
                  => entries[e].mappings[m].src_id = req.src_id
<1>1. TypeOK /\ Validated /\ Untouched /\ CopyInv /\ [Next]_vars => [A]_vars
  <2> SUFFICES ASSUME TypeOK, Validated, Untouched, CopyInv, Next PROVE A
    BY DEF vars
  <2>1. CASE UNCHANGED entries
    BY <2>1
  <2>2. ASSUME NEW r \in Requests, Receive(r)
        PROVE  A
    <3>1. ASSUME NEW e \in Services, e \in nfy_find_empty_slot,
                 entries' = [entries EXCEPT ![e] =
                               [service_uuid |-> r.receiver, in_use |-> TRUE,
                                mappings |-> NoMappings]]
          PROVE  A
      <4>1. entries[e].mappings = NoMappings
        BY <3>1 DEF nfy_find_empty_slot, Untouched
      <4> QED BY <3>1, <4>1 DEF TypeOK, NoMappings, DefaultMapping
    <3>2. CASE nfy_setup(r)
      BY <2>1, <3>1, <3>2 DEF nfy_setup, find_or_create_entry, IsFirst, Reject
    <3> QED
      BY <2>1, <2>2, <3>2
      DEF Receive, UnknownMessage, nfy_destroy, nfy_assign, nfy_unassign,
          WithEntry, Reject
  <2>3. CASE commit_temp
    <3>1. /\ pc \in {"register", "unregister"}
          /\ entries' = [entries EXCEPT ![entry_index].mappings = temp_mappings]
      BY <2>3 DEF commit_temp
    <3>2. \A m \in Slots :
            /\ entries[entry_index].mappings[m].in_use
            /\ ~temp_mappings[m].in_use
            => entries[entry_index].mappings[m].src_id = req.src_id
      BY <3>1 DEF CopyInv
    <3> QED BY <3>1, <3>2 DEF TypeOK, NfyEntry
  <2>4. CASE nfy_assign_apply
    <3>1. /\ req.notifications[next].id \in Bits
          /\ req.notifications[next].ntype \in NotifyType
      BY <2>4, RequestType DEF nfy_assign_apply, Validated, Tuple, TypeOK
    <3> QED BY <2>4, <3>1, RetargetFields DEF nfy_assign_apply, TypeOK
  <2>5. CASE nfy_unassign_apply
    <3>1. 0 \in Bits /\ "Global" \in NotifyType
      BY BoundsAssumption DEF Bits, NotifyType
    <3> QED BY <2>5, <3>1, RetargetFields DEF nfy_unassign_apply, TypeOK
  <2> HIDE DEF A
  <2> QED
    BY <2>1, <2>2, <2>3, <2>4, <2>5
    DEF Next, Handle, nfy_register_mapping, nfy_unregister_mapping,
        nfy_assign_check, nfy_assign_validated, commit_bitmap, Reject
<1> QED
  BY <1>1, TypeInductive, UntouchedInductive, CopyInductive, PTL
  DEF Spec, OnlyOwnerFrees

-----------------------------------------------------------------------------
(* The bitmap.                                                             *)

\* Taking bit i, which it holds, from mapping p.
LEMMA ReleaseBit ==
  ASSUME NEW S, NEW bm, NEW b, NEW i, NEW p, BitExact(S, bm, b),
         p \in S <=> i = b,
         NEW S2, \A q : q \in S2 <=> q \in S /\ q # p
  PROVE  BitExact(S2, bm \ {i}, b)
BY DEF BitExact

\* A slot that is not in use has the id 0 in the table and in the copy.
LEMMA FreeSlotsStep ==
  TypeOK /\ Validated /\ FreeSlotsClear /\ [Next]_vars => FreeSlotsClear'
<1> SUFFICES ASSUME TypeOK, Validated, FreeSlotsClear, [Next]_vars
             PROVE  FreeSlotsClear'
  OBVIOUS
<1> USE DEF FreeSlotsClear
<1>1. ASSUME NEW code, Respond(code), UNCHANGED entries
      PROVE  FreeSlotsClear'
  BY <1>1 DEF Respond, NoMappings, DefaultMapping
<1>2. ASSUME NEW label, NEW r, NEW e \in Services, UNCHANGED entries,
             Enter(label, r, e, entries)
      PROVE  FreeSlotsClear'
  BY <1>2 DEF Enter
<1>3. ASSUME NEW r \in Requests, Receive(r)
      PROVE  FreeSlotsClear'
  <2>1. ASSUME NEW e \in Services,
               entries' = [entries EXCEPT ![e] =
                             [service_uuid |-> r.receiver, in_use |-> TRUE,
                              mappings |-> NoMappings]],
               Enter("register", r, e, entries')
        PROVE  FreeSlotsClear'
    BY <2>1 DEF Enter, NoMappings, DefaultMapping, TypeOK
  <2>2. CASE nfy_setup(r)
    BY <1>1, <1>2, <2>1, <2>2 DEF nfy_setup, find_or_create_entry, Reject
  <2> QED
    BY <1>1, <1>2, <1>3, <2>2
    DEF Receive, UnknownMessage, nfy_destroy, nfy_assign, nfy_unassign,
        WithEntry, Reject
<1>4. CASE nfy_register_mapping \/ nfy_unregister_mapping
  <2>1. ASSUME NEW m \in Slots, NEW mp, mp.in_use \/ mp.id = 0,
               temp_mappings' = [temp_mappings EXCEPT ![m] = mp],
               UNCHANGED entries
        PROVE  FreeSlotsClear'
    BY <2>1 DEF TypeOK
  <2>2. CASE nfy_register_mapping
    BY <1>1, <2>1, <2>2 DEF nfy_register_mapping, Reject
  <2>3. CASE nfy_unregister_mapping
    BY <1>1, <2>1, <2>3 DEF nfy_unregister_mapping, Reject, DefaultMapping
  <2> QED BY <1>4, <2>2, <2>3
<1>5. CASE commit_temp
  <2>1. \A e \in Services, m \in Slots :
          ~entries'[e].mappings[m].in_use => entries'[e].mappings[m].id = 0
    BY <1>5 DEF commit_temp, TypeOK, NfyEntry
  <2> QED BY <1>5, <2>1 DEF commit_temp, Respond, NoMappings, DefaultMapping
<1>6. CASE nfy_assign_check \/ nfy_assign_validated \/ commit_bitmap
  BY <1>1, <1>6 DEF nfy_assign_check, nfy_assign_validated, commit_bitmap, Reject
<1>7. ASSUME NEW m \in Slots, NEW id \in Bits, NEW ntype \in NotifyType,
             entries[entry_index].mappings[m].in_use,
             entries' = retarget(m, id, ntype), UNCHANGED temp_mappings
      PROVE  FreeSlotsClear'
  <2>1. \A e \in Services, n \in Slots :
          /\ entries'[e].mappings[n].in_use = entries[e].mappings[n].in_use
          /\ entries'[e].mappings[n].id = IF e = entry_index /\ n = m
               THEN id ELSE entries[e].mappings[n].id
    BY <1>7, RetargetFields DEF TypeOK
  <2> QED BY <1>7, <2>1
<1>8. CASE nfy_assign_apply
  <2>1. /\ req.notifications[next].id \in Bits
        /\ req.notifications[next].ntype \in NotifyType
    BY <1>8, RequestType DEF nfy_assign_apply, Validated, Tuple, TypeOK
  <2> QED
    BY <1>7, <1>8, <2>1 DEF nfy_assign_apply, IsFirst, nfy_find_matching_cookie
<1>9. CASE nfy_unassign_apply
  <2>1. 0 \in Bits /\ "Global" \in NotifyType
    BY BoundsAssumption DEF Bits, NotifyType
  <2> QED
    BY <1>7, <1>9, <2>1 DEF nfy_unassign_apply, IsFirst, nfy_find_matching_cookie
<1>10. CASE UNCHANGED vars
  BY <1>10 DEF vars
<1> QED
  BY <1>3, <1>4, <1>5, <1>6, <1>8, <1>9, <1>10 DEF Next, Handle

LEMMA FreeSlotsInductive == Spec => []FreeSlotsClear
<1>1. Init => FreeSlotsClear
  BY DEF Init, FreeSlotsClear, NoMappings, DefaultMapping
<1> QED BY <1>1, FreeSlotsStep, TypeInductive, PTL DEF Spec

\* Between requests nothing is claimed of a bit.
LEMMA IdleBits ==
  ASSUME NEW b, NEW code, Respond(code)
  PROVE  BitInv(b)'
BY DEF Respond, BitInv

\* Within a request it does not change what it found, nor which of its tuples
\* repeat a cookie.
LEMMA BitFrame ==
  ASSUME NEW b, UNCHANGED loopVars, \A k, m : About(k, m)' <=> About(k, m)
  PROVE  (ExactBefore(b)' <=> ExactBefore(b)) /\ (Muddled(b)' <=> Muddled(b))
<1>1. UNCHANGED <<req, entry_index, before>>
  BY DEF loopVars
<1>2. ExactBefore(b)' <=> ExactBefore(b)
  BY <1>1 DEF ExactBefore, BitExact, Holders
<1> QED BY <1>1, <1>2 DEF Muddled

\* What the request found is what the tables held.
LEMMA SnapshotHolders ==
  ASSUME NEW b
  PROVE  Holders([e \in Services |-> [mappings |-> Snapshot.mappings[e]]], b)
           = Holders(entries, b)
BY DEF Holders, Snapshot

LEMMA ReceiveBits ==
  ASSUME TypeOK, Untouched, NEW b \in Bits \ {0}, NEW r \in Requests, Receive(r)
  PROVE  BitInv(b)'
<1>2. ASSUME NEW code, Reject(code)
      PROVE  BitInv(b)'
  BY <1>2, IdleBits DEF Reject
<1>3. ASSUME NEW label, NEW e \in Services, Enter(label, r, e, entries'),
             label \in Labels \ {"assign_apply"},
             entries' \in [Services -> NfyEntry],
             \A x \in Services : entries'[x].mappings = entries[x].mappings
      PROVE  BitInv(b)'
  <2>1. Holders(entries', b) = Holders(entries, b)
    BY <1>3 DEF Holders
  <2>2. ExactBefore(b)' => BitExact(Holders(entries', b), global_bitmap', b)
    <3>1. before' = Snapshot /\ global_bitmap' = global_bitmap
      BY <1>3 DEF Enter
    <3>2. before'.bitmap = global_bitmap
      BY <3>1 DEF Snapshot
    <3> DEFINE found == [x \in Services |-> [mappings |-> before'.mappings[x]]]
    <3>3. Holders(found, b) = Holders(entries, b)
      BY <3>1 DEF Holders, Snapshot
    <3>4. ExactBefore(b)' => BitExact(Holders(found, b), before'.bitmap, b)
      BY DEF ExactBefore
    <3> QED BY <2>1, <3>1, <3>2, <3>3, <3>4
  <2>3. /\ pc' = label /\ temp_bitmap' = global_bitmap' /\ next' = 1
        /\ entry_index' = e /\ temp_mappings' = entries'[e].mappings
    BY <1>3 DEF Enter
  <2>4. Holders(WithTemp', b) = Holders(entries', b)
    BY <1>3, <2>3 DEF WithTemp, Holders, NfyEntry
  <2>5. FutureHolders(b, 1)' = Holders(entries', b)
    BY DEF FutureHolders, Holders
  <2> QED BY <1>3, <2>2, <2>3, <2>4, <2>5 DEF BitInv
<1>4. ASSUME NEW label \in Labels \ {"assign_apply"}, NEW e \in Services,
             Enter(label, r, e, entries), UNCHANGED entries
      PROVE  BitInv(b)'
  BY <1>3, <1>4 DEF TypeOK
<1>5. ASSUME NEW e \in Services, e \in nfy_find_empty_slot,
             entries' = [entries EXCEPT ![e] =
                           [service_uuid |-> r.receiver, in_use |-> TRUE,
                            mappings |-> NoMappings]],
             Enter("register", r, e, entries')
      PROVE  BitInv(b)'
  <2>1. entries[e].mappings = NoMappings
    BY <1>5 DEF nfy_find_empty_slot, Untouched
  <2>2. \A x \in Services : entries'[x].mappings = entries[x].mappings
    BY <1>5, <2>1 DEF TypeOK
  <2>3. [service_uuid |-> r.receiver, in_use |-> TRUE,
         mappings |-> NoMappings] \in NfyEntry
    BY RequestType, DefaultsType DEF NfyEntry
  <2>4. entries' \in [Services -> NfyEntry]
    BY <1>5, <2>3 DEF TypeOK
  <2> QED BY <1>3, <1>5, <2>2, <2>4 DEF Labels
<1>6. CASE nfy_setup(r)
  BY <1>2, <1>4, <1>5, <1>6
  DEF nfy_setup, find_or_create_entry, IsFirst, Labels
<1> QED
  BY <1>2, <1>4, <1>6
  DEF Receive, UnknownMessage, nfy_destroy, nfy_assign, nfy_unassign,
      WithEntry, Labels

\* Registering and unregistering, in the copies.
LEMMA CopyBits ==
  ASSUME TypeOK, FreeSlotsClear, NEW b \in Bits \ {0}, BitInv(b),
         nfy_register_mapping \/ nfy_unregister_mapping
  PROVE  BitInv(b)'
<1> SUFFICES ASSUME pc' # "idle", ExactBefore(b)', ~Muddled(b)' PROVE BitInv(b)'
  BY DEF BitInv
<1>1. /\ pc \in {"register", "unregister"}
      /\ BitExact(Holders(WithTemp, b), temp_bitmap, b)
  <2>1. /\ pc \in {"register", "unregister"}
        /\ UNCHANGED <<entries, loopVars>>
    BY DEF nfy_register_mapping, nfy_unregister_mapping, Reject, Respond
  <2>2. \A k, m : About(k, m)' <=> About(k, m)
    BY <2>1 DEF About, nfy_find_matching_cookie, loopVars
  <2> QED BY <2>1, <2>2, BitFrame DEF BitInv
<1>2. ASSUME NEW code, Reject(code)
      PROVE  BitInv(b)'
  BY <1>2, IdleBits DEF Reject
<1>3. \A p \in Services \X Slots :
        p \in Holders(WithTemp, b) <=>
          IF p[1] = entry_index
            THEN temp_mappings[p[2]].in_use /\ temp_mappings[p[2]].id = b
            ELSE p \in Holders(entries, b)
  BY DEF Holders, WithTemp, TypeOK, NfyEntry
<1>4. ASSUME NEW m \in Slots, NEW mp,
             temp_mappings' = [temp_mappings EXCEPT ![m] = mp],
             UNCHANGED <<entries, entry_index>>
      PROVE  \A p \in Services \X Slots :
               p \in Holders(WithTemp', b) <=>
                 IF p = <<entry_index, m>> THEN mp.in_use /\ mp.id = b
                                          ELSE p \in Holders(WithTemp, b)
  BY <1>3, <1>4 DEF Holders, WithTemp, TypeOK, NfyEntry
<1>5. ASSUME pc' = pc, UNCHANGED <<entries, global_bitmap>>,
             BitExact(Holders(WithTemp', b), temp_bitmap', b)
      PROVE  BitInv(b)'
  BY <1>1, <1>5 DEF BitInv
<1>6. CASE nfy_register_mapping
  <2>1. ASSUME NEW m \in Slots, ~temp_mappings[m].in_use, NEW t,
               t.id \notin temp_bitmap, temp_bitmap' = temp_bitmap \cup {t.id},
               temp_mappings' = [temp_mappings EXCEPT ![m] =
                 [cookie |-> t.cookie, id |-> t.id, ntype |-> t.ntype,
                  src_id |-> req.src_id, in_use |-> TRUE]],
               UNCHANGED <<entries, global_bitmap, pc, entry_index>>
        PROVE  BitInv(b)'
    <3> DEFINE p == <<entry_index, m>>
    <3>1. p \in Services \X Slots /\ p \notin Holders(WithTemp, b)
      BY <1>3, <2>1 DEF TypeOK
    <3>2. \A q \in Services \X Slots : q \in Holders(WithTemp', b) <=>
            q \in Holders(WithTemp, b) \/ (q = p /\ t.id = b)
      BY <1>4, <2>1, <3>1
    <3>3. \A q : q \in Holders(WithTemp', b) <=>
            q \in Holders(WithTemp, b) \/ (q = p /\ t.id = b)
      BY <3>1, <3>2 DEF Holders
    <3> DEFINE i == t.id
               S2 == Holders(WithTemp', b)
    <3>4. /\ BitExact(Holders(WithTemp, b), temp_bitmap, b)
          /\ i \notin temp_bitmap /\ temp_bitmap' = temp_bitmap \cup {i}
          /\ \A q : q \in S2 <=> q \in Holders(WithTemp, b) \/ (q = p /\ i = b)
      BY <1>1, <2>1, <3>3
    <3> HIDE DEF p, i, S2
    <3>5. BitExact(S2, temp_bitmap \cup {i}, b)
      BY <3>4 DEF BitExact
    <3>6. BitExact(Holders(WithTemp', b), temp_bitmap', b)
      BY <3>4, <3>5 DEF S2
    <3> QED BY <1>5, <2>1, <3>6
  <2> QED
    BY <1>2, <1>6, <2>1
    DEF nfy_register_mapping, register_conflict, free_slots, IsFirst, loopVars
<1>7. CASE nfy_unregister_mapping
  <2>1. ASSUME NEW m \in Slots,
               temp_bitmap' = temp_bitmap \ {temp_mappings[m].id},
               temp_mappings' = [temp_mappings EXCEPT ![m] = DefaultMapping],
               UNCHANGED <<entries, global_bitmap, pc, entry_index>>
        PROVE  BitInv(b)'
    <3> DEFINE p == <<entry_index, m>>
    <3>1. p \in Services \X Slots
      BY DEF TypeOK
    <3>2. p \in Holders(WithTemp, b) <=> temp_mappings[m].id = b
      BY <1>3, <3>1 DEF FreeSlotsClear
    <3>3. \A q : q \in Holders(WithTemp', b) <=>
            q \in Holders(WithTemp, b) /\ q # p
      <4>1. \A q \in Services \X Slots : q \in Holders(WithTemp', b) <=>
              q \in Holders(WithTemp, b) /\ q # p
        BY <1>4, <2>1, <3>1 DEF DefaultMapping
      <4> QED BY <4>1 DEF Holders
    <3> HIDE DEF p
    <3>4. BitExact(Holders(WithTemp', b), temp_bitmap', b)
      BY <1>1, <2>1, <3>2, <3>3, ReleaseBit
    <3> QED BY <1>5, <2>1, <3>4
  <2> QED BY <1>2, <1>7, <2>1 DEF nfy_unregister_mapping, loopVars
<1> QED BY <1>6, <1>7

\* Unassigning, in the table and new_bitmap.
LEMMA UnassignBits ==
  ASSUME TypeOK, NEW b \in Bits \ {0}, BitInv(b), nfy_unassign_apply
  PROVE  BitInv(b)'
<1> SUFFICES ASSUME ExactBefore(b)', ~Muddled(b)' PROVE BitInv(b)'
  BY DEF BitInv
<1>1. PICK m \in Slots :
        /\ IsFirst(m, nfy_find_matching_cookie(
                       entry_index, req.notifications[next].cookie))
        /\ temp_bitmap' = temp_bitmap \ {entries[entry_index].mappings[m].id}
        /\ entries' = retarget(m, 0, "Global")
  BY DEF nfy_unassign_apply
<1>2. pc = "unassign_apply" /\ pc' = "unassign_apply"
  BY DEF nfy_unassign_apply
<1>3. 0 \in Bits /\ "Global" \in NotifyType
  BY BoundsAssumption DEF Bits, NotifyType
<1>4. \A e \in Services, n \in Slots :
        /\ entries'[e].mappings[n].in_use = entries[e].mappings[n].in_use
        /\ entries'[e].mappings[n].id = IF e = entry_index /\ n = m
             THEN 0 ELSE entries[e].mappings[n].id
  BY <1>1, <1>3, RetargetFields DEF TypeOK
<1> DEFINE p == <<entry_index, m>>
           i == entries[entry_index].mappings[m].id
<1>5. p \in Services \X Slots /\ entries[entry_index].mappings[m].in_use
  BY <1>1 DEF TypeOK, IsFirst, nfy_find_matching_cookie
<1>6. p \in Holders(entries, b) <=> i = b
  BY <1>5 DEF Holders
<1>7. \A q : q \in Holders(entries', b) <=> q \in Holders(entries, b) /\ q # p
  <2>1. \A q \in Services \X Slots :
          q \in Holders(entries', b) <=> q \in Holders(entries, b) /\ q # p
    BY <1>4, <1>5 DEF Holders
  <2> QED BY <2>1 DEF Holders
<1>8. BitExact(Holders(entries, b), temp_bitmap, b)
  <2>1. \A e \in Services : \A c : nfy_find_matching_cookie(e, c)'
                                   = nfy_find_matching_cookie(e, c)
    BY <1>1, <1>3, RetargetFinds DEF TypeOK
  <2>2. UNCHANGED loopVars
    BY DEF nfy_unassign_apply
  <2>3. \A k, n : About(k, n)' <=> About(k, n)
    BY <2>1, <2>2 DEF About, TypeOK, loopVars
  <2> QED BY <1>2, <2>2, <2>3, BitFrame DEF BitInv
<1>9. temp_bitmap' = temp_bitmap \ {i}
  BY <1>1
<1> HIDE DEF p, i
<1>10. BitExact(Holders(entries', b), temp_bitmap', b)
  BY <1>6, <1>7, <1>8, <1>9, ReleaseBit
<1> QED BY <1>2, <1>10 DEF BitInv

\* A cookie is found in one slot, and an earlier tuple about that slot names the
\* same cookie: in an Assign request, the bit that it asks for and the one that
\* the mapping had are not among those that are claimed to be exact.
LEMMA AboutOnce ==
  ASSUME TypeOK, req.msg_id = "Assign", NEW b, ~Muddled(b),
         NEW k \in 1 .. req.count, NEW m \in Slots, About(k, m)
  PROVE  /\ entries[entry_index].mappings[m].in_use
         /\ \A n \in Slots : About(k, n) => n = m
         /\ \A j \in 1 .. k - 1 : About(j, m) =>
              /\ req.notifications[j].id # b
              /\ before.mappings[entry_index][m].id # b
<1>1. entries[entry_index].mappings[m].in_use
  BY DEF About, IsFirst, nfy_find_matching_cookie
<1>2. \A n \in Slots : About(k, n) => n = m
  BY BoundsAssumption DEF About, IsFirst, Slots
<1>3. \A j \in 1 .. req.count : About(j, m) =>
        /\ req.notifications[j].cookie = entries[entry_index].mappings[m].cookie
        /\ req.notifications[k].cookie = entries[entry_index].mappings[m].cookie
  BY DEF About, IsFirst, nfy_find_matching_cookie
<1>4. req.count \in Nat
  BY RequestType DEF TypeOK
<1>5. ASSUME NEW j \in 1 .. k - 1, About(j, m)
      PROVE  /\ j \in 1 .. req.count /\ j < k
             /\ req.notifications[j].cookie = req.notifications[k].cookie
  BY <1>3, <1>4, <1>5
<1> QED BY <1>1, <1>2, <1>5 DEF Muddled

\* The validating loop of Assign: tuple next moves its mapping from the old bit
\* to the new one in the simulated bitmap.
LEMMA AssignCheckBits ==
  ASSUME TypeOK, Validated, Untouched, NEW b \in Bits \ {0}, BitInv(b),
         nfy_assign_check
  PROVE  BitInv(b)'
<1> SUFFICES ASSUME pc' # "idle", ExactBefore(b)', ~Muddled(b)' PROVE BitInv(b)'
  BY DEF BitInv
<1>0. ExactBefore(b) /\ ~Muddled(b)
  <2>1. UNCHANGED <<entries, loopVars>>
    BY DEF nfy_assign_check, Reject, Respond
  <2>2. \A k, m : About(k, m)' <=> About(k, m)
    BY <2>1 DEF About, nfy_find_matching_cookie, loopVars
  <2> QED BY <2>1, <2>2, BitFrame
<1>1. /\ pc = "assign_check" /\ next <= req.count
      /\ req.count \in Nat /\ next \in 1 .. req.count
      /\ req.msg_id = "Assign"
  BY RequestType DEF nfy_assign_check, TypeOK, Validated
<1>2. ASSUME NEW code, Reject(code)
      PROVE  BitInv(b)'
  BY <1>2, IdleBits DEF Reject
<1>3. ASSUME NEW m \in Slots, About(next, m), NEW t, t = req.notifications[next],
             NEW old, old = entries[entry_index].mappings[m].id,
             t.id \notin temp_bitmap \ {old},
             temp_bitmap' = (temp_bitmap \ {old}) \cup {t.id},
             next' = next + 1,
             UNCHANGED <<entries, global_bitmap, pc, loopVars>>
      PROVE  BitInv(b)'
  <2> DEFINE p == <<entry_index, m>>
             S == FutureHolders(b, next)
             S2 == FutureHolders(b, next + 1)
             i == t.id
  <2>1. /\ p \in Services \X Slots
        /\ entries[entry_index].mappings[m].in_use
        /\ \A n \in Slots : About(next, n) => n = m
        /\ \A j \in 1 .. next - 1 : About(j, m) =>
             req.notifications[j].id # b /\ old # b
    <3>1. before.mappings[entry_index][m].id = old
      BY <1>1, <1>3 DEF Untouched, Snapshot, TypeOK
    <3> QED BY <1>0, <1>1, <1>3, <3>1, AboutOnce DEF TypeOK
  <2>2. p \in S <=> old = b
    BY <1>3, <2>1 DEF FutureHolders
  <2>3. p \in S2 <=> i = b
    <3>1. /\ next \in 1 .. (next + 1) - 1
          /\ \A j \in 1 .. (next + 1) - 1 : j = next \/ j \in 1 .. next - 1
      BY <1>1
    <3> QED BY <1>3, <2>1, <3>1 DEF FutureHolders
  <2>4. \A q \in Services \X Slots : q # p => (q \in S2 <=> q \in S)
    <3> SUFFICES ASSUME NEW q \in Services \X Slots, q # p
                 PROVE  q \in S2 <=> q \in S
      OBVIOUS
    <3>1. ~(q[1] = entry_index /\ About(next, q[2]))
      BY <2>1
    <3>2. \A j \in 1 .. (next + 1) - 1 : j = next \/ j \in 1 .. next - 1
      BY <1>1
    <3>3. \A j \in 1 .. next - 1 : j \in 1 .. (next + 1) - 1
      BY <1>1
    <3> QED BY <3>1, <3>2, <3>3 DEF FutureHolders
  <2>5. \A q : q \in S2 <=> (q \in S /\ q # p) \/ (q = p /\ i = b)
    <3>1. \A q \in Services \X Slots :
            q \in S2 <=> (q \in S /\ q # p) \/ (q = p /\ i = b)
      BY <2>3, <2>4
    <3>2. S \subseteq Services \X Slots /\ S2 \subseteq Services \X Slots
      BY DEF FutureHolders
    <3> QED BY <2>1, <3>1, <3>2
  <2>6. BitExact(S, temp_bitmap, b)
    BY <1>0, <1>1 DEF BitInv
  <2>7. i \notin temp_bitmap \ {old}
    BY <1>3
  <2>8. BitExact(S2, (temp_bitmap \ {old}) \cup {i}, b)
    <3> HIDE DEF p, S, S2, i
    <3> QED BY <2>2, <2>5, <2>6, <2>7 DEF BitExact
  <2>9. FutureHolders(b, next)' = S2
    BY <1>3 DEF FutureHolders, About, nfy_find_matching_cookie, loopVars
  <2> QED BY <1>1, <1>3, <2>8, <2>9 DEF BitInv
<1>4. ASSUME NEW m \in Slots,
             IsFirst(m, nfy_find_matching_cookie(entry_index,
                                            req.notifications[next].cookie))
      PROVE  About(next, m)
  BY <1>4 DEF About
<1> QED BY <1>2, <1>3, <1>4 DEF nfy_assign_check

\* Between the loops of Assign nothing changes but the loop counter.
LEMMA AssignValidatedBits ==
  ASSUME TypeOK, Validated, NEW b \in Bits \ {0}, BitInv(b),
         nfy_assign_validated
  PROVE  BitInv(b)'
<1>1. /\ pc = "assign_check" /\ pc' = "assign_apply" /\ next' = 1
      /\ next = req.count + 1
  <2>1. /\ pc = "assign_check" /\ pc' = "assign_apply" /\ next' = 1
        /\ next > req.count
    BY DEF nfy_assign_validated
  <2>2. req.count \in Nat
    BY RequestType DEF TypeOK
  <2>3. next \in Nat /\ next <= req.count + 1
    BY DEF TypeOK, Validated
  <2>4. next = req.count + 1
    BY <2>1, <2>2, <2>3
  <2> QED BY <2>1, <2>4
<1>2. FutureHolders(b, req.count + 1)' = FutureHolders(b, next)
  BY <1>1 DEF nfy_assign_validated, FutureHolders, About,
              nfy_find_matching_cookie, loopVars
<1>3. ExactBefore(b)' /\ ~Muddled(b)' =>
        BitExact(FutureHolders(b, req.count + 1)', temp_bitmap', b)
  <2>1. UNCHANGED <<entries, loopVars>>
    BY DEF nfy_assign_validated
  <2>2. \A k, m : About(k, m)' <=> About(k, m)
    BY <2>1 DEF About, nfy_find_matching_cookie, loopVars
  <2> QED BY <1>1, <1>2, <2>1, <2>2, BitFrame DEF BitInv, nfy_assign_validated
<1> QED BY <1>1, <1>3 DEF BitInv

\* The second loop of Assign brings the table to what the first one simulated.
LEMMA AssignApplyBits ==
  ASSUME TypeOK, Validated, NEW b \in Bits \ {0}, BitInv(b), nfy_assign_apply
  PROVE  BitInv(b)'
<1> SUFFICES ASSUME ExactBefore(b)', ~Muddled(b)' PROVE BitInv(b)'
  BY DEF BitInv
<1> DEFINE t == req.notifications[next]
<1>1. /\ pc = "assign_apply" /\ pc' = "assign_apply" /\ req.count \in Nat
      /\ next \in 1 .. req.count /\ next' = next + 1
      /\ req.msg_id = "Assign"
      /\ UNCHANGED <<req, entry_index, temp_bitmap>>
  BY RequestType DEF nfy_assign_apply, TypeOK, Validated, loopVars
<1>2. PICK m \in Slots : /\ About(next, m)
                         /\ entries' = retarget(m, t.id, t.ntype)
  BY DEF nfy_assign_apply, About
<1>3. t.id \in Bits /\ t.ntype \in NotifyType
  BY <1>1, RequestType DEF Validated, Tuple, TypeOK
<1>4. \A e \in Services, n \in Slots :
        /\ entries'[e].mappings[n].in_use = entries[e].mappings[n].in_use
        /\ entries'[e].mappings[n].id = IF e = entry_index /\ n = m
             THEN t.id ELSE entries[e].mappings[n].id
  BY <1>2, <1>3, RetargetFields DEF TypeOK
<1>5. \A k, n : About(k, n)' <=> About(k, n)
  BY <1>1, <1>2, <1>3, RetargetFinds DEF About, TypeOK
<1>a. ExactBefore(b) /\ ~Muddled(b)
  <2>1. UNCHANGED loopVars
    BY DEF nfy_assign_apply
  <2> QED BY <1>5, <2>1, BitFrame
<1>6. /\ \A n \in Slots : About(next, n) => n = m
      /\ \A j \in 1 .. next - 1 : About(j, m) => req.notifications[j].id # b
  BY <1>1, <1>2, <1>a, AboutOnce
<1>7. FutureHolders(b, req.count + 1)' = FutureHolders(b, req.count + 1)
  <2>1. next \in 1 .. (req.count + 1) - 1
    BY <1>1
  <2>2. ASSUME NEW q \in Services \X Slots
        PROVE  q \in FutureHolders(b, req.count + 1)'
                 <=> q \in FutureHolders(b, req.count + 1)
    <3>1. CASE q[1] = entry_index /\ q[2] = m
      BY <1>1, <1>2, <1>4, <1>5, <2>1, <3>1 DEF FutureHolders
    <3>2. CASE ~(q[1] = entry_index /\ q[2] = m)
      BY <1>1, <1>4, <1>5, <3>2 DEF FutureHolders
    <3> QED BY <3>1, <3>2
  <2> QED BY <2>2 DEF FutureHolders
<1>8. BitExact(FutureHolders(b, req.count + 1)', temp_bitmap', b)
  BY <1>1, <1>7, <1>a DEF BitInv
<1>9. ASSUME NEW n \in Slots, \E k \in 1 .. next' - 1 : About(k, n)'
      PROVE  entries'[entry_index'].mappings[n].id = b <=>
               \E k \in 1 .. next' - 1 : About(k, n)' /\ req'.notifications[k].id = b
  <2>1. /\ next \in 1 .. next' - 1
        /\ \A k \in 1 .. next' - 1 : k = next \/ k \in 1 .. next - 1
        /\ \A k \in 1 .. next - 1 : k \in 1 .. next' - 1
    BY <1>1
  <2>2. CASE n = m
    <3>1. entries'[entry_index'].mappings[n].id = t.id
      BY <1>1, <1>4, <2>2 DEF TypeOK
    <3>2. (\E k \in 1 .. next' - 1 : About(k, n) /\ req.notifications[k].id = b)
            <=> t.id = b
      BY <1>2, <1>6, <2>1, <2>2
    <3> QED BY <1>1, <1>5, <3>1, <3>2
  <2>3. CASE n # m
    <3>1. \A k \in 1 .. next' - 1 : About(k, n) => k \in 1 .. next - 1
      BY <1>6, <2>1, <2>3
    <3>2. entries[entry_index].mappings[n].id = b <=>
            \E k \in 1 .. next - 1 : About(k, n) /\ req.notifications[k].id = b
      BY <1>1, <1>5, <1>9, <1>a, <3>1 DEF BitInv
    <3>3. entries'[entry_index'].mappings[n].id = entries[entry_index].mappings[n].id
      BY <1>1, <1>4, <2>3 DEF TypeOK
    <3> QED BY <1>1, <1>5, <2>1, <3>1, <3>2, <3>3
  <2> QED BY <2>2, <2>3
<1> QED BY <1>1, <1>8, <1>9 DEF BitInv

\* Registering and unregistering end by storing the copies.
LEMMA CommitTempBits ==
  ASSUME NEW b \in Bits \ {0}, BitInv(b), commit_temp,
         ExactBefore(b), ~Muddled(b)
  PROVE  BitExact(Holders(entries', b), global_bitmap', b)
BY DEF BitInv, commit_temp, WithTemp

\* Assign and Unassign end by storing the bitmap the table now agrees with.
LEMMA CommitBits ==
  ASSUME TypeOK, Validated, NEW b \in Bits \ {0}, BitInv(b), commit_bitmap,
         ExactBefore(b), ~Muddled(b)
  PROVE  BitExact(Holders(entries', b), global_bitmap', b)
<1>1. /\ pc \in {"assign_apply", "unassign_apply"} /\ next = req.count + 1
      /\ entries' = entries /\ global_bitmap' = temp_bitmap
  BY RequestType DEF commit_bitmap, TypeOK, Validated
<1>2. CASE pc = "unassign_apply"
  BY <1>1, <1>2 DEF BitInv
<1>3. CASE pc = "assign_apply"
  <2>1. \A m \in Slots : (\E k \in 1 .. next - 1 : About(k, m)) =>
          (entries[entry_index].mappings[m].id = b <=>
             \E k \in 1 .. next - 1 : About(k, m) /\ req.notifications[k].id = b)
    BY <1>3 DEF BitInv
  <2>2. ASSUME NEW q \in Services \X Slots
        PROVE  q \in FutureHolders(b, next) <=> q \in Holders(entries, b)
    <3>1. CASE \E k \in 1 .. next - 1 : q[1] = entry_index /\ About(k, q[2])
      BY <2>1, <3>1 DEF FutureHolders, Holders
    <3>2. CASE ~ \E k \in 1 .. next - 1 : q[1] = entry_index /\ About(k, q[2])
      BY <3>2 DEF FutureHolders, Holders
    <3> QED BY <3>1, <3>2
  <2>3. FutureHolders(b, next) = Holders(entries, b)
    BY <2>2 DEF FutureHolders, Holders
  <2> QED BY <1>1, <1>3, <2>3 DEF BitInv
<1> QED BY <1>1, <1>2, <1>3

\* A request that is rejected has changed neither the tables nor the bitmap.
LEMMA RejectBits ==
  ASSUME NEW b \in Bits \ {0}, ExactBefore(b), before = Snapshot,
         UNCHANGED <<entries, global_bitmap>>
  PROVE  BitExact(Holders(entries', b), global_bitmap', b)
<1>1. before.bitmap = global_bitmap
  BY DEF Snapshot
<1>2. BitExact(Holders([e \in Services |-> [mappings |-> Snapshot.mappings[e]]], b),
               global_bitmap, b)
  BY <1>1 DEF ExactBefore
<1> QED BY <1>2, SnapshotHolders

LEMMA BitStep ==
  ASSUME TypeOK, Validated, Untouched, FreeSlotsClear, [Next]_vars,
         NEW b \in Bits \ {0}, BitInv(b)
  PROVE  BitInv(b)'
<1>1. ASSUME NEW r \in Requests, Receive(r)
      PROVE  BitInv(b)'
  BY <1>1, ReceiveBits
<1>2. CASE Handle
  BY <1>2, CopyBits, AssignCheckBits, AssignValidatedBits, AssignApplyBits,
     UnassignBits, IdleBits DEF Handle, commit_temp, commit_bitmap
<1>3. CASE UNCHANGED vars
  <2>1. UNCHANGED <<entries, pc, next, temp_mappings, temp_bitmap, loopVars>>
    BY <1>3 DEF vars, loopVars
  <2>2. \A k, m : About(k, m)' <=> About(k, m)
    BY <2>1 DEF About, nfy_find_matching_cookie, loopVars
  <2>3. (ExactBefore(b)' <=> ExactBefore(b)) /\ (Muddled(b)' <=> Muddled(b))
    BY <2>1, <2>2, BitFrame
  <2>4. /\ WithTemp' = WithTemp
        /\ FutureHolders(b, next)' = FutureHolders(b, next)
        /\ FutureHolders(b, req.count + 1)' = FutureHolders(b, req.count + 1)
    BY <2>1 DEF WithTemp, FutureHolders, About, nfy_find_matching_cookie, loopVars
  <2> QED BY <2>1, <2>2, <2>3, <2>4 DEF BitInv, loopVars
<1> QED BY <1>1, <1>2, <1>3 DEF Next

\* For every table size, bitmap width and request: a bit but 0 that is set exactly
\* when one mapping holds it stays so, except for the bits that two tuples of one
\* Assign request with the same cookie muddle.
THEOREM BitmapStaysExact == Spec => BitmapKept
<1> DEFINE J == \A b \in Bits \ {0} : BitInv(b)
           A == pc # "idle" /\ pc' = "idle" =>
                  \A b \in Bits \ {0} :
                    ExactBefore(b) /\ ~Muddled(b) =>
                      BitExact(Holders(entries', b), global_bitmap', b)
<1>1. Init => J
  BY DEF Init, BitInv
<1>2. TypeOK /\ Validated /\ Untouched /\ FreeSlotsClear /\ J /\ [Next]_vars
        => J'
  BY BitStep
<1>3. TypeOK /\ Validated /\ Untouched /\ J /\ [Next]_vars => [A]_vars
  <2> SUFFICES ASSUME TypeOK, Validated, Untouched, J, Next,
                      pc # "idle", pc' = "idle",
                      NEW b \in Bits \ {0}, ExactBefore(b), ~Muddled(b)
               PROVE  BitExact(Holders(entries', b), global_bitmap', b)
    BY DEF vars
  <2>1. BitInv(b)
    OBVIOUS
  <2>2. CASE commit_temp
    BY <2>1, <2>2, CommitTempBits
  <2>3. CASE commit_bitmap
    BY <2>1, <2>3, CommitBits
  <2>4. CASE nfy_register_mapping \/ nfy_unregister_mapping \/ nfy_assign_check
    <3>1. before = Snapshot /\ UNCHANGED <<entries, global_bitmap>>
      BY <2>4 DEF nfy_register_mapping, nfy_unregister_mapping,
                  nfy_assign_check, Reject, Untouched
    <3> QED BY <3>1, RejectBits
  <2>5. ~ \E r \in Requests : Receive(r)
    BY DEF Receive, UnknownMessage, nfy_setup, nfy_destroy, nfy_assign,
           nfy_unassign, WithEntry
  <2>6. ~nfy_assign_validated /\ ~nfy_assign_apply /\ ~nfy_unassign_apply
    BY DEF nfy_assign_validated, nfy_assign_apply, nfy_unassign_apply
  <2> QED BY <2>2, <2>3, <2>4, <2>5, <2>6 DEF Next, Handle
<1> HIDE DEF J
<1> QED
  BY <1>1, <1>2, <1>3, TypeInductive, UntouchedInductive, FreeSlotsInductive,
     PTL DEF Spec, BitmapKept
=============================================================================
