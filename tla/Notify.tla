------------------------------- MODULE Notify -------------------------------
(***************************************************************************)
(* The Notify service (ec-service-lib/src/services/notify.rs): a table of  *)
(* receiver services, each with a table of notification mappings, and one  *)
(* global bitmap that is meant to keep two mappings off the same bit.      *)
(*                                                                         *)
(* A request carries up to NOTIFY_MAX_TUPLES_PER_REQ tuples.  Each pass of *)
(* a handler's loop over them is one step here, so that the intermediate   *)
(* copies (temp_entries, temp_bitmask, sim_bitmap, new_bitmap) and the     *)
(* early returns out of the middle of a loop are all visible.  The secure  *)
(* partition runs one request at a time: no other request is received      *)
(* before the current one is answered.                                     *)
(*                                                                         *)
(* A definition that stands before another with the same name and a suffix *)
(* (nfy_bitmask_ok_inclusive) is a faulty variant of it, which the         *)
(* properties tell apart from the code; the specification uses none.       *)
(***************************************************************************)
EXTENDS Naturals, Sequences

CONSTANTS
  Uuid,                       \* service UUIDs a request may name
  NilUuid,                    \* Uuid::nil(), the UUID of an unused entry
  Cookie,                     \* u32 cookies
  SrcId,                      \* u16 FF-A endpoint ids
  Messages,                   \* the direct requests the service may receive
  NOTIFY_MAX_SERVICES,
  NOTIFY_MAX_MAPPINGS,
  NOTIFY_MAX_TUPLES_PER_REQ,
  BITS                        \* width of global_bitmap (u64 in the code)

NotifyType == {"Global", "PerVcpu"}
MessageID == <<"Add", "Remove", "Setup", "Destroy", "Assign", "Unassign">>
Services == 1 .. NOTIFY_MAX_SERVICES
Slots == 1 .. NOTIFY_MAX_MAPPINGS
Bits == 0 .. BITS - 1

\* One payload register, as the three fields extract_tuple takes out of it.
Tuple == [cookie : Cookie, id : Nat, ntype : NotifyType]

\* The fields of a direct request that the handler reads: the word with the
\* message id, the count field and the tuple registers.
Message == [src_id : SrcId, receiver : Uuid, msg_info : Nat, count : Nat,
            regs : [1 .. NOTIFY_MAX_TUPLES_PER_REQ -> Tuple]]

ASSUME BoundsAssumption ==
  /\ NOTIFY_MAX_SERVICES \in Nat \ {0}
  /\ NOTIFY_MAX_MAPPINGS \in Nat \ {0}
  /\ NOTIFY_MAX_TUPLES_PER_REQ \in Nat \ {0}
  /\ BITS \in Nat \ {0}

ASSUME DefaultsAssumption == NilUuid \in Uuid /\ 0 \in Cookie /\ 0 \in SrcId

ASSUME MessagesAssumption == Messages \subseteq Message

\* MessageInfo::message_id: bits 0-2; "None" for the two unused patterns.
message_id(info) ==
  IF info % 8 < Len(MessageID) THEN MessageID[(info % 8) + 1] ELSE "None"

\* From<MsgSendDirectReq2> for NotifyReq: the count is clamped to the number
\* of tuple registers and only that many tuples are decoded.
NotifyReq(msg) ==
  LET count == IF msg.count < NOTIFY_MAX_TUPLES_PER_REQ
                 THEN msg.count ELSE NOTIFY_MAX_TUPLES_PER_REQ
  IN  [msg_id  |-> message_id(msg.msg_info), src_id |-> msg.src_id,
       receiver |-> msg.receiver, count |-> count,
       notifications |-> [i \in 1 .. count |-> msg.regs[i]]]

Requests == {NotifyReq(msg) : msg \in Messages}
NoRequest == [msg_id |-> "None", src_id |-> 0, receiver |-> NilUuid,
              count |-> 0, notifications |-> [i \in 1 .. 0 |-> 0]]

\* The status of an answer; "Err" when the handler returns an error instead.
ErrorCode == {"Ok", "InvalidParameters", "NoMemory", "Err"}

NfyMapping == [cookie : Cookie, id : Bits, ntype : NotifyType,
               src_id : SrcId, in_use : BOOLEAN]
DefaultMapping == [cookie |-> 0, id |-> 0, ntype |-> "Global",
                   src_id |-> 0, in_use |-> FALSE]
NoMappings == [m \in Slots |-> DefaultMapping]
NfyEntry == [service_uuid : Uuid, in_use : BOOLEAN,
             mappings : [Slots -> NfyMapping]]

VARIABLES
  entries,        \* Notify.entries
  global_bitmap,  \* Notify.global_bitmap, as the set of bits that are 1
  pc,             \* where the handler is; "idle" between requests
  req,            \* the request being handled
  entry_index,    \* the entry the request is about
  next,           \* index of the next tuple of the loop
  temp_mappings,  \* temp_entries[entry_index].mappings
  temp_bitmap,    \* temp_bitmask, sim_bitmap or new_bitmap
  status,         \* status of the last answer
  before          \* history: mappings and bitmap when the request arrived

vars == <<entries, global_bitmap, pc, req, entry_index, next,
          temp_mappings, temp_bitmap, status, before>>
loopVars == <<req, entry_index, before>>

Snapshot == [mappings |-> [e \in Services |-> entries[e].mappings],
             bitmap |-> global_bitmap]
NoSnapshot == [mappings |-> [e \in Services |-> NoMappings], bitmap |-> {}]

Init ==
  /\ entries = [e \in Services |->
                  [service_uuid |-> NilUuid, in_use |-> FALSE,
                   mappings |-> NoMappings]]
  /\ global_bitmap = {}
  /\ pc = "idle"
  /\ req = NoRequest
  /\ entry_index = 1
  /\ next = 1
  /\ temp_mappings = NoMappings
  /\ temp_bitmap = {}
  /\ status = "Ok"
  /\ before = NoSnapshot

-----------------------------------------------------------------------------
(* Lookups.  Iterator::position and Iterator::find return the first match. *)

IsFirst(i, S) == i \in S /\ \A j \in S : i <= j

nfy_find_entry(uuid) ==
  {e \in Services : entries[e].in_use /\ entries[e].service_uuid = uuid}

nfy_find_empty_slot == {e \in Services : ~entries[e].in_use}

nfy_find_matching_cookie(e, cookie) ==
  {m \in Slots : /\ entries[e].mappings[m].in_use
                 /\ entries[e].mappings[m].cookie = cookie}

nfy_bitmask_ok_inclusive(id) == id <= BITS
\* nfy_bitmask(id) is Some.
nfy_bitmask_ok(id) == id < BITS

-----------------------------------------------------------------------------
(* Answering: the handler returns and its local variables are gone.        *)

Respond(code) ==
  /\ pc' = "idle"
  /\ status' = code
  /\ req' = NoRequest
  /\ entry_index' = 1
  /\ next' = 1
  /\ temp_mappings' = NoMappings
  /\ temp_bitmap' = {}
  /\ before' = NoSnapshot

Reject_in_place(code) ==
  /\ Respond(code)
  /\ entries' = IF pc = "idle" THEN entries
                ELSE [entries EXCEPT ![entry_index].mappings = temp_mappings]
  /\ UNCHANGED global_bitmap
\* An answer before the handler has touched the tables.
Reject(code) ==
  Respond(code) /\ UNCHANGED <<entries, global_bitmap>>

\* The handler enters a loop over the tuples of r.
Enter(label, r, e, es) ==
  /\ pc' = label
  /\ req' = r
  /\ entry_index' = e
  /\ next' = 1
  /\ temp_mappings' = es[e].mappings
  /\ temp_bitmap' = global_bitmap
  /\ before' = Snapshot
  /\ UNCHANGED <<global_bitmap, status>>

\* ffa_msg_send_direct_req2 with an unknown message id returns Err.
UnknownMessage(r) ==
  /\ pc = "idle"
  /\ r.msg_id = "None"
  /\ Reject("Err")

-----------------------------------------------------------------------------
(* Setup and Add.                                                          *)

find_or_create_entry_always(uuid, e, es) ==
  /\ IsFirst(e, nfy_find_empty_slot)
  /\ es = [entries EXCEPT ![e] = [service_uuid |-> uuid, in_use |-> TRUE,
                                  mappings |-> NoMappings]]
\* find_or_create_entry: the registered entry, or the first unused one reset
\* to the new service.
find_or_create_entry(uuid, e, es) ==
  \/ /\ IsFirst(e, nfy_find_entry(uuid))
     /\ es = entries
  \/ /\ nfy_find_entry(uuid) = {}
     /\ IsFirst(e, nfy_find_empty_slot)
     /\ es = [entries EXCEPT ![e] = [service_uuid |-> uuid, in_use |-> TRUE,
                                     mappings |-> NoMappings]]

nfy_setup(r) ==
  /\ pc = "idle"
  /\ r.msg_id \in {"Setup", "Add"}
  /\ \/ /\ r.count = 0
        /\ Reject("InvalidParameters")
     \/ /\ r.count > 0
        /\ nfy_find_entry(r.receiver) = {} /\ nfy_find_empty_slot = {}
        /\ Reject("NoMemory")
     \/ /\ r.count > 0
        /\ \E e \in Services :
             /\ find_or_create_entry(r.receiver, e, entries')
             /\ Enter("register", r, e, entries')

register_conflict_committed(t) ==
  \/ nfy_find_matching_cookie(entry_index, t.cookie) # {}
  \/ ~nfy_bitmask_ok(t.id)
  \/ t.id \in global_bitmap
\* The cookie is looked up in self.entries, the bit in the copy.
register_conflict(t) ==
  \/ nfy_find_matching_cookie(entry_index, t.cookie) # {}
  \/ ~nfy_bitmask_ok(t.id)
  \/ t.id \in temp_bitmap

free_slots == {m \in Slots : ~temp_mappings[m].in_use}

nfy_register_mapping ==
  /\ pc = "register"
  /\ next <= req.count
  /\ LET t == req.notifications[next] IN
     \/ /\ register_conflict(t)
        /\ Reject("InvalidParameters")
     \/ /\ ~register_conflict(t)
        /\ free_slots = {}
        /\ Reject("NoMemory")
     \/ /\ ~register_conflict(t)
        /\ \E m \in Slots :
             /\ IsFirst(m, free_slots)
             /\ temp_mappings' = [temp_mappings EXCEPT ![m] =
                  [cookie |-> t.cookie, id |-> t.id, ntype |-> t.ntype,
                   src_id |-> req.src_id, in_use |-> TRUE]]
        /\ temp_bitmap' = temp_bitmap \cup {t.id}
        /\ next' = next + 1
        /\ UNCHANGED <<entries, global_bitmap, pc, status, loopVars>>

\* The copies become the state (registering and unregistering end alike).
commit_temp ==
  /\ pc \in {"register", "unregister"}
  /\ next > req.count
  /\ entries' = [entries EXCEPT ![entry_index].mappings = temp_mappings]
  /\ global_bitmap' = temp_bitmap
  /\ Respond("Ok")

-----------------------------------------------------------------------------
(* Destroy and Remove.                                                     *)

\* The handlers below share the lookup of the receiver's entry.
WithEntry(r, ids, label) ==
  /\ pc = "idle"
  /\ r.msg_id \in ids
  /\ \/ /\ nfy_find_entry(r.receiver) = {}
        /\ Reject("InvalidParameters")
     \/ \E e \in Services :
          /\ IsFirst(e, nfy_find_entry(r.receiver))
          /\ Enter(label, r, e, entries)
          /\ UNCHANGED entries

nfy_destroy(r) == WithEntry(r, {"Destroy", "Remove"}, "unregister")

unregister_match_any_source(t, m) ==
  temp_mappings[m].id = t.id /\ temp_mappings[m].ntype = t.ntype
\* What a tuple must match, read from the copy.
unregister_match(t, m) ==
  /\ temp_mappings[m].id = t.id
  /\ temp_mappings[m].ntype = t.ntype
  /\ temp_mappings[m].src_id = req.src_id

nfy_unregister_mapping ==
  /\ pc = "unregister"
  /\ next <= req.count
  /\ LET t == req.notifications[next]
         found == nfy_find_matching_cookie(entry_index, t.cookie)
     IN  \/ /\ found = {}
            /\ Reject("InvalidParameters")
         \/ \E m \in Slots :
              /\ IsFirst(m, found)
              /\ \/ /\ ~unregister_match(t, m)
                    /\ Reject("InvalidParameters")
                 \/ /\ unregister_match(t, m)
                    /\ temp_mappings' =
                         [temp_mappings EXCEPT ![m] = DefaultMapping]
                    /\ temp_bitmap' = temp_bitmap \ {temp_mappings[m].id}
                    /\ next' = next + 1
                    /\ UNCHANGED <<entries, global_bitmap, pc, status, loopVars>>

-----------------------------------------------------------------------------
(* Assign: a validating pass over a simulated bitmap, then the mutations.  *)

nfy_assign(r) == WithEntry(r, {"Assign"}, "assign_check")

\* The old bit is that of the mapping in self.entries, whatever earlier
\* tuples of the request will do to it.
nfy_assign_check ==
  /\ pc = "assign_check"
  /\ next <= req.count
  /\ LET t == req.notifications[next]
         found == nfy_find_matching_cookie(entry_index, t.cookie)
     IN  \/ /\ found = {}
            /\ Reject("InvalidParameters")
         \/ \E m \in Slots :
              /\ IsFirst(m, found)
              /\ LET sim == temp_bitmap \ {entries[entry_index].mappings[m].id}
                 IN  \/ /\ ~nfy_bitmask_ok(t.id) \/ t.id \in sim
                        /\ Reject("InvalidParameters")
                     \/ /\ nfy_bitmask_ok(t.id) /\ t.id \notin sim
                        /\ temp_bitmap' = sim \cup {t.id}
                        /\ next' = next + 1
                        /\ UNCHANGED <<entries, global_bitmap, pc,
                                       temp_mappings, status, loopVars>>

\* Every tuple validated: the second loop starts at the first tuple.
nfy_assign_validated ==
  /\ pc = "assign_check"
  /\ next > req.count
  /\ pc' = "assign_apply"
  /\ next' = 1
  /\ UNCHANGED <<entries, global_bitmap, temp_mappings, temp_bitmap, status,
                 loopVars>>

\* The mapping keeps its slot, cookie and owner.
retarget(m, id, ntype) ==
  [entries EXCEPT ![entry_index].mappings[m].id = id,
                  ![entry_index].mappings[m].ntype = ntype]

nfy_assign_apply ==
  /\ pc = "assign_apply"
  /\ next <= req.count
  /\ LET t == req.notifications[next] IN
     \E m \in Slots :
       /\ IsFirst(m, nfy_find_matching_cookie(entry_index, t.cookie))
       /\ entries' = retarget(m, t.id, t.ntype)
  /\ next' = next + 1
  /\ UNCHANGED <<global_bitmap, pc, temp_mappings, temp_bitmap, status, loopVars>>

-----------------------------------------------------------------------------
(* Unassign: every cookie is looked up first, then the mutations.          *)

nfy_unassign_unchecked(r) == WithEntry(r, {"Unassign"}, "unassign_apply")
nfy_unassign(r) ==
  /\ pc = "idle"
  /\ r.msg_id = "Unassign"
  /\ \/ /\ nfy_find_entry(r.receiver) = {}
        /\ Reject("InvalidParameters")
     \/ \E e \in Services :
          /\ IsFirst(e, nfy_find_entry(r.receiver))
          /\ LET known == \A i \in 1 .. r.count :
                            nfy_find_matching_cookie(
                              e, r.notifications[i].cookie) # {}
             IN  \/ ~known /\ Reject("InvalidParameters")
                 \/ /\ known
                    /\ Enter("unassign_apply", r, e, entries)
                    /\ UNCHANGED entries

nfy_unassign_apply ==
  /\ pc = "unassign_apply"
  /\ next <= req.count
  /\ \E m \in Slots :
       /\ IsFirst(m, nfy_find_matching_cookie(
                       entry_index, req.notifications[next].cookie))
       /\ temp_bitmap' = temp_bitmap \ {entries[entry_index].mappings[m].id}
       /\ entries' = retarget(m, 0, "Global")
  /\ next' = next + 1
  /\ UNCHANGED <<global_bitmap, pc, temp_mappings, status, loopVars>>

\* Assign and Unassign store the bitmap last.
commit_bitmap ==
  /\ pc \in {"assign_apply", "unassign_apply"}
  /\ next > req.count
  /\ global_bitmap' = temp_bitmap
  /\ UNCHANGED entries
  /\ Respond("Ok")

-----------------------------------------------------------------------------
Receive(r) ==
  UnknownMessage(r) \/ nfy_setup(r) \/ nfy_destroy(r) \/ nfy_assign(r)
    \/ nfy_unassign(r)

Handle ==
  nfy_register_mapping \/ nfy_unregister_mapping \/ commit_temp
    \/ nfy_assign_check \/ nfy_assign_validated \/ nfy_assign_apply
    \/ nfy_unassign_apply \/ commit_bitmap

Next == (\E r \in Requests : Receive(r)) \/ Handle

Spec == Init /\ [][Next]_vars

-----------------------------------------------------------------------------
(* Properties.                                                             *)

Labels == {"idle", "register", "unregister", "assign_check", "assign_apply",
           "unassign_apply"}

\* The types of the tables, the bitmap and the handler's locals.  The bound on
\* a mapping's id is what keeps the shift 1 << t_id of nfy_unregister_mapping,
\* which has no range check of its own, inside the width of the bitmap.
TypeOK ==
  /\ entries \in [Services -> NfyEntry]
  /\ global_bitmap \subseteq Bits
  /\ pc \in Labels
  /\ req \in Requests \cup {NoRequest}
  /\ entry_index \in Services
  /\ next \in Nat \ {0}
  /\ temp_mappings \in [Slots -> NfyMapping]
  /\ temp_bitmap \subseteq Bits
  /\ status \in ErrorCode
  /\ before \in [mappings : [Services -> [Slots -> NfyMapping]],
                 bitmap : SUBSET Bits]

\* The mappings (entry and slot) of table es that hold bit b.
Holders(es, b) ==
  {p \in Services \X Slots : /\ es[p[1]].mappings[p[2]].in_use
                             /\ es[p[1]].mappings[p[2]].id = b}

\* Bit b is set in bm exactly when it has a holder, and it has at most one.
BitExact(holders, bm, b) ==
  /\ b \in bm <=> holders # {}
  /\ \A p, q \in holders : p = q

\* Tuple k of the request is about the mapping in slot m.
About(k, m) ==
  IsFirst(m, nfy_find_matching_cookie(entry_index,
                                      req.notifications[k].cookie))

\* The bits that an Assign request with a repeated cookie may leave wrong: for
\* two tuples j and k that name the same cookie, the bit that j asks for, which
\* is taken although the mapping goes on to k's, and the bit that the mapping
\* had, which is released twice, also if another tuple has taken it in between.
Muddled(b) ==
  /\ req.msg_id = "Assign"
  /\ \E j, k \in 1 .. req.count :
       /\ j < k
       /\ req.notifications[j].cookie = req.notifications[k].cookie
       /\ \/ req.notifications[j].id = b
          \/ \E m \in Slots : /\ About(k, m)
                             /\ before.mappings[entry_index][m].id = b

\* Bit b was exact when the request arrived.
ExactBefore(b) ==
  BitExact(Holders([e \in Services |-> [mappings |-> before.mappings[e]]], b),
           before.bitmap, b)

\* A request leaves every bit but 0 set exactly when one mapping holds it, if it
\* found it so: it leaks no bit when it fails half way, frees none under its
\* owner and gives none to two owners, be it Setup, Add, Destroy, Remove, Assign
\* or Unassign, whatever its tuples swap.  The one exception are the bits that
\* two tuples of an Assign with the same cookie muddle.  (Bit 0 is also the id of
\* a mapping without a bit; see NoBitConflict.)
BitmapKept ==
  [][pc # "idle" /\ pc' = "idle" =>
       \A b \in Bits \ {0} :
         ExactBefore(b) /\ ~Muddled(b) =>
           BitExact(Holders(entries', b), global_bitmap', b)]_vars

\* Two registered entries never name the same service: nfy_find_entry's first
\* match is the only one, however often find_or_create_entry ran and failed.
OneEntryPerService ==
  \A e1, e2 \in Services :
    /\ entries[e1].in_use /\ entries[e2].in_use
    /\ entries[e1].service_uuid = entries[e2].service_uuid
    => e1 = e2

\* A request that is answered with an error, at whichever tuple it failed,
\* leaves every mapping and the bitmap as it found them.
AllOrNothing ==
  [][pc # "idle" /\ pc' = "idle" /\ status' # "Ok"
       => Snapshot' = before]_vars

\* A mapping is only ever freed by a request of the endpoint that set it up.
OnlyOwnerFrees ==
  [][\A e \in Services, m \in Slots :
       /\ entries[e].mappings[m].in_use
       /\ ~entries'[e].mappings[m].in_use
       => entries[e].mappings[m].src_id = req.src_id]_vars

\* The unwrap() of the second loops of Assign and Unassign never panics: what
\* the validating pass found is still found after earlier tuples were applied.
NoUnwrapPanic ==
  pc \in {"assign_apply", "unassign_apply"} =>
    \A i \in next .. req.count :
      nfy_find_matching_cookie(entry_index, req.notifications[i].cookie) # {}

\* The form Unassign gives a mapping that keeps its slot without a bit.
Unassigned(mp) == mp.id = 0 /\ mp.ntype = "Global"

\* What the comment on global_bitmap promises ("multiple mappings will not
\* conflict on the same bit"), for every bit: of two mappings with the same id
\* at least one is a reserved slot that Unassign has left without a bit.
NoBitConflict ==
  pc = "idle" =>
  \A e1, e2 \in Services, m1, m2 \in Slots :
    LET mp1 == entries[e1].mappings[m1]
        mp2 == entries[e2].mappings[m2]
    IN  mp1.in_use /\ mp2.in_use /\ mp1.id = mp2.id /\ ~Unassigned(mp1)
          /\ ~Unassigned(mp2) => e1 = e2 /\ m1 = m2

-----------------------------------------------------------------------------
(* The parts of the inductive invariants (see NotifyProofs).               *)

\* The table as commit_temp would leave it.
WithTemp == [entries EXCEPT ![entry_index].mappings = temp_mappings]

\* The holders of bit b once the tuples before n of an Assign request have been
\* applied: mappings not yet named by a tuple keep their bit.
FutureHolders(b, n) ==
  {p \in Services \X Slots :
     LET mp == entries[p[1]].mappings[p[2]]
         named(k) == p[1] = entry_index /\ About(k, p[2])
     IN  /\ mp.in_use
         /\ \/ mp.id = b /\ \A k \in 1 .. n - 1 : ~named(k)
            \/ \E k \in 1 .. n - 1 : named(k) /\ req.notifications[k].id = b}

\* A slot that is not in use carries no bit.
FreeSlotsClear ==
  /\ \A e \in Services, m \in Slots :
       ~entries[e].mappings[m].in_use => entries[e].mappings[m].id = 0
  /\ \A m \in Slots : ~temp_mappings[m].in_use => temp_mappings[m].id = 0

\* What a request's loops have established about its tuples.  Type correctness
\* rests on it: the second loop of Assign stores ids that only the first loop
\* compared with the width of the bitmap.
Known(i) ==
  nfy_find_matching_cookie(entry_index, req.notifications[i].cookie) # {}
Validated ==
  /\ next <= req.count + 1
  /\ pc = "assign_check" =>
       \A i \in 1 .. next - 1 : Known(i) /\ req.notifications[i].id \in Bits
  /\ pc = "assign_apply" =>
       \A i \in 1 .. req.count : Known(i) /\ req.notifications[i].id \in Bits
  /\ pc = "unassign_apply" => \A i \in 1 .. req.count : Known(i)
  /\ pc \in {"assign_check", "assign_apply"} => req.msg_id = "Assign"

\* While a handler may still fail it has changed no mapping and no bit; its
\* entry is a registered one, and the others are as Default made them.
Untouched ==
  /\ pc # "idle" => entries[entry_index].in_use
  /\ \A e \in Services : ~entries[e].in_use => entries[e].mappings = NoMappings
  /\ pc \in {"register", "unregister", "assign_check"} => before = Snapshot

\* What the copy has lost so far belonged to the requester.
CopyInv ==
  LET mine == entries[entry_index].mappings IN
  /\ pc = "register" =>
       \A m \in Slots : mine[m].in_use => temp_mappings[m] = mine[m]
  /\ pc = "unregister" =>
       \A m \in Slots : \/ temp_mappings[m] = mine[m]
                        \/ mine[m].src_id = req.src_id

\* What a handler has made so far of a bit that was exact when it began.
BitInv(b) ==
  pc # "idle" /\ ExactBefore(b) /\ ~Muddled(b) =>
    /\ pc \in {"register", "unregister"}
         => BitExact(Holders(WithTemp, b), temp_bitmap, b)
    /\ pc = "unassign_apply" => BitExact(Holders(entries, b), temp_bitmap, b)
    /\ pc = "assign_check" => BitExact(FutureHolders(b, next), temp_bitmap, b)
    /\ pc = "assign_apply" =>
         /\ BitExact(FutureHolders(b, req.count + 1), temp_bitmap, b)
         /\ \A m \in Slots : (\E k \in 1 .. next - 1 : About(k, m)) =>
              (entries[entry_index].mappings[m].id = b <=>
                 \E k \in 1 .. next - 1 : About(k, m) /\ req.notifications[k].id = b)
=============================================================================
