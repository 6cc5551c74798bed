----------------------------- MODULE Interrupts -----------------------------
(***************************************************************************)
(* Interrupts and critical sections of a secure partition                  *)
(* (aarch64-haf/src/interrupt.rs, aarch64-haf/src/critical_section.rs) and *)
(* the hypervisor calls they make (hafnium/src/lib.rs), on one core.       *)
(*                                                                         *)
(* Partition code runs in nested contexts: the thread, an interrupt        *)
(* handler on top of it, and critical sections in either.  PSTATE.DAIF is  *)
(* modelled as the set of its masked exceptions.  The exception vectors of *)
(* aarch64-rt, the core and the hypervisor are external: taking an         *)
(* exception saves DAIF and masks everything, returning restores it.       *)
(*                                                                         *)
(* A definition that stands before another with the same name and a suffix *)
(* is a faulty variant of it; the specification uses none.                 *)
(***************************************************************************)
EXTENDS Naturals, Sequences

CONSTANTS
  InterruptId,   \* interrupts the partition may enable
  INVALID_ID,    \* what the hypervisor answers if none is pending
  MaxDepth       \* bound: contexts nested in each other

ASSUME IdAssumption == INVALID_ID \notin InterruptId
ASSUME DepthAssumption == MaxDepth \in Nat

DAIF == {"D", "A", "I", "F"}
InterruptType == {"Irq", "Fiq"}

VARIABLES
  daif,       \* the exceptions that PSTATE masks
  stack,      \* contexts, innermost last, with the DAIF each one restores
  route,      \* per interrupt: "off", or the type it was enabled with
  pending,    \* interrupts that devices have raised
  active,     \* interrupts acknowledged and not deactivated
  serror,     \* an SError is pending
  panicked,   \* why the partition panicked, or "no"
  unmasked    \* history: enable_arch_interrupts was the last of the two calls

hypervisor == <<route, pending, active, serror>>
vars == <<daif, stack, hypervisor, panicked, unmasked>>

\* A critical section, and irq_current at its three steps.
CriticalSection == [kind : {"cs"}, saved : SUBSET DAIF]
IrqCurrent ==
  [kind : {"get"}, saved : SUBSET DAIF]
    \cup [kind : {"deactivate", "handle"}, saved : SUBSET DAIF, id : InterruptId]

InCs == \E i \in DOMAIN stack : stack[i].kind = "cs"
InIrq == \E i \in DOMAIN stack : stack[i].kind # "cs"
Running == panicked = "no"
Top == stack[Len(stack)]
Below == SubSeq(stack, 1, Len(stack) - 1)
\* Code of the partition that may call the functions below: the thread, a
\* critical section, the partition's own interrupt handler.
UserCode == Running /\ (stack # <<>> => Top.kind \in {"cs", "handle"})

\* aarch64-rt starts main with every exception masked.
Init ==
  /\ daif = DAIF
  /\ stack = <<>>
  /\ route = [id \in InterruptId |-> "off"]
  /\ pending = {} /\ active = {} /\ serror = FALSE
  /\ panicked = "no"
  /\ unmasked = FALSE

panic(why) == panicked' = why /\ UNCHANGED <<daif, stack, unmasked>>

-----------------------------------------------------------------------------
(* Masking.                                                                *)

\* Called from the thread, outside of critical sections.
enable_arch_interrupts ==
  /\ Running /\ stack = <<>>
  /\ daif' = {} /\ unmasked' = TRUE
  /\ UNCHANGED <<stack, hypervisor, panicked>>

disable_arch_interrupts_if ==
  /\ Running /\ stack = <<>>
  /\ daif' = {"I", "F"} /\ unmasked' = FALSE
  /\ UNCHANGED <<stack, hypervisor, panicked>>
disable_arch_interrupts ==
  /\ Running /\ stack = <<>>
  /\ daif' = DAIF /\ unmasked' = FALSE
  /\ UNCHANGED <<stack, hypervisor, panicked>>

\* The write sets I and F and clears D and A.
acquire_fiq ==
  /\ UserCode /\ Len(stack) < MaxDepth
  /\ stack' = Append(stack, [kind |-> "cs", saved |-> daif])
  /\ daif' = {"F"}
  /\ UNCHANGED <<hypervisor, panicked, unmasked>>
acquire ==
  /\ UserCode /\ Len(stack) < MaxDepth
  /\ stack' = Append(stack, [kind |-> "cs", saved |-> daif])
  /\ daif' = {"I", "F"}
  /\ UNCHANGED <<hypervisor, panicked, unmasked>>

release ==
  /\ Running /\ stack # <<>> /\ Top.kind = "cs"
  /\ daif' = Top.saved
  /\ stack' = Below
  /\ UNCHANGED <<hypervisor, panicked, unmasked>>

-----------------------------------------------------------------------------
(* Hypervisor calls from the thread.                                       *)

\* The hypervisor may refuse either call, which then changes nothing.
hf_interrupt_set(id, int_type, enable) ==
  /\ UserCode /\ ~InIrq
  /\ route' = [route EXCEPT ![id] = IF enable THEN int_type ELSE "off"]
  /\ UNCHANGED <<daif, stack, pending, active, serror, panicked, unmasked>>

\* The commands other than Enable leave alone whether and how an interrupt
\* is delivered to this partition.
hf_interrupt_reconfigure(id, command, value) ==
  /\ UserCode /\ ~InIrq
  /\ route' = [route EXCEPT ![id] =
                 IF command # "Enable" THEN @
                 ELSE IF value = 0 THEN "off"
                 ELSE IF @ = "off" THEN "Irq" ELSE @]
  /\ UNCHANGED <<daif, stack, pending, active, serror, panicked, unmasked>>

-----------------------------------------------------------------------------
(* Exceptions.                                                             *)

Signalled(int_type) == {id \in pending \ active : route[id] = int_type}

\* The core takes an IRQ: the vector calls irq_current.
TakeIrq ==
  /\ Running /\ Signalled("Irq") # {} /\ "I" \notin daif
  /\ stack' = Append(stack, [kind |-> "get", saved |-> daif])
  /\ daif' = DAIF
  /\ UNCHANGED <<hypervisor, panicked, unmasked>>

InStep(kind) == Running /\ stack # <<>> /\ Top.kind = kind
StepTo(kind, id) ==
  stack' = Append(Below, [kind |-> kind, saved |-> Top.saved, id |-> id])

\* hf_interrupt_get acknowledges a pending interrupt, or there is none.
hf_interrupt_get_unchecked ==
  /\ InStep("get")
  /\ \E id \in Signalled("Irq") \cup {INVALID_ID} :
       /\ id = INVALID_ID => Signalled("Irq") = {}
       /\ active' = active \cup ({id} \cap InterruptId)
       /\ pending' = pending \ {id}
       /\ StepTo("deactivate", id)
  /\ UNCHANGED <<daif, panicked, unmasked, route, serror>>
hf_interrupt_get ==
  /\ InStep("get")
  /\ IF Signalled("Irq") = {}
     THEN panic("none_pending") /\ UNCHANGED <<active, pending>>
     ELSE \E id \in Signalled("Irq") :
            /\ active' = active \cup {id}
            /\ pending' = pending \ {id}
            /\ StepTo("deactivate", id)
            /\ UNCHANGED <<daif, panicked, unmasked>>
  /\ UNCHANGED <<route, serror>>

\* hf_interrupt_deactivate, which the hypervisor may refuse.
hf_interrupt_deactivate_unchecked ==
  /\ InStep("deactivate")
  /\ StepTo("handle", Top.id)
  /\ active' \in {active, active \ {Top.id}}
  /\ UNCHANGED <<daif, route, pending, serror, panicked, unmasked>>
hf_interrupt_deactivate ==
  /\ InStep("deactivate")
  /\ \/ /\ active' = active \ {Top.id}
        /\ StepTo("handle", Top.id)
        /\ UNCHANGED <<daif, panicked, unmasked>>
     \/ panic("refused") /\ UNCHANGED active
  /\ UNCHANGED <<route, pending, serror>>

\* The partition's handler returns, and irq_current to the vector.
HandlerReturns ==
  /\ InStep("handle")
  /\ stack' = Below
  /\ daif' = Top.saved
  /\ UNCHANGED <<hypervisor, panicked, unmasked>>

\* The vectors that panic.
fiq_current ==
  /\ Running /\ Signalled("Fiq") # {} /\ "F" \notin daif
  /\ panic("fiq")
  /\ UNCHANGED hypervisor

serr_current ==
  /\ Running /\ serror /\ "A" \notin daif
  /\ panic("serror")
  /\ UNCHANGED hypervisor

-----------------------------------------------------------------------------
(* Devices: an interrupt is raised, or withdrawn before it is acknowledged.*)

Raise(id) ==
  /\ Running /\ id \notin pending
  /\ pending' = pending \cup {id}
  /\ UNCHANGED <<daif, stack, route, active, serror, panicked, unmasked>>

Withdraw(id) ==
  /\ Running /\ id \in pending
  /\ pending' = pending \ {id}
  /\ UNCHANGED <<daif, stack, route, active, serror, panicked, unmasked>>

RaiseSError ==
  /\ Running /\ ~serror
  /\ serror' = TRUE
  /\ UNCHANGED <<daif, stack, route, pending, active, panicked, unmasked>>

irq_current == hf_interrupt_get \/ hf_interrupt_deactivate \/ HandlerReturns

Next ==
  \/ enable_arch_interrupts \/ disable_arch_interrupts
  \/ acquire \/ release
  \/ \E id \in InterruptId, int_type \in InterruptType, enable \in BOOLEAN :
       hf_interrupt_set(id, int_type, enable)
  \/ \E id \in InterruptId :
       \/ Raise(id) \/ Withdraw(id)
       \/ \E command \in {"TargetPe", "SecState", "Enable"}, value \in {0, 1} :
            hf_interrupt_reconfigure(id, command, value)
  \/ RaiseSError
  \/ TakeIrq \/ irq_current \/ fiq_current \/ serr_current

Spec == Init /\ [][Next]_vars

-----------------------------------------------------------------------------
(* Properties.                                                             *)

\* Types.
TypeOK ==
  /\ daif \subseteq DAIF
  /\ stack \in Seq(CriticalSection \cup IrqCurrent)
  /\ route \in [InterruptId -> InterruptType \cup {"off"}]
  /\ pending \subseteq InterruptId
  /\ active \subseteq InterruptId
  /\ serror \in BOOLEAN /\ unmasked \in BOOLEAN
  /\ panicked \in {"no", "none_pending", "refused", "fiq", "serror"}

\* No interrupt handler runs inside of a critical section, however critical
\* sections nest and whatever was masked when the outermost was entered; and
\* none interrupts another handler.
CriticalSectionsExclude ==
  \A i, j \in DOMAIN stack : i < j => stack[j].kind \in {"cs"}

\* Once critical sections and handlers have returned, interrupts are masked or
\* not as the last of the two calls left them, and none is left acknowledged,
\* so that the next one is delivered.
QuietAfterReturn ==
  Running /\ stack = <<>> =>
    /\ IF unmasked THEN daif = {} ELSE {"I", "F"} \subseteq daif
    /\ active = {}

\* With interrupts disabled, the partition panics only for an SError, and
\* only in a critical section, which unmasks SErrors.
MaskedMeansSafe ==
  ~Running /\ ~unmasked => panicked = "serror" /\ InCs
=============================================================================
