-------------------------- MODULE InterruptsProofs --------------------------
(* Proofs about Interrupts, for any interrupts and any depth of nesting.   *)
EXTENDS Interrupts, SequenceTheorems, TLAPS

Frame == CriticalSection \cup IrqCurrent

\* What every frame has, and which frames carry an interrupt.
LEMMA FrameFields ==
  ASSUME NEW f \in Frame
  PROVE  /\ f.kind \in {"cs", "get", "deactivate", "handle"}
         /\ f.saved \subseteq DAIF
         /\ f.kind \in {"deactivate", "handle"} => f.id \in InterruptId
BY DEF Frame, CriticalSection, IrqCurrent

\* The frames that the actions push.
LEMMA FrameOf ==
  ASSUME NEW saved \in SUBSET DAIF
  PROVE  /\ [kind |-> "cs", saved |-> saved] \in Frame
         /\ [kind |-> "get", saved |-> saved] \in Frame
         /\ \A id \in InterruptId :
              /\ [kind |-> "deactivate", saved |-> saved, id |-> id] \in Frame
              /\ [kind |-> "handle", saved |-> saved, id |-> id] \in Frame
BY DEF Frame, CriticalSection, IrqCurrent

\* Entering a context leaves the frames below it as they were.
LEMMA PushFrame ==
  ASSUME NEW s \in Seq(Frame), NEW f \in Frame
  PROVE  /\ Append(s, f) \in Seq(Frame)
         /\ Len(Append(s, f)) = Len(s) + 1
         /\ Append(s, f) # <<>>
         /\ DOMAIN Append(s, f) = 1 .. Len(s) + 1
         /\ Append(s, f)[Len(s) + 1] = f
         /\ \A i \in DOMAIN s : Append(s, f)[i] = s[i]
OBVIOUS

\* Leaving the innermost context does, too.
LEMMA PopFrame ==
  ASSUME NEW s \in Seq(Frame), s # <<>>,
         NEW below, below = SubSeq(s, 1, Len(s) - 1)
  PROVE  /\ below \in Seq(Frame)
         /\ Len(below) = Len(s) - 1
         /\ DOMAIN below = 1 .. Len(s) - 1
         /\ \A i \in 1 .. Len(s) - 1 : below[i] = s[i]
         /\ below = <<>> => Len(s) = 1
         /\ s[Len(s)] \in Frame
         /\ DOMAIN s = 1 .. Len(s) /\ Len(s) \in Nat /\ Len(s) > 0
<1>1. Len(s) \in Nat /\ Len(s) > 0 /\ DOMAIN s = 1 .. Len(s) /\ s[Len(s)] \in Frame
  OBVIOUS
<1>2. below \in Seq(Frame) /\ Len(below) = Len(s) - 1
  <2>1. \A i \in 1 .. Len(s) - 1 : s[i] \in Frame
    BY <1>1
  <2>2. 1 \in Int /\ Len(s) - 1 \in Int
    BY <1>1
  <2>3. /\ below \in Seq(Frame)
        /\ Len(below) = IF 1 <= Len(s) - 1 THEN (Len(s) - 1) - 1 + 1 ELSE 0
    BY <2>1, <2>2, SubSeqProperties
  <2>4. \A n \in Nat : n > 0 =>
          (IF 1 <= n - 1 THEN (n - 1) - 1 + 1 ELSE 0) = n - 1
    OBVIOUS
  <2>5. Len(below) = Len(s) - 1
    BY <1>1, <2>3, <2>4
  <2> QED BY <2>3, <2>5
<1>3. DOMAIN below = 1 .. Len(s) - 1
  BY <1>2
<1>4. \A i \in 1 .. Len(s) - 1 : below[i] = s[i]
  BY <1>1
<1>5. below = <<>> => Len(s) = 1
  <2>1. below = <<>> => Len(below) = 0
    BY EmptySeq, Zenon
  <2>2. \A n \in Nat : n - 1 = 0 => n = 1
    OBVIOUS
  <2> QED BY <1>1, <1>2, <2>1, <2>2, Zenon
<1> QED BY <1>1, <1>2, <1>3, <1>4, <1>5

-----------------------------------------------------------------------------
(* Types.                                                                  *)

\* Every step keeps the types.
LEMMA TypeStep ==
  ASSUME TypeOK, [Next]_vars
  PROVE  TypeOK'
<1> USE DEF TypeOK
<1>0. stack \in Seq(Frame) /\ (stack' \in Seq(Frame) => stack' \in Seq(CriticalSection \cup IrqCurrent))
  BY DEF Frame
<1>1. CASE UNCHANGED vars
  BY <1>1 DEF vars, hypervisor
<1>2. CASE enable_arch_interrupts \/ disable_arch_interrupts
  BY <1>2 DEF enable_arch_interrupts, disable_arch_interrupts, hypervisor
<1>3. CASE acquire
  <2>1. [kind |-> "cs", saved |-> daif] \in Frame
    BY FrameOf
  <2>2. stack' \in Seq(Frame)
    BY <1>0, <1>3, <2>1, PushFrame DEF acquire
  <2> QED BY <1>0, <1>3, <2>2 DEF acquire, hypervisor, DAIF
<1>4. CASE release
  <2>1. stack' \in Seq(Frame) /\ Top \in Frame
    BY <1>0, <1>4, PopFrame DEF release, Below, Top
  <2>2. daif' \subseteq DAIF
    BY <1>4, <2>1, FrameFields DEF release
  <2> QED BY <1>0, <1>4, <2>1, <2>2 DEF release, hypervisor
<1>5. ASSUME NEW id \in InterruptId, NEW int_type \in InterruptType,
             NEW enable \in BOOLEAN, hf_interrupt_set(id, int_type, enable)
      PROVE  TypeOK'
  BY <1>5 DEF hf_interrupt_set
<1>6. ASSUME NEW id \in InterruptId, Raise(id) \/ Withdraw(id)
      PROVE  TypeOK'
  BY <1>6 DEF Raise, Withdraw
<1>7. ASSUME NEW id \in InterruptId, NEW command, NEW value,
             hf_interrupt_reconfigure(id, command, value)
      PROVE  TypeOK'
  BY <1>7 DEF hf_interrupt_reconfigure, InterruptType
<1>8. CASE RaiseSError
  BY <1>8 DEF RaiseSError
<1>9. CASE TakeIrq
  <2>1. [kind |-> "get", saved |-> daif] \in Frame
    BY FrameOf
  <2>2. stack' \in Seq(Frame)
    BY <1>0, <1>9, <2>1, PushFrame DEF TakeIrq
  <2> QED BY <1>0, <1>9, <2>2 DEF TakeIrq, hypervisor
<1>10. CASE hf_interrupt_get
  <2>0. Top \in Frame /\ Below \in Seq(Frame) /\ Top.saved \subseteq DAIF
    BY <1>0, <1>10, PopFrame, FrameFields DEF hf_interrupt_get, InStep, Top, Below
  <2>1. CASE Signalled("Irq") = {}
    BY <1>10, <2>1 DEF hf_interrupt_get, panic
  <2>2. CASE Signalled("Irq") # {}
    <3>1. PICK id \in Signalled("Irq") :
            /\ active' = active \cup {id}
            /\ pending' = pending \ {id}
            /\ StepTo("deactivate", id)
            /\ UNCHANGED <<daif, panicked, unmasked>>
      BY <1>10, <2>2 DEF hf_interrupt_get
    <3>2. id \in InterruptId
      BY DEF Signalled
    <3>3. stack' \in Seq(Frame)
      BY <2>0, <3>1, <3>2, FrameOf, PushFrame DEF StepTo
    <3> QED BY <1>0, <1>10, <3>1, <3>2, <3>3 DEF hf_interrupt_get
  <2> QED BY <2>1, <2>2
<1>11. CASE hf_interrupt_deactivate
  <2>0. Top \in Frame /\ Below \in Seq(Frame) /\ Top.saved \subseteq DAIF
        /\ Top.id \in InterruptId
    BY <1>0, <1>11, PopFrame, FrameFields
    DEF hf_interrupt_deactivate, InStep, Top, Below
  <2>1. CASE panic("refused") /\ UNCHANGED active
    BY <1>11, <2>1 DEF hf_interrupt_deactivate, panic
  <2>2. CASE /\ active' = active \ {Top.id}
             /\ StepTo("handle", Top.id)
             /\ UNCHANGED <<daif, panicked, unmasked>>
    <3>1. stack' \in Seq(Frame)
      BY <2>0, <2>2, FrameOf, PushFrame DEF StepTo
    <3> QED BY <1>0, <1>11, <2>2, <3>1 DEF hf_interrupt_deactivate
  <2> QED BY <1>11, <2>1, <2>2 DEF hf_interrupt_deactivate
<1>12. CASE HandlerReturns
  <2>1. stack' \in Seq(Frame) /\ Top \in Frame
    BY <1>0, <1>12, PopFrame DEF HandlerReturns, InStep, Below, Top
  <2>2. daif' \subseteq DAIF
    BY <1>12, <2>1, FrameFields DEF HandlerReturns
  <2> QED BY <1>0, <1>12, <2>1, <2>2 DEF HandlerReturns, hypervisor
<1>13. CASE fiq_current \/ serr_current
  BY <1>13 DEF fiq_current, serr_current, panic, hypervisor
<1> QED
  BY <1>1, <1>2, <1>3, <1>4, <1>5, <1>6, <1>7, <1>8, <1>9, <1>10, <1>11,
     <1>12, <1>13
  DEF Next, irq_current

\* The types hold in every reachable state.
THEOREM TypeCorrect == Spec => []TypeOK
<1>1. Init => TypeOK
  BY EmptySeq DEF Init, TypeOK, InterruptType
<1>2. TypeOK /\ [Next]_vars => TypeOK'
  BY TypeStep
<1> QED BY <1>1, <1>2, PTL DEF Spec

-----------------------------------------------------------------------------
(* Nesting and masking.                                                    *)

\* What the last of the two calls left in DAIF.
Base == IF unmasked THEN {} ELSE DAIF

\* Outside of every context DAIF is what the last call left.  Inside of one,
\* interrupts are masked; the outermost restores what the call left, and those
\* above it are critical sections that keep interrupts masked.
Nesting ==
  /\ stack = <<>> => daif = Base
  /\ stack # <<>> => {"I", "F"} \subseteq daif /\ stack[1].saved = Base
  /\ \A i \in DOMAIN stack :
       i > 1 => stack[i].kind = "cs" /\ {"I", "F"} \subseteq stack[i].saved

\* An interrupt handler was entered with interrupts enabled, and holds an
\* acknowledged interrupt only between two of its hypervisor calls, when
\* nothing is nested in it.
Handling ==
  /\ stack # <<>> =>
       /\ stack[1].kind # "cs" => unmasked
       /\ stack[1].kind \in {"get", "deactivate"} => Len(stack) = 1
  /\ active = IF stack # <<>> /\ stack[1].kind = "deactivate"
              THEN {stack[1].id} ELSE {}

IInv == TypeOK /\ Nesting /\ Handling /\ MaskedMeansSafe

\* A handler that runs has nothing nested in it.
LEMMA HandlerAlone ==
  ASSUME IInv, stack # <<>>, Top.kind # "cs"
  PROVE  /\ Len(stack) = 1 /\ Top = stack[1]
         /\ Below = <<>>
         /\ Top.saved = {} /\ unmasked
<1>1. stack \in Seq(Frame)
  BY DEF IInv, TypeOK, Frame
<1>2. Len(stack) \in Nat /\ Len(stack) > 0 /\ DOMAIN stack = 1 .. Len(stack)
  BY <1>1
<1>3. Len(stack) = 1
  BY <1>2 DEF IInv, Nesting, Top
<1>4. Below = <<>>
  BY <1>3, SubSeqEmpty DEF Below
<1> QED BY <1>3, <1>4 DEF IInv, Nesting, Handling, Top, Base

\* The frame that replaces the one of a handler.
LEMMA OneFrame ==
  ASSUME NEW f
  PROVE  /\ Append(<<>>, f) # <<>> /\ Len(Append(<<>>, f)) = 1
         /\ Append(<<>>, f)[1] = f /\ DOMAIN Append(<<>>, f) = {1}
OBVIOUS

\* Every step keeps the order of nesting.
LEMMA NestingStep ==
  ASSUME IInv, [Next]_vars
  PROVE  Nesting'
<1> USE DEF Nesting
<1>a. TypeOK /\ Nesting /\ Handling
  BY DEF IInv
<1>b. stack \in Seq(Frame) /\ daif \subseteq DAIF
  BY <1>a DEF TypeOK, Frame
<1>c. Len(stack) \in Nat /\ DOMAIN stack = 1 .. Len(stack)
      /\ (stack # <<>> => Len(stack) > 0)
  BY <1>b
<1>1. CASE UNCHANGED <<daif, stack, unmasked>>
  BY <1>1, <1>a DEF Base
<1>2. CASE enable_arch_interrupts \/ disable_arch_interrupts
  BY <1>2, <1>a DEF enable_arch_interrupts, disable_arch_interrupts, Base
<1>3. ASSUME NEW f \in Frame, f.saved = daif, stack' = Append(stack, f),
             {"I", "F"} \subseteq daif', unmasked' = unmasked,
             stack # <<>> => f.kind = "cs"
      PROVE  Nesting'
  <2>1. /\ stack' # <<>> /\ DOMAIN stack' = 1 .. Len(stack) + 1
        /\ stack'[Len(stack) + 1] = f
        /\ \A i \in 1 .. Len(stack) : stack'[i] = stack[i]
    BY <1>b, <1>c, <1>3, PushFrame
  <2>2. stack'[1].saved = Base'
    <3>1. CASE stack = <<>>
      <4>1. stack'[1] = f
        BY <1>3, <3>1, OneFrame
      <4> QED BY <1>a, <1>3, <3>1, <4>1 DEF Base
    <3>2. CASE stack # <<>>
      BY <1>a, <1>c, <1>3, <2>1, <3>2 DEF Base
    <3> QED BY <3>1, <3>2
  <2>3. ASSUME NEW i \in DOMAIN stack', i > 1
        PROVE  stack'[i].kind = "cs" /\ {"I", "F"} \subseteq stack'[i].saved
    <3>1. CASE i \in 1 .. Len(stack)
      BY <1>a, <1>c, <2>1, <2>3, <3>1
    <3>2. CASE i = Len(stack) + 1
      <4>1. Len(stack) # 0
        BY <1>c, <2>3, <3>2
      <4>2. stack # <<>>
        BY <4>1, EmptySeq
      <4> QED BY <1>a, <1>3, <2>1, <3>2, <4>2
    <3> QED BY <1>c, <2>1, <3>1, <3>2
  <2> QED BY <1>3, <2>1, <2>2, <2>3
<1>4. CASE acquire
  BY <1>3, <1>4, <1>b, FrameOf DEF acquire
<1>5. CASE TakeIrq
  <2>1. stack = <<>>
    BY <1>5, <1>a DEF TakeIrq
  <2> QED BY <1>3, <1>5, <1>b, <2>1, FrameOf DEF TakeIrq, DAIF
<1>6. CASE release
  <2>1. /\ DOMAIN stack' = 1 .. Len(stack) - 1
        /\ \A i \in 1 .. Len(stack) - 1 : stack'[i] = stack[i]
        /\ stack' = <<>> => Len(stack) = 1
        /\ Len(stack) > 0
        /\ stack' \in Seq(Frame) /\ Len(stack') = Len(stack) - 1
    BY <1>6, <1>b, PopFrame DEF release, Below
  <2>2. CASE Len(stack) = 1
    <3>1. stack' = <<>>
      BY <2>1, <2>2
    <3>2. daif' = stack[1].saved /\ UNCHANGED unmasked
      BY <1>6, <2>2 DEF release, Top
    <3> QED BY <1>a, <1>6, <3>1, <3>2 DEF release, Base
  <2>3. CASE Len(stack) > 1
    <3>1. {"I", "F"} \subseteq daif' /\ UNCHANGED unmasked /\ stack # <<>>
      BY <1>a, <1>c, <1>6, <2>3 DEF release, Top
    <3>2. stack' # <<>> /\ stack'[1] = stack[1]
      BY <1>c, <2>1, <2>3
    <3>3. \A i \in DOMAIN stack' : i \in DOMAIN stack /\ stack'[i] = stack[i]
      BY <1>c, <2>1
    <3> QED BY <1>a, <3>1, <3>2, <3>3 DEF Base
  <2> QED BY <1>c, <2>1, <2>2, <2>3
<1>7. ASSUME NEW kind, NEW id, stack # <<>>, Top.kind # "cs",
             StepTo(kind, id), UNCHANGED <<daif, unmasked>>
      PROVE  Nesting'
  <2>1. stack' = Append(<<>>, [kind |-> kind, saved |-> stack[1].saved, id |-> id])
    BY <1>7, HandlerAlone DEF StepTo
  <2>2. stack' # <<>> /\ stack'[1].saved = stack[1].saved /\ DOMAIN stack' = {1}
    BY <2>1, OneFrame
  <2> QED BY <1>7, <1>a, <2>2 DEF Base
<1>8. CASE hf_interrupt_get
  BY <1>1, <1>7, <1>8 DEF hf_interrupt_get, InStep, panic
<1>9. CASE hf_interrupt_deactivate
  BY <1>1, <1>7, <1>9 DEF hf_interrupt_deactivate, InStep, panic
<1>10. CASE HandlerReturns
  <2>1. stack' = <<>> /\ daif' = {} /\ unmasked'
    BY <1>10, HandlerAlone DEF HandlerReturns, InStep
  <2> QED BY <2>1 DEF Base
<1> QED
  BY <1>1, <1>2, <1>4, <1>5, <1>6, <1>8, <1>9, <1>10
  DEF Next, irq_current, vars, hf_interrupt_set, hf_interrupt_reconfigure,
      Raise, Withdraw, RaiseSError, fiq_current, serr_current, panic

\* Every step keeps interrupts acknowledged and deactivated in turn.
LEMMA HandlingStep ==
  ASSUME IInv, [Next]_vars
  PROVE  Handling'
<1> USE DEF Handling
<1>a. TypeOK /\ Nesting /\ Handling
  BY DEF IInv
<1>b. stack \in Seq(Frame)
  BY <1>a DEF TypeOK, Frame
<1>c. Len(stack) \in Nat /\ (stack # <<>> => Len(stack) > 0)
  BY <1>b
<1>1. CASE UNCHANGED <<stack, active, unmasked>>
  BY <1>1, <1>a
<1>2. CASE enable_arch_interrupts \/ disable_arch_interrupts
  BY <1>2, <1>a DEF enable_arch_interrupts, disable_arch_interrupts, hypervisor
<1>3. CASE acquire
  <2>1. [kind |-> "cs", saved |-> daif] \in Frame
    BY <1>a, FrameOf DEF TypeOK
  <2>2. /\ stack' # <<>>
        /\ stack # <<>> => stack'[1] = stack[1]
        /\ stack = <<>> => stack'[1].kind = "cs"
    BY <1>b, <1>c, <1>3, <2>1, PushFrame DEF acquire
  <2>3. stack # <<>> => stack[1].kind \in {"cs", "handle"}
    <3>1. CASE Len(stack) = 1
      BY <1>3, <3>1 DEF acquire, UserCode, Top
    <3>2. CASE Len(stack) # 1
      <4>1. stack # <<>> => stack[1] \in Frame
        BY <1>b, <1>c
      <4> QED BY <1>a, <3>2, <4>1, FrameFields
    <3> QED BY <3>1, <3>2
  <2> QED BY <1>a, <1>3, <2>2, <2>3 DEF acquire, hypervisor
<1>4. CASE release
  <2>1. /\ \A i \in 1 .. Len(stack) - 1 : stack'[i] = stack[i]
        /\ stack' = <<>> => Len(stack) = 1
        /\ Len(stack') = Len(stack) - 1 /\ stack # <<>>
        /\ UNCHANGED <<active, unmasked>>
    BY <1>4, <1>b, PopFrame DEF release, Below, hypervisor
  <2>2. CASE Len(stack) = 1
    <3>1. stack' = <<>> /\ stack[1].kind = "cs"
      BY <1>4, <2>2, SubSeqEmpty DEF release, Below, Top
    <3> QED BY <1>a, <2>1, <3>1
  <2>3. CASE Len(stack) > 1
    <3>1. stack' # <<>> /\ stack'[1] = stack[1]
      BY <1>c, <2>1, <2>3
    <3>2. stack[1].kind \notin {"get", "deactivate"}
      BY <1>a, <2>1, <2>3
    <3> QED BY <1>a, <2>1, <3>1, <3>2
  <2> QED BY <1>c, <2>1, <2>2, <2>3
<1>5. CASE TakeIrq
  <2>1. stack = <<>>
    BY <1>a, <1>5 DEF TakeIrq, Nesting
  <2>2. /\ stack' # <<>> /\ Len(stack') = 1
        /\ stack'[1].kind = "get"
    BY <1>5, <2>1, OneFrame DEF TakeIrq
  <2>3. unmasked
    BY <1>a, <1>5, <2>1 DEF TakeIrq, Nesting, Base, DAIF
  <2> QED BY <1>a, <1>5, <2>1, <2>2, <2>3 DEF TakeIrq, hypervisor
<1>6. CASE hf_interrupt_get
  <2>1. /\ stack # <<>> /\ Top.kind = "get" /\ Len(stack) = 1
        /\ Top = stack[1] /\ Below = <<>> /\ unmasked /\ active = {}
    BY <1>a, <1>6, HandlerAlone DEF hf_interrupt_get, InStep
  <2>2. CASE Signalled("Irq") = {}
    BY <1>1, <1>6, <2>2 DEF hf_interrupt_get, panic
  <2>3. CASE Signalled("Irq") # {}
    <3>1. PICK id : /\ active' = active \cup {id}
                    /\ StepTo("deactivate", id)
                    /\ UNCHANGED unmasked
      BY <1>6, <2>3 DEF hf_interrupt_get
    <3>2. /\ stack' # <<>> /\ Len(stack') = 1
          /\ stack'[1].kind = "deactivate" /\ stack'[1].id = id
      BY <2>1, <3>1, OneFrame DEF StepTo
    <3> QED BY <2>1, <3>1, <3>2
  <2> QED BY <2>2, <2>3
<1>7. CASE hf_interrupt_deactivate
  <2>1. /\ stack # <<>> /\ Top.kind = "deactivate" /\ Len(stack) = 1
        /\ Top = stack[1] /\ Below = <<>> /\ unmasked /\ active = {Top.id}
    BY <1>a, <1>7, HandlerAlone DEF hf_interrupt_deactivate, InStep
  <2>2. CASE panic("refused") /\ UNCHANGED active
    BY <1>1, <2>2 DEF panic
  <2>3. CASE /\ active' = active \ {Top.id}
             /\ StepTo("handle", Top.id)
             /\ UNCHANGED <<daif, panicked, unmasked>>
    <3>1. stack' # <<>> /\ stack'[1].kind = "handle"
      BY <2>1, <2>3, OneFrame DEF StepTo
    <3> QED BY <2>1, <2>3, <3>1
  <2> QED BY <1>7, <2>2, <2>3 DEF hf_interrupt_deactivate
<1>8. CASE HandlerReturns
  <2>1. stack' = <<>> /\ stack # <<>> /\ stack[1].kind = "handle" /\ UNCHANGED active
    BY <1>8, HandlerAlone DEF HandlerReturns, InStep, hypervisor
  <2> QED BY <1>a, <2>1
<1> QED
  BY <1>1, <1>2, <1>3, <1>4, <1>5, <1>6, <1>7, <1>8
  DEF Next, irq_current, vars, hypervisor, hf_interrupt_set,
      hf_interrupt_reconfigure, Raise, Withdraw, RaiseSError, fiq_current,
      serr_current, panic

\* Every step keeps a partition with interrupts disabled from panicking, but
\* for an SError in a critical section.
LEMMA MaskedStep ==
  ASSUME IInv, [Next]_vars
  PROVE  MaskedMeansSafe'
<1> USE DEF MaskedMeansSafe, Running
<1>a. TypeOK /\ Nesting /\ Handling /\ MaskedMeansSafe
  BY DEF IInv
<1>b. stack \in Seq(Frame)
  BY <1>a DEF TypeOK, Frame
<1>1. CASE UNCHANGED <<panicked, stack, unmasked>>
  BY <1>1, <1>a DEF InCs
<1>2. CASE Running /\ UNCHANGED panicked
  BY <1>2
<1>3. CASE InStep("get") \/ InStep("deactivate")
  <2>1. unmasked
    BY <1>3, HandlerAlone DEF InStep
  <2>2. unmasked' = unmasked
    BY <1>3, <2>1 DEF Next, vars, irq_current, enable_arch_interrupts,
      disable_arch_interrupts, acquire, release, hf_interrupt_set,
      hf_interrupt_reconfigure, TakeIrq, hf_interrupt_get, hf_interrupt_deactivate,
      HandlerReturns, fiq_current, serr_current, Raise, Withdraw, RaiseSError,
      panic, InStep
  <2> QED BY <2>1, <2>2
<1>4. CASE fiq_current
  <2>1. unmasked
    BY <1>a, <1>4 DEF fiq_current, Nesting, Base, DAIF
  <2> QED BY <1>4, <2>1 DEF fiq_current, panic
<1>5. CASE serr_current
  <2>1. ASSUME ~unmasked PROVE InCs
    <3>1. stack # <<>>
      BY <1>a, <1>5, <2>1 DEF serr_current, Nesting, Base, DAIF
    <3>2. 1 \in DOMAIN stack /\ stack[1].kind = "cs"
      BY <1>a, <1>b, <2>1, <3>1 DEF Handling
    <3> QED BY <3>2 DEF InCs
  <2>2. panicked' = "serror" /\ UNCHANGED <<stack, unmasked>>
    BY <1>5 DEF serr_current, panic
  <2> QED BY <2>1, <2>2 DEF InCs
<1> QED
  BY <1>1, <1>2, <1>3, <1>4, <1>5
  DEF Next, vars, irq_current, enable_arch_interrupts, disable_arch_interrupts,
      acquire, release, hf_interrupt_set, hf_interrupt_reconfigure, TakeIrq,
      hf_interrupt_get, hf_interrupt_deactivate, HandlerReturns, Raise,
      Withdraw, RaiseSError, UserCode, InStep

\* The invariant is inductive.
LEMMA IInvCorrect == Spec => []IInv
<1>1. Init => IInv
  <2> SUFFICES ASSUME Init PROVE IInv
    OBVIOUS
  <2>1. TypeOK
    BY EmptySeq DEF Init, TypeOK, InterruptType
  <2>2. Nesting /\ Handling /\ MaskedMeansSafe
    BY DEF Init, Nesting, Handling, MaskedMeansSafe, Running, Base
  <2> QED BY <2>1, <2>2 DEF IInv
<1>2. IInv /\ [Next]_vars => IInv'
  BY TypeStep, NestingStep, HandlingStep, MaskedStep DEF IInv
<1> QED BY <1>1, <1>2, PTL DEF Spec

\* No interrupt handler runs inside of a critical section or of another
\* handler, however deep critical sections nest.
THEOREM ExclusionHolds == Spec => []CriticalSectionsExclude
<1>1. IInv => CriticalSectionsExclude
  <2> SUFFICES ASSUME IInv, NEW i \in DOMAIN stack, NEW j \in DOMAIN stack, i < j
               PROVE  stack[j].kind \in {"cs"}
    BY DEF CriticalSectionsExclude
  <2>1. stack \in Seq(Frame)
    BY DEF IInv, TypeOK, Frame
  <2>2. j > 1
    BY <2>1
  <2> QED BY <2>2 DEF IInv, Nesting
<1> QED BY <1>1, IInvCorrect, PTL

\* Whatever has returned, in whatever order, left the masks as the last of the
\* two calls set them, and no interrupt acknowledged.
THEOREM QuietHolds == Spec => []QuietAfterReturn
<1>1. IInv => QuietAfterReturn
  BY DEF IInv, Nesting, Handling, QuietAfterReturn, Base, DAIF
<1> QED BY <1>1, IInvCorrect, PTL

\* A partition that has disabled interrupts panics only for an SError, in a
\* critical section.
THEOREM MaskedHolds == Spec => []MaskedMeansSafe
<1>1. IInv => MaskedMeansSafe
  BY DEF IInv
<1> QED BY <1>1, IInvCorrect, PTL
=============================================================================
