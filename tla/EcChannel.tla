----------------------------- MODULE EcChannel ------------------------------
(***************************************************************************)
(* What the relay to the embedded controller promises to the services: a   *)
(* channel of whole answers that may be lost but are never reordered,      *)
(* duplicated or torn.  An invocation sends one request and returns, with  *)
(* an error or with the oldest answer in flight; it succeeds only with a   *)
(* success response of the service and with the response id it asked for.  *)
(***************************************************************************)
EXTENDS EcMessages, Sequences

CONSTANT MaxInvokes   \* bound: requests in a behaviour

VARIABLES
  pc,           \* "idle", "send" or "recv"
  request,      \* command and number of the current or last invocation
  outcome,      \* "Ok", "Remote" or "Err", the number of its answer (or 0), and
                \* the discriminant that Remote carries
  pending,      \* requests the EC has not answered
  answers       \* answers in flight, oldest first

vars == <<pc, request, outcome, pending, answers>>

NoOutcome == [code |-> "None", n |-> 0, remote |-> 0]

Init ==
  /\ pc = "idle"
  /\ request \in [command : Command, n : {0}]
  /\ outcome = NoOutcome
  /\ pending = <<>> /\ answers = <<>>

Invoke(command) ==
  /\ pc = "idle"
  /\ request.n < MaxInvokes
  /\ pc' = "send"
  /\ request' = [command |-> command, n |-> request.n + 1]
  /\ outcome' = NoOutcome
  /\ UNCHANGED <<pending, answers>>

\* The request is written once.
Send ==
  /\ pc = "send"
  /\ pc' = "recv"
  /\ pending' = Append(pending, request)
  /\ UNCHANGED <<request, outcome, answers>>

\* A response of the service that was asked, and one with the response id of
\* the command.
FromService(h) ==
  /\ h.odp /\ ~h.is_request
  /\ h.service_id = request.command.service_id
Fits(h) ==
  FromService(h) /\ ~h.is_error /\ h.message_id = request.command.response_id

\* The invocation fails; an answer that it had begun to read is gone.
Fail ==
  /\ pc = "recv"
  /\ pc' = "idle"
  /\ outcome' = [code |-> "Err", n |-> 0, remote |-> 0]
  /\ \/ UNCHANGED answers
     \/ answers # <<>> /\ answers' = Tail(answers)
  /\ UNCHANGED <<request, pending>>

\* The invocation returns what it makes of the oldest answer.
Receive ==
  /\ pc = "recv"
  /\ answers # <<>>
  /\ pc' = "idle"
  /\ LET h == Head(answers) IN
     \E code \in {"Ok", "Remote", "Err"} :
       /\ code = "Ok" => Fits(h)
       /\ code = "Remote" => FromService(h) /\ h.is_error
       /\ outcome' = [code |-> code, n |-> h.n, remote |-> RemoteCode(code, h)]
  /\ answers' = Tail(answers)
  /\ UNCHANGED <<request, pending>>

\* The EC answers its oldest request, or drops it; an answer is lost.
Reply(kind, discriminant) ==
  /\ pending # <<>>
  /\ pending' = Tail(pending)
  /\ answers' = Append(answers, AnswerTo(kind, discriminant, Head(pending)))
  /\ UNCHANGED <<pc, request, outcome>>

Forget ==
  /\ pending # <<>>
  /\ pending' = Tail(pending)
  /\ UNCHANGED <<pc, request, outcome, answers>>

Lose ==
  /\ \E i \in DOMAIN answers :
       answers' = SubSeq(answers, 1, i - 1) \o SubSeq(answers, i + 1, Len(answers))
  /\ UNCHANGED <<pc, request, outcome, pending>>

Return == Fail \/ Receive

Next ==
  \/ \E command \in Command : Invoke(command)
  \/ \E kind \in Kind, discriminant \in Discriminant : Reply(kind, discriminant)
  \/ Send \/ Return \/ Forget \/ Lose

Safety == Init /\ [][Next]_vars
Spec == Safety /\ WF_vars(Send) /\ WF_vars(Return)
=============================================================================
