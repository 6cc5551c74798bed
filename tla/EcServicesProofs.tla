-------------------------- MODULE EcServicesProofs --------------------------
(* Proofs about EcServices, for any number of round-trips and any kinds of *)
(* answers of the EC.                                                      *)
EXTENDS EcServices, SequenceTheorems, TLAPS

-----------------------------------------------------------------------------
(* The inductive invariant.                                                *)

\* The number of a request that was sent and whose answer has not been read: if
\* its round-trip is over, then one was given up, at the latest that one.
Sent(n) ==
  /\ n \in 1 .. request.n
  /\ pc = "send" => n < request.n
  /\ outcome.n < n
  /\ n < request.n \/ pc = "idle" => \E a \in abandoned : a <= n

\* What is on its way was sent, and for the command of its number; an answer
\* tells whether the EC executed the request.
Executed(n) == \E i \in DOMAIN executed : executed[i] = n
Genuine(h) ==
  /\ h.service_id = calls[h.n].service_id
  /\ h.is_error => ~Executed(h.n)
  /\ ~h.is_error => Executed(h.n) /\ h.message_id = calls[h.n].response_id
Flight ==
  /\ \A i \in DOMAIN pending :
       Sent(pending[i].n) /\ pending[i].command = calls[pending[i].n]
  /\ \A i \in DOMAIN answers : Sent(answers[i].n) /\ Genuine(answers[i])

\* Nothing overtakes.
InOrder ==
  /\ \A i, j \in DOMAIN pending : i < j => pending[i].n < pending[j].n
  /\ \A i, j \in DOMAIN answers : i < j => answers[i].n < answers[j].n
  /\ \A i \in DOMAIN answers, j \in DOMAIN pending : answers[i].n < pending[j].n

\* The EC executes requests that it was sent, in order.
Execution ==
  /\ \A i \in DOMAIN executed :
       /\ executed[i] <= request.n
       /\ pc = "send" => executed[i] < request.n
       /\ \A j \in DOMAIN pending : executed[i] < pending[j].n
  /\ \A i, j \in DOMAIN executed : executed[i] = executed[j] => i = j

\* What the last round-trip returned.
Outcome ==
  /\ pc # "idle" => handling /\ outcome = NoOutcome
  /\ handling /\ pc = "idle" => outcome.code # "None"
  /\ outcome.n # 0 => /\ outcome.n \in 1 .. request.n
                      /\ outcome.n < request.n =>
                           \E a \in abandoned : a <= outcome.n
  /\ outcome.code = "Ok" =>
       /\ outcome.n # 0 /\ Executed(outcome.n)
       /\ calls[outcome.n].service_id = request.command.service_id
       /\ calls[outcome.n].response_id = request.command.response_id
  /\ outcome.code = "Remote" => outcome.n # 0 /\ ~Executed(outcome.n)

\* The handler waits for the round-trip that its request asked for, or has
\* answered, after a rejection or what that round-trip returned.
Asked ==
  /\ request.n # 0 /\ calls[request.n] = request.command
  /\ request.command \in try_from(msg) /\ ~rejected(msg)
Handled ==
  \/ handling /\ Asked /\ reply = NoReply
  \/ ~handling /\ reply = NoReply
  \/ ~handling /\ rejected(msg) /\ reply = rejection(msg)
  \/ /\ ~handling /\ Asked /\ outcome.code # "None"
     /\ reply = reply_to(request.command, outcome)

IInv == TypeOK /\ Flight /\ InOrder /\ Execution /\ Outcome /\ Handled

-----------------------------------------------------------------------------
(* The commands.                                                           *)

\* What the commands hold.
LEMMA Fields ==
  /\ \A c \in ThermalCommand : c.service_id = 9
  /\ \A c \in BatteryCommand : c.service_id = 8
  /\ \A c \in TimeAlarmCommand : c.service_id = 11
  /\ get_temperature.message_id = 1 /\ get_temperature.response_id = 1
  /\ set_threshold.message_id = 2 /\ set_threshold.response_id = 2
  /\ get_threshold.message_id = 3 /\ get_threshold.response_id = 3
  /\ set_scp.message_id = 4 /\ set_scp.response_id = 4
  /\ get_var.message_id = 5 /\ get_var.response_id = 5
  /\ set_var.message_id = 6 /\ set_var.response_id = 6
  /\ get_bix.message_id = 1 /\ get_bix.response_id = 1
  /\ get_bst.message_id = 2 /\ get_bst.response_id = 2
  /\ set_btp.message_id = 6 /\ set_btp.response_id = 6
  /\ get_capabilities.message_id = 1 /\ get_capabilities.response_id = 1
  /\ get_real_time.message_id = 2 /\ get_real_time.response_id = 2
  /\ get_wake_status.message_id = 4 /\ get_wake_status.response_id = 3
  /\ set_timer_value.message_id = 6 /\ set_timer_value.response_id = 6
  /\ get_timer_value.message_id = 7 /\ get_timer_value.response_id = 5
  /\ get_expired_timer_policy.message_id = 9
  /\ get_expired_timer_policy.response_id = 4
<1> USE DEF invoke_request, invoke_request_with_response_id
<1>1. \A c \in ThermalCommand : c.service_id = 9
  BY DEF ThermalCommand, THERMAL_SERVICE_ID, get_temperature, set_threshold,
         get_threshold, set_scp, get_var, set_var
<1>2. \A c \in BatteryCommand : c.service_id = 8
  BY DEF BatteryCommand, BATTERY_SERVICE_ID, get_bix, get_bst, set_btp
<1>3. \A c \in TimeAlarmCommand : c.service_id = 11
  BY DEF TimeAlarmCommand, TIME_ALARM_SERVICE_ID, get_capabilities, get_real_time,
         get_wake_status, set_timer_value, get_timer_value,
         get_expired_timer_policy
<1> QED
  BY <1>1, <1>2, <1>3
  DEF get_temperature, set_threshold, get_threshold, set_scp, get_var, set_var,
      get_bix, get_bst, set_btp, get_capabilities, get_real_time,
      get_wake_status, set_timer_value, get_timer_value,
      get_expired_timer_policy

\* The service with the message id, or with the response id, gives the command.
LEMMA Unique ==
  ASSUME NEW c \in EcCommand, NEW d \in EcCommand, c.service_id = d.service_id,
         c.message_id = d.message_id \/ c.response_id = d.response_id
  PROVE  c = d
<1>1. \/ c \in ThermalCommand /\ d \in ThermalCommand
      \/ c \in BatteryCommand /\ d \in BatteryCommand
      \/ c \in TimeAlarmCommand /\ d \in TimeAlarmCommand
  BY Fields DEF EcCommand
<1>2. CASE c \in ThermalCommand /\ d \in ThermalCommand
  BY <1>2, Fields DEF ThermalCommand
<1>3. CASE c \in BatteryCommand /\ d \in BatteryCommand
  BY <1>3, Fields DEF BatteryCommand
<1>4. CASE c \in TimeAlarmCommand /\ d \in TimeAlarmCommand
  BY <1>4, Fields DEF TimeAlarmCommand
<1> QED BY <1>1, <1>2, <1>3, <1>4

\* A reply has the size of its command, whatever the round-trip returned.
LEMMA ReplySize ==
  ASSUME NEW c \in EcCommand, NEW result
  PROVE  /\ reply_to(c, result).tag \in {"Ok", "Err"}
         /\ reply_to(c, result).tag = "Ok" => reply_to(c, result).size = Size(c)
<1> USE DEF Reply_, scalar_payload, threshold_payload, timestamp_payload, Err
<1>1. CASE c \in ThermalCommand
  <2>1. /\ c \notin BatteryCommand /\ c \notin TimeAlarmCommand
        /\ c \notin {get_real_time, get_bst, get_bix, set_btp}
    BY <1>1, Fields DEF BatteryCommand, TimeAlarmCommand
  <2>2. c \in Setter => c # get_threshold
    BY <2>1, Fields DEF Setter
  <2>3. reply_to(c, result) = thermal_reply(c, result)
    BY <1>1, <2>1 DEF reply_to
  <2>4. Size(c) = IF c = get_threshold THEN 12 ELSE 4
    BY <2>1 DEF Size
  <2> QED BY <2>2, <2>3, <2>4 DEF thermal_reply
<1>2. CASE c \in BatteryCommand
  <2>1. /\ c \notin ThermalCommand /\ c \notin TimeAlarmCommand
        /\ c # get_threshold /\ c # get_real_time
    BY <1>2, Fields DEF ThermalCommand, TimeAlarmCommand
  <2>2. reply_to(c, result) = battery_reply(c, result)
    BY <1>2, <2>1 DEF reply_to
  <2>3. CASE c = get_bix
    BY <2>1, <2>2, <2>3, Fields DEF battery_reply, Size
  <2>4. CASE c = get_bst
    BY <2>1, <2>2, <2>4, Fields DEF battery_reply, Size
  <2>5. CASE c = set_btp
    BY <2>1, <2>2, <2>5, Fields DEF battery_reply, Size
  <2> QED BY <1>2, <2>3, <2>4, <2>5 DEF BatteryCommand
<1>3. CASE c \in TimeAlarmCommand
  <2>1. /\ c \notin ThermalCommand /\ c \notin BatteryCommand
        /\ c \notin {get_threshold, get_bst, get_bix, set_btp}
    BY <1>3, Fields DEF ThermalCommand, BatteryCommand
  <2>2. reply_to(c, result) = time_alarm_reply(c, result)
    BY <1>3, <2>1 DEF reply_to
  <2>3. Size(c) = IF c = get_real_time THEN 16 ELSE 4
    BY <2>1 DEF Size
  <2>4. get_real_time # set_timer_value
    BY Fields
  <2> QED BY <2>2, <2>3, <2>4 DEF time_alarm_reply
<1> QED BY <1>1, <1>2, <1>3 DEF EcCommand

\* So has a rejection.
LEMMA RejectionSize ==
  ASSUME NEW m, rejected(m)
  PROVE  /\ rejection(m).tag \in {"Ok", "Err"}
         /\ rejection(m).tag = "Ok" =>
              \A c \in try_from(m) : rejection(m).size = Size(c)
<1> USE DEF Reply_, scalar_payload, Err
<1>1. CASE try_from(m) = {}
  BY <1>1 DEF rejection
<1>2. CASE try_from(m) # {}
  <2>1. PICK c \in try_from(m) : c \in {get_var, set_var}
    BY <1>2 DEF rejected, wrong_len
  <2>2. \A d \in try_from(m) : d = c
    BY <2>1, Unique DEF try_from
  <2>3. get_var \in ThermalCommand /\ set_var \in ThermalCommand
    BY DEF ThermalCommand
  <2>4. Size(c) = 4
    <3>1. c.service_id = 9 /\ c.message_id \in {5, 6}
      BY <2>1, <2>3, Fields
    <3>2. c # get_threshold
      BY <3>1, Fields
    <3>3. c \notin BatteryCommand /\ c \notin TimeAlarmCommand
      BY <3>1, Fields
    <3> QED BY <3>2, <3>3 DEF Size, BatteryCommand, TimeAlarmCommand
  <2> QED BY <1>2, <2>2, <2>4 DEF rejection
<1> QED BY <1>1, <1>2


\* What a status word and a body tell of the round-trip.
LEMMA StatusWord ==
  ASSUME NEW c \in Setter, NEW result
  PROVE  /\ reply_to(c, result).word = "0" =>
              result.code = "Ok" \/ (result.code = "Remote" /\ result.remote = 0)
         /\ reply_to(c, result).word = "1" => result.code = "Remote"
<1> USE DEF Reply_, scalar_payload, Err
<1>1. /\ setter_status(result) = "0" =>
           result.code = "Ok" \/ (result.code = "Remote" /\ result.remote = 0)
      /\ result.code # "Remote" => setter_status(result) # "1"
  BY DEF setter_status, status, LOCAL_ERROR_SENTINEL
<1>2. CASE c \in {set_threshold, set_scp, set_var}
  <2>1. c \in ThermalCommand
    BY <1>2 DEF ThermalCommand
  <2>2. c \notin BatteryCommand
    BY <2>1, Fields
  <2> QED BY <1>1, <2>1, <2>2 DEF reply_to, thermal_reply
<1>3. CASE c = set_btp
  <2>1. c \in BatteryCommand /\ c \notin ThermalCommand
    BY <1>3, Fields DEF BatteryCommand, ThermalCommand
  <2>2. c # get_bst /\ c # get_bix
    BY <1>3, Fields
  <2> QED BY <1>3, <2>1, <2>2 DEF reply_to, battery_reply
<1>4. CASE c = set_timer_value
  <2>1. c \in TimeAlarmCommand
    BY <1>4 DEF TimeAlarmCommand
  <2>2. c \notin BatteryCommand /\ c \notin ThermalCommand /\ c # get_real_time
    BY <1>4, <2>1, Fields
  <2> QED BY <1>1, <1>4, <2>2 DEF reply_to, time_alarm_reply
<1> QED BY <1>2, <1>3, <1>4 DEF Setter

LEMMA BodyWord ==
  ASSUME NEW c \in EcCommand, NEW result, reply_to(c, result).word = "body"
  PROVE  result.code = "Ok"
<1> USE DEF Reply_, scalar_payload, threshold_payload, timestamp_payload, Err
<1>1. /\ setter_status(result) # "body"
      /\ result.code # "Ok" => /\ unwrap_or(result, LOCAL_ERROR_SENTINEL) # "body"
                          /\ unwrap_or(result, INVALID_TIMESTAMP) # "body"
  BY DEF setter_status, status, unwrap_or, LOCAL_ERROR_SENTINEL,
         INVALID_TIMESTAMP
<1>2. result.code # "Ok" => thermal_reply(c, result).word # "body"
  BY <1>1 DEF thermal_reply
<1>3. result.code # "Ok" => battery_reply(c, result).word # "body"
  BY DEF battery_reply
<1>4. result.code # "Ok" => time_alarm_reply(c, result).word # "body"
  <2>1. get_real_time # set_timer_value
    BY Fields
  <2> QED BY <1>1, <2>1 DEF time_alarm_reply
<1>5. CASE c \in ThermalCommand
  <2>1. c \notin BatteryCommand
    BY <1>5, Fields
  <2> QED BY <1>2, <1>5, <2>1 DEF reply_to
<1>6. CASE c \in BatteryCommand
  <2>1. c \notin ThermalCommand
    BY <1>6, Fields
  <2> QED BY <1>3, <1>6, <2>1 DEF reply_to
<1>7. CASE c \in TimeAlarmCommand
  <2>1. c \notin ThermalCommand /\ c \notin BatteryCommand
    BY <1>7, Fields
  <2> QED BY <1>4, <1>7, <2>1 DEF reply_to
<1> QED BY <1>5, <1>6, <1>7 DEF EcCommand

-----------------------------------------------------------------------------
(* Sequences.                                                              *)

\* t is s without some of its elements.
Within(t, s) ==
  \E f \in [DOMAIN t -> DOMAIN s] :
    /\ \A i \in DOMAIN t : t[i] = s[f[i]]
    /\ \A i, j \in DOMAIN t : i < j => f[i] < f[j]

LEMMA WithinSame ==
  ASSUME NEW s
  PROVE  Within(s, s)
<1> DEFINE f == [i \in DOMAIN s |-> i]
<1>1. f \in [DOMAIN s -> DOMAIN s] /\ \A i \in DOMAIN s : f[i] = i
  OBVIOUS
<1> QED BY <1>1, Zenon DEF Within

LEMMA WithinTail ==
  ASSUME NEW S, NEW s \in Seq(S), s # <<>>
  PROVE  /\ Tail(s) \in Seq(S) /\ Within(Tail(s), s)
         /\ 1 \in DOMAIN s /\ Head(s) = s[1] /\ s[1] \in S
         /\ \A i \in DOMAIN Tail(s) :
              i \in Nat /\ i + 1 \in DOMAIN s /\ 1 < i + 1 /\ Tail(s)[i] = s[i + 1]
<1>1. Len(s) \in Nat /\ Len(s) > 0 /\ DOMAIN s = 1 .. Len(s) /\ Head(s) = s[1]
  OBVIOUS
<1>2. /\ Tail(s) \in Seq(S) /\ Len(Tail(s)) = Len(s) - 1
      /\ \A i \in 1 .. Len(Tail(s)) : Tail(s)[i] = s[i + 1]
  BY HeadTailProperties
<1>3. DOMAIN Tail(s) = 1 .. Len(s) - 1
  BY <1>2, LenProperties
<1> DEFINE f == [i \in DOMAIN Tail(s) |-> i + 1]
<1>4. /\ f \in [DOMAIN Tail(s) -> DOMAIN s]
      /\ \A i \in DOMAIN Tail(s) : f[i] = i + 1
      /\ \A i, j \in DOMAIN Tail(s) : i < j => f[i] < f[j]
  BY <1>1, <1>3
<1>5. \A i \in DOMAIN Tail(s) : Tail(s)[i] = s[f[i]]
  BY <1>2, <1>3, <1>4, <1>1
<1>6. Within(Tail(s), s)
  BY <1>4, <1>5 DEF Within
<1> QED BY <1>1, <1>2, <1>3, <1>6

LEMMA WithinRemove ==
  ASSUME NEW S, NEW s \in Seq(S), NEW k \in DOMAIN s
  PROVE  LET t == SubSeq(s, 1, k - 1) \o SubSeq(s, k + 1, Len(s)) IN
         t \in Seq(S) /\ Within(t, s)
<1> DEFINE a == SubSeq(s, 1, k - 1)
           b == SubSeq(s, k + 1, Len(s))
           t == a \o b
<1>1. Len(s) \in Nat /\ DOMAIN s = 1 .. Len(s) /\ k \in 1 .. Len(s)
  BY LenProperties
<1>2. /\ a \in Seq(S) /\ Len(a) = k - 1
      /\ \A i \in 1 .. k - 1 : a[i] = s[i]
  <2>1. /\ \A i \in 1 .. k - 1 : i \in 1 .. Len(s)
        /\ k - 1 = IF 1 <= k - 1 THEN (k - 1) - 1 + 1 ELSE 0
        /\ (k - 1) - 1 + 1 = k - 1 /\ \A i \in 1 .. k - 1 : 1 + i - 1 = i
    BY <1>1
  <2>2. /\ a \in Seq(S)
        /\ Len(a) = IF 1 <= k - 1 THEN (k - 1) - 1 + 1 ELSE 0
        /\ \A i \in 1 .. (k - 1) - 1 + 1 : a[i] = s[1 + i - 1]
    BY <1>1, SubSeqProperties
  <2> HIDE DEF a
  <2> QED BY <2>1, <2>2
<1>3. /\ b \in Seq(S) /\ Len(b) = Len(s) - k
      /\ \A i \in 1 .. Len(s) - k : b[i] = s[k + i]
  <2>1. /\ k + 1 \in Int /\ Len(s) \in Int
        /\ \A i \in k + 1 .. Len(s) : i \in 1 .. Len(s)
        /\ \A i \in k + 1 .. Len(s) : s[i] \in S
    BY <1>1
  <2>2. /\ b \in Seq(S)
        /\ Len(b) = IF k + 1 <= Len(s) THEN Len(s) - (k + 1) + 1 ELSE 0
        /\ \A i \in 1 .. Len(s) - (k + 1) + 1 : b[i] = s[k + 1 + i - 1]
    BY <2>1, SubSeqProperties
  <2> HIDE DEF b
  <2>3. /\ Len(s) - (k + 1) + 1 = Len(s) - k
        /\ Len(s) - k = IF k + 1 <= Len(s) THEN Len(s) - (k + 1) + 1 ELSE 0
        /\ \A i \in 1 .. Len(s) - k : k + 1 + i - 1 = k + i
    BY <1>1
  <2> QED BY <2>2, <2>3
<1> HIDE DEF a, b
<1>4. /\ t \in Seq(S) /\ Len(t) = Len(a) + Len(b)
      /\ \A i \in 1 .. Len(a) + Len(b) : t[i] =
           IF i <= Len(a) THEN a[i] ELSE b[i - Len(a)]
  BY <1>2, <1>3, ConcatProperties
<1>5. DOMAIN t = 1 .. Len(s) - 1
  <2>1. Len(a) + Len(b) = Len(s) - 1
    BY <1>1, <1>2, <1>3
  <2> QED BY <1>4, <2>1, LenProperties
<1> HIDE DEF t
<1> DEFINE f == [i \in 1 .. Len(s) - 1 |-> IF i < k THEN i ELSE i + 1]
<1>6. /\ f \in [1 .. Len(s) - 1 -> 1 .. Len(s)]
      /\ \A i, j \in 1 .. Len(s) - 1 : i < j => f[i] < f[j]
  BY <1>1
<1>7. ASSUME NEW i \in 1 .. Len(s) - 1 PROVE t[i] = s[f[i]]
  <2>1. CASE i < k
    BY <1>1, <1>2, <1>3, <1>4, <1>7, <2>1
  <2>2. CASE ~(i < k)
    <3>1. i - (k - 1) \in 1 .. Len(s) - k /\ k + (i - (k - 1)) = i + 1 /\ ~(i <= k - 1)
      BY <1>1, <2>2
    <3>2. i \in 1 .. Len(a) + Len(b) /\ ~(i <= Len(a)) /\ Len(a) = k - 1
      BY <1>1, <1>2, <1>3, <3>1
    <3>3. t[i] = b[i - (k - 1)]
      BY <1>4, <3>2, Zenon
    <3>4. b[i - (k - 1)] = s[i + 1]
      BY <1>3, <3>1, Zenon
    <3>5. f[i] = i + 1
      BY <2>2, Zenon
    <3> QED BY <3>3, <3>4, <3>5, Zenon
  <2> QED BY <2>1, <2>2
<1>8. Within(t, s)
  BY <1>1, <1>5, <1>6, <1>7 DEF Within
<1> QED BY <1>4, <1>8 DEF t, a, b

LEMMA AppendElements ==
  ASSUME NEW S, NEW s \in Seq(S), NEW e \in S
  PROVE  /\ Append(s, e) \in Seq(S) /\ Len(s) \in Nat
         /\ Len(Append(s, e)) = Len(s) + 1
         /\ \A i \in DOMAIN s : /\ i \in 1 .. Len(s) /\ i \in DOMAIN Append(s, e)
                                /\ Append(s, e)[i] = s[i]
         /\ Len(s) + 1 \in DOMAIN Append(s, e) /\ Append(s, e)[Len(s) + 1] = e
         /\ \A i \in DOMAIN Append(s, e) : i \in DOMAIN s \/ i = Len(s) + 1
<1>1. /\ Append(s, e) \in Seq(S) /\ Len(Append(s, e)) = Len(s) + 1
      /\ \A i \in 1 .. Len(s) : Append(s, e)[i] = s[i]
      /\ Append(s, e)[Len(s) + 1] = e
  BY AppendProperties
<1>2. Len(s) \in Nat /\ DOMAIN s = 1 .. Len(s)
      /\ DOMAIN Append(s, e) = 1 .. Len(s) + 1
  BY <1>1, LenProperties
<1>3. /\ Len(s) + 1 \in 1 .. Len(s) + 1
      /\ \A i \in 1 .. Len(s) + 1 : i \in 1 .. Len(s) \/ i = Len(s) + 1
      /\ \A i \in 1 .. Len(s) : i \in 1 .. Len(s) + 1
  BY <1>2
<1> QED BY <1>1, <1>2, <1>3

-----------------------------------------------------------------------------
(* Types.                                                                  *)

\* What the types say of the parts.
LEMMA Elements ==
  ASSUME TypeOK
  PROVE  /\ request.n \in Nat /\ request.command \in Command /\ outcome.n \in Nat
         /\ \A i \in DOMAIN pending : pending[i] \in Call /\ pending[i].n \in Nat
         /\ \A i \in DOMAIN answers : answers[i] \in Header /\ answers[i].n \in Nat
         /\ \A i \in DOMAIN executed : executed[i] \in Nat
         /\ \A n \in abandoned : n \in Nat
         /\ \A i \in 1 .. request.n : i \in DOMAIN calls /\ calls[i] \in EcCommand
<1>1. request.n \in Nat /\ request.command \in Command /\ outcome.n \in Nat
  BY DEF TypeOK, Call
<1>2. \A i \in DOMAIN pending : pending[i] \in Call
  BY DEF TypeOK
<1>3. \A i \in DOMAIN answers : answers[i] \in Header
  BY DEF TypeOK
<1>4. \A i \in DOMAIN executed : executed[i] \in Nat
  BY DEF TypeOK
<1>5. \A i \in 1 .. request.n : i \in DOMAIN calls /\ calls[i] \in EcCommand
  <2>1. calls \in Seq(EcCommand) /\ Len(calls) = request.n
    BY DEF TypeOK
  <2> QED BY <2>1
<1>6. (\A c \in Call : c.n \in Nat) /\ (\A h \in Header : h.n \in Nat)
  BY DEF Call, Header
<1>7. \A n \in abandoned : n \in Nat
  BY DEF TypeOK
<1> QED BY <1>1, <1>2, <1>3, <1>4, <1>5, <1>6, <1>7

\* The EC's answer is a header.
LEMMA AnswerType ==
  ASSUME NEW kind \in Kind, NEW discriminant \in Discriminant, NEW call \in Call
  PROVE  /\ AnswerTo(kind, discriminant, call) \in Header
         /\ AnswerTo(kind, discriminant, call).n = call.n
<1>1. /\ call.command.service_id \in Nat /\ call.command.response_id \in Nat
      /\ call.n \in Nat
  BY CommandAssumption DEF Call
<1>2. (CASE kind = "headless" -> "none"
         [] kind \in {"short", "long"} -> kind
         [] OTHER -> "exact") \in BodyLen
  BY DEF BodyLen
<1> QED BY <1>1, <1>2, DiscriminantAssumption DEF AnswerTo, Header

\* A request that is relayed: the round-trip is the next one.
LEMMA Relays ==
  ASSUME IInv, NEW m, NEW c \in try_from(m), Invoke(c), calls' = Append(calls, c)
  PROVE  /\ c \in EcCommand
         /\ request'.n = request.n + 1 /\ request'.command = c /\ request' \in Call
         /\ calls' \in Seq(EcCommand) /\ Len(calls') = request.n + 1
         /\ \A i \in 1 .. request.n : calls'[i] = calls[i]
         /\ calls'[request.n + 1] = c
<1>1. c \in EcCommand /\ c \in Command
  BY EcCommandAssumption DEF try_from
<1>2. request.n \in Nat /\ calls \in Seq(EcCommand) /\ Len(calls) = request.n
  BY Elements DEF IInv, TypeOK
<1>3. request' = [command |-> c, n |-> request.n + 1]
  BY DEF Invoke
<1>4. request'.n = request.n + 1 /\ request'.command = c /\ request' \in Call
  BY <1>1, <1>2, <1>3 DEF Call
<1>5. /\ calls' \in Seq(EcCommand) /\ Len(calls') = Len(calls) + 1
      /\ \A i \in 1 .. Len(calls) : calls'[i] = calls[i]
      /\ calls'[Len(calls) + 1] = c
  BY <1>1, <1>2, AppendProperties
<1> QED BY <1>1, <1>2, <1>4, <1>5

\* The handler's steps, and those that leave it alone.
LEMMA HandledStep ==
  ASSUME IInv, [ServicesNext]_all
  PROVE  Handled'
<1>0. TypeOK /\ Handled /\ Outcome
  BY DEF IInv
<1>1. CASE UNCHANGED <<handler, request>> /\ (handling \/ UNCHANGED outcome)
  BY <1>0, <1>1 DEF Handled, Asked, handler
<1>2. ASSUME NEW m \in Message, ffa_msg_send_direct_req2(m)
      PROVE  Handled'
  <2>1. ~handling /\ msg' = m
    BY <1>2 DEF ffa_msg_send_direct_req2
  <2>2. CASE rejected(m) /\ reply' = rejection(m) /\ UNCHANGED handling
    BY <2>1, <2>2 DEF Handled
  <2>3. CASE /\ ~rejected(m) /\ handling' = TRUE /\ reply' = NoReply
             /\ \E c \in try_from(m) : Invoke(c) /\ calls' = Append(calls, c)
    <3>1. PICK c \in try_from(m) : Invoke(c) /\ calls' = Append(calls, c)
      BY <2>3
    <3>2. /\ request'.n = request.n + 1 /\ request'.command = c
          /\ calls'[request.n + 1] = c /\ request.n \in Nat
      BY <3>1, <1>0, Relays, Elements
    <3>3. request'.n # 0 /\ calls'[request'.n] = c
      BY <3>2
    <3> QED BY <2>1, <2>3, <3>2, <3>3 DEF Handled, Asked
  <2> QED BY <1>2, <2>2, <2>3 DEF ffa_msg_send_direct_req2
<1>3. CASE respond
  BY <1>0, <1>3 DEF respond, Handled, Asked, Outcome, vars
<1>4. CASE send
  BY <1>1, <1>4 DEF send, Send
<1>5. CASE return
  <2>1. UNCHANGED <<handler, request>> /\ pc = "recv"
    BY <1>5 DEF return, Return, Fail, Receive
  <2> QED BY <1>0, <1>1, <2>1 DEF Outcome
<1>6. ASSUME NEW kind \in Kind, NEW discriminant \in Discriminant,
             EcReplies(kind, discriminant)
      PROVE  Handled'
  BY <1>1, <1>6 DEF EcReplies, Reply
<1>7. CASE EcForgets
  BY <1>1, <1>7 DEF EcForgets, Forget
<1>8. CASE AnswerLost
  BY <1>1, <1>8 DEF AnswerLost, Lose
<1>9. CASE UNCHANGED all
  BY <1>1, <1>9 DEF all, vars
<1> QED
  BY <1>2, <1>3, <1>4, <1>5, <1>6, <1>7, <1>8, <1>9 DEF ServicesNext

\* A reply has the tag and the size that its request asks for.
ReplyFits(r, m) ==
  /\ r.tag \in {"None", "Ok", "Err"}
  /\ r.tag = "Ok" => \A c \in try_from(m) : r.size = Size(c)

LEMMA ReplyType ==
  ASSUME IInv, [ServicesNext]_all
  PROVE  ReplyFits(reply', msg')
<1>1. Handled'
  BY HandledStep
<1>2. CASE reply' = NoReply
  BY <1>2 DEF ReplyFits, NoReply, Reply_
<1>3. CASE rejected(msg') /\ reply' = rejection(msg')
  BY <1>3, RejectionSize DEF ReplyFits
<1>4. CASE /\ request'.command \in try_from(msg')
           /\ reply' = reply_to(request'.command, outcome')
  <2>1. request'.command \in EcCommand
    BY <1>4 DEF try_from
  <2>2. \A c \in try_from(msg') : c = request'.command
    BY <1>4, Unique DEF try_from
  <2> QED BY <1>4, <2>1, <2>2, ReplySize DEF ReplyFits
<1> QED BY <1>1, <1>2, <1>3, <1>4 DEF Handled, Asked

LEMMA TypeStep ==
  ASSUME IInv, [ServicesNext]_all
  PROVE  TypeOK'
<1>0. /\ pc \in {"idle", "send", "recv"} /\ request \in Call
      /\ outcome \in [code : {"None", "Ok", "Remote", "Err"}, n : Nat, remote : Nat]
      /\ pending \in Seq(Call) /\ answers \in Seq(Header)
      /\ msg \in Message /\ handling \in BOOLEAN
      /\ calls \in Seq(EcCommand) /\ Len(calls) = request.n
      /\ executed \in Seq(Nat) /\ abandoned \subseteq Nat
  BY DEF IInv, TypeOK
<1>a. ReplyFits(reply', msg')
  BY ReplyType
<1>b. request.n \in Nat
  BY Elements DEF IInv
<1>c. pending # <<>> => /\ Head(pending) \in Call /\ Head(pending).n \in Nat
                        /\ Tail(pending) \in Seq(Call)
  <2>1. \A c \in Call : c.n \in Nat
    BY DEF Call
  <2> QED BY <1>0, <2>1, HeadTailProperties
<1>d. pending # <<>> => Append(executed, Head(pending).n) \in Seq(Nat)
  BY <1>0, <1>c, AppendProperties
<1>1. CASE UNCHANGED <<vars, history, msg, calls>> /\ handling' \in BOOLEAN
  BY <1>0, <1>a, <1>1 DEF vars, history, TypeOK, ReplyFits
<1>2. ASSUME NEW m \in Message, ffa_msg_send_direct_req2(m)
      PROVE  TypeOK'
  <2>1. msg' = m
    BY <1>2 DEF ffa_msg_send_direct_req2
  <2>2. CASE UNCHANGED <<vars, handling, calls, history>>
    BY <1>0, <1>a, <2>1, <2>2 DEF vars, history, TypeOK, ReplyFits
  <2>3. CASE /\ handling' = TRUE /\ UNCHANGED history
             /\ \E c \in try_from(m) : Invoke(c) /\ calls' = Append(calls, c)
    <3>1. PICK c \in try_from(m) : Invoke(c) /\ calls' = Append(calls, c)
      BY <2>3
    <3>2. /\ request' \in Call /\ calls' \in Seq(EcCommand)
          /\ Len(calls') = request'.n
      BY <3>1, Relays
    <3>3. /\ pc' = "send" /\ UNCHANGED <<pending, answers>>
          /\ outcome' \in [code : {"None", "Ok", "Remote", "Err"}, n : Nat, remote : Nat]
      BY <3>1 DEF Invoke, NoOutcome
    <3> QED BY <1>0, <1>a, <2>1, <2>3, <3>2, <3>3 DEF history, TypeOK, ReplyFits
  <2> QED BY <1>2, <2>2, <2>3 DEF ffa_msg_send_direct_req2
<1>3. CASE respond
  BY <1>1, <1>3 DEF respond
<1>4. CASE send
  <2>1. pending' \in Seq(Call)
    BY <1>0, <1>4, AppendProperties DEF send, Send
  <2> QED BY <1>0, <1>a, <1>4, <2>1 DEF send, Send, handler, history, TypeOK, ReplyFits
<1>5. CASE return
  <2>1. UNCHANGED <<request, pending, handler, executed>> /\ pc' = "idle"
    BY <1>5 DEF return, Return, Fail, Receive
  <2>2. abandoned' \subseteq Nat
    BY <1>0, <1>b, <1>5 DEF return
  <2>3. /\ answers' \in Seq(Header)
        /\ outcome' \in [code : {"None", "Ok", "Remote", "Err"}, n : Nat, remote : Nat]
    <3>1. answers # <<>> => /\ Head(answers) \in Header /\ Head(answers).n \in Nat
                            /\ Tail(answers) \in Seq(Header)
      <4>1. \A h \in Header : h.n \in Nat
        BY DEF Header
      <4> QED BY <1>0, <4>1, HeadTailProperties
    <3>2. CASE Fail
      BY <1>0, <3>1, <3>2 DEF Fail
    <3>3. CASE Receive
      <4>1. answers # <<>> /\ answers' = Tail(answers)
        BY <3>3 DEF Receive
      <4>2. \A code : RemoteCode(code, Head(answers)) \in Nat
        BY <3>1, <4>1 DEF RemoteCode, Header
      <4>3. \E code \in {"Ok", "Remote", "Err"} :
              outcome' = [code |-> code, n |-> Head(answers).n,
                          remote |-> RemoteCode(code, Head(answers))]
        BY <3>3 DEF Receive
      <4> QED BY <3>1, <4>1, <4>2, <4>3
    <3> QED BY <1>5, <3>2, <3>3 DEF return, Return
  <2> QED BY <1>0, <1>a, <2>1, <2>2, <2>3 DEF handler, TypeOK, ReplyFits
<1>6. ASSUME NEW kind \in Kind, NEW discriminant \in Discriminant,
             EcReplies(kind, discriminant)
      PROVE  TypeOK'
  <2>1. /\ pending # <<>> /\ pending' = Tail(pending)
        /\ answers' = Append(answers, AnswerTo(kind, discriminant, Head(pending)))
        /\ UNCHANGED <<pc, request, outcome, handler, abandoned>>
        /\ executed' \in {executed, Append(executed, Head(pending).n)}
    BY <1>6 DEF EcReplies, Reply
  <2>2. answers' \in Seq(Header)
    BY <1>0, <1>c, <2>1, AnswerType, AppendProperties
  <2>3. executed' \in Seq(Nat)
    BY <1>0, <1>d, <2>1
  <2> QED BY <1>0, <1>a, <1>c, <2>1, <2>2, <2>3 DEF handler, TypeOK, ReplyFits
<1>7. CASE EcForgets
  <2>1. /\ pending # <<>> /\ pending' = Tail(pending)
        /\ UNCHANGED <<pc, request, outcome, answers, handler, abandoned>>
        /\ executed' \in {executed, Append(executed, Head(pending).n)}
    BY <1>7 DEF EcForgets, Forget
  <2>2. executed' \in Seq(Nat)
    BY <1>0, <1>d, <2>1
  <2> QED BY <1>0, <1>a, <1>c, <2>1, <2>2 DEF handler, TypeOK, ReplyFits
<1>8. CASE AnswerLost
  <2>1. UNCHANGED <<pc, request, outcome, pending, handler, history>>
    BY <1>8 DEF AnswerLost, Lose
  <2>2. answers' \in Seq(Header)
    BY <1>0, <1>8, WithinRemove DEF AnswerLost, Lose
  <2> QED BY <1>0, <1>a, <2>1, <2>2 DEF handler, history, TypeOK, ReplyFits
<1>9. CASE UNCHANGED all
  BY <1>0, <1>1, <1>9 DEF all, handler
<1> QED
  BY <1>2, <1>3, <1>4, <1>5, <1>6, <1>7, <1>8, <1>9 DEF ServicesNext

-----------------------------------------------------------------------------
(* Order and execution.                                                    *)

\* A step that only takes from what is on its way keeps the order.
LEMMA OrderKept ==
  ASSUME IInv, Within(pending', pending), Within(answers', answers)
  PROVE  InOrder'
<1>1. PICK f \in [DOMAIN pending' -> DOMAIN pending] :
        /\ \A i \in DOMAIN pending' : pending'[i] = pending[f[i]]
        /\ \A i, j \in DOMAIN pending' : i < j => f[i] < f[j]
  BY DEF Within
<1>2. PICK g \in [DOMAIN answers' -> DOMAIN answers] :
        /\ \A i \in DOMAIN answers' : answers'[i] = answers[g[i]]
        /\ \A i, j \in DOMAIN answers' : i < j => g[i] < g[j]
  BY DEF Within
<1>3. /\ \A i \in DOMAIN pending' : f[i] \in DOMAIN pending
      /\ \A i \in DOMAIN answers' : g[i] \in DOMAIN answers
  BY <1>1, <1>2
<1>4. InOrder
  BY DEF IInv
<1> QED BY <1>1, <1>2, <1>3, <1>4 DEF InOrder

LEMMA OrderStep ==
  ASSUME IInv, [ServicesNext]_all
  PROVE  InOrder'
<1>0. TypeOK /\ Flight /\ InOrder
  BY DEF IInv
<1>a. pending \in Seq(Call) /\ answers \in Seq(Header)
  BY <1>0 DEF TypeOK
<1>b. Within(pending, pending) /\ Within(answers, answers)
  BY WithinSame
<1>c. pending # <<>> => Within(Tail(pending), pending)
  BY <1>a, WithinTail
<1>d. answers # <<>> => Within(Tail(answers), answers)
  BY <1>a, WithinTail
<1>1. CASE UNCHANGED <<pending, answers>>
  BY <1>1, <1>b, OrderKept
<1>2. ASSUME NEW m \in Message, ffa_msg_send_direct_req2(m)
      PROVE  InOrder'
  BY <1>1, <1>2 DEF ffa_msg_send_direct_req2, Invoke, vars
<1>3. CASE respond
  BY <1>1, <1>3 DEF respond, vars
<1>4. CASE send
  <2>1. /\ pc = "send" /\ pending' = Append(pending, request) /\ request \in Call
        /\ UNCHANGED answers
    BY <1>0, <1>4 DEF send, Send, TypeOK
  <2>2. /\ Len(pending) \in Nat
        /\ \A i \in DOMAIN pending : i \in 1 .. Len(pending)
        /\ \A i \in DOMAIN pending' :
             \/ i \in DOMAIN pending /\ pending'[i] = pending[i]
             \/ i = Len(pending) + 1 /\ pending'[i] = request
    BY <1>a, <2>1, AppendElements
  <2>3. /\ \A i \in DOMAIN pending : pending[i].n < request.n
        /\ \A i \in DOMAIN answers : answers[i].n < request.n
    BY <1>0, <2>1 DEF Flight, Sent
  <2>4. \A i, j \in DOMAIN pending' : i < j => pending'[i].n < pending'[j].n
    BY <1>0, <2>2, <2>3 DEF InOrder
  <2> QED BY <1>0, <2>1, <2>2, <2>3, <2>4 DEF InOrder
<1>5. CASE return
  <2>1. UNCHANGED pending /\ Within(answers', answers)
    BY <1>b, <1>d, <1>5 DEF return, Return, Fail, Receive
  <2> QED BY <1>b, <2>1, OrderKept
<1>6. ASSUME NEW kind \in Kind, NEW discriminant \in Discriminant,
             EcReplies(kind, discriminant)
      PROVE  InOrder'
  <2>1. /\ pending # <<>> /\ pending' = Tail(pending)
        /\ answers' = Append(answers, AnswerTo(kind, discriminant, Head(pending)))
    BY <1>6 DEF EcReplies, Reply
  <2>2. /\ 1 \in DOMAIN pending /\ Head(pending) = pending[1] /\ pending[1] \in Call
        /\ \A i \in DOMAIN pending' : /\ i \in Nat /\ i + 1 \in DOMAIN pending
                                      /\ 1 < i + 1 /\ pending'[i] = pending[i + 1]
    BY <1>a, <2>1, WithinTail
  <2> DEFINE h == AnswerTo(kind, discriminant, Head(pending))
  <2>3. h \in Header /\ h.n = pending[1].n
    BY <2>2, AnswerType
  <2> HIDE DEF h
  <2>4. /\ Len(answers) \in Nat
        /\ \A i \in DOMAIN answers : i \in 1 .. Len(answers)
        /\ \A i \in DOMAIN answers' :
             \/ i \in DOMAIN answers /\ answers'[i] = answers[i]
             \/ i = Len(answers) + 1 /\ answers'[i] = h
    BY <1>a, <2>1, <2>3, AppendElements DEF h
  <2>5. \A i, j \in DOMAIN answers' : i < j => answers'[i].n < answers'[j].n
    BY <1>0, <2>2, <2>3, <2>4 DEF InOrder
  <2>6. \A i \in DOMAIN answers', j \in DOMAIN pending' :
          answers'[i].n < pending'[j].n
    BY <1>0, <2>2, <2>3, <2>4 DEF InOrder
  <2>7. \A i, j \in DOMAIN pending' : i < j => pending'[i].n < pending'[j].n
    BY <1>0, <2>2 DEF InOrder
  <2> QED BY <2>5, <2>6, <2>7 DEF InOrder
<1>7. CASE EcForgets
  <2>1. UNCHANGED answers /\ Within(pending', pending)
    BY <1>c, <1>7 DEF EcForgets, Forget
  <2> QED BY <1>b, <2>1, OrderKept
<1>8. CASE AnswerLost
  <2>1. UNCHANGED pending /\ Within(answers', answers)
    BY <1>a, <1>8, WithinRemove DEF AnswerLost, Lose
  <2> QED BY <1>b, <2>1, OrderKept
<1>9. CASE UNCHANGED all
  BY <1>1, <1>9 DEF all, vars
<1> QED
  BY <1>2, <1>3, <1>4, <1>5, <1>6, <1>7, <1>8, <1>9 DEF ServicesNext

\* The EC takes a request, and may execute it.
LEMMA Executes ==
  ASSUME IInv, pending # <<>>, pending' = Tail(pending), UNCHANGED <<pc, request>>,
         executed' \in {executed, Append(executed, Head(pending).n)}
  PROVE  /\ Execution'
         /\ \A n : Executed(n) => Executed(n)'
         /\ \A n : Executed(n)' => Executed(n) \/ n = Head(pending).n
         /\ \A n : executed' # executed /\ n = Head(pending).n => Executed(n)'
<1>0. TypeOK /\ Flight /\ InOrder /\ Execution
  BY DEF IInv
<1>1. /\ 1 \in DOMAIN pending /\ Head(pending) = pending[1]
      /\ \A i \in DOMAIN pending' : /\ i \in Nat /\ i + 1 \in DOMAIN pending
                                    /\ 1 < i + 1 /\ pending'[i] = pending[i + 1]
  BY <1>0, WithinTail DEF TypeOK
<1>2. PICK n \in Nat : n = Head(pending).n /\ n = pending[1].n
  BY <1>0, <1>1, Elements
<1>3. /\ n <= request.n /\ (pc = "send" => n < request.n)
      /\ \A j \in DOMAIN pending' : n < pending'[j].n
      /\ \A i \in DOMAIN executed : executed[i] < n
  BY <1>0, <1>1, <1>2 DEF Flight, Sent, InOrder, Execution
<1>4. \A i \in DOMAIN executed : /\ executed[i] <= request.n
                                 /\ pc = "send" => executed[i] < request.n
                                 /\ \A j \in DOMAIN pending' : executed[i] < pending'[j].n
  BY <1>0, <1>1 DEF Execution
<1>5. CASE executed' = executed
  <2>1. Execution'
    BY <1>0, <1>4, <1>5 DEF Execution
  <2> QED BY <1>5, <2>1 DEF Executed
<1>6. CASE executed' = Append(executed, n)
  <2>1. /\ Len(executed) \in Nat
        /\ \A i \in DOMAIN executed : /\ i \in 1 .. Len(executed)
                                      /\ i \in DOMAIN executed'
                                      /\ executed'[i] = executed[i]
        /\ Len(executed) + 1 \in DOMAIN executed' /\ executed'[Len(executed) + 1] = n
        /\ \A i \in DOMAIN executed' : i \in DOMAIN executed \/ i = Len(executed) + 1
    BY <1>0, <1>6, AppendElements DEF TypeOK
  <2>2. \A i \in DOMAIN executed' :
          \/ i \in DOMAIN executed /\ executed'[i] = executed[i] /\ executed'[i] < n
          \/ i = Len(executed) + 1 /\ executed'[i] = n
    BY <1>3, <2>1
  <2>3. \A i, j \in DOMAIN executed' : executed'[i] = executed'[j] => i = j
    <3>1. \A i \in DOMAIN executed : executed[i] \in Nat
      BY <1>0, Elements
    <3> QED BY <1>0, <2>2, <3>1 DEF Execution
  <2>4. Execution'
    BY <1>3, <1>4, <2>2, <2>3 DEF Execution
  <2>5. \A m : Executed(m) => Executed(m)'
    BY <2>1 DEF Executed
  <2>6. \A m : Executed(m)' => Executed(m) \/ m = n
    BY <2>2 DEF Executed
  <2>7. Executed(n)'
    BY <2>1 DEF Executed
  <2> QED BY <1>2, <2>4, <2>5, <2>6, <2>7
<1> QED BY <1>2, <1>5, <1>6

LEMMA ExecutionStep ==
  ASSUME IInv, [ServicesNext]_all
  PROVE  Execution'
<1>0. TypeOK /\ Execution
  BY DEF IInv
<1>a. request.n \in Nat /\ \A i \in DOMAIN executed : executed[i] \in Nat
  BY <1>0, Elements
<1>1. CASE UNCHANGED <<request, pending, executed>> /\ (pc' = pc \/ pc' # "send")
  BY <1>0, <1>1 DEF Execution
<1>2. ASSUME NEW m \in Message, ffa_msg_send_direct_req2(m)
      PROVE  Execution'
  <2>1. CASE UNCHANGED <<vars, history>>
    BY <1>1, <2>1 DEF vars, history
  <2>2. CASE \E c : Invoke(c) /\ UNCHANGED history
    <3>1. /\ pc' = "send" /\ request'.n = request.n + 1
          /\ UNCHANGED <<pending, executed>>
      BY <2>2 DEF Invoke, history
    <3>2. \A i \in DOMAIN executed : executed[i] <= request'.n /\ executed[i] < request'.n
      BY <1>0, <1>a, <3>1 DEF Execution
    <3> QED BY <1>0, <3>1, <3>2 DEF Execution
  <2> QED BY <1>2, <2>1, <2>2 DEF ffa_msg_send_direct_req2
<1>3. CASE respond
  BY <1>1, <1>3 DEF respond, vars, history
<1>4. CASE send
  <2>1. /\ pc = "send" /\ pc' = "recv" /\ pending' = Append(pending, request)
        /\ request \in Call /\ pending \in Seq(Call) /\ UNCHANGED <<request, executed>>
    BY <1>0, <1>4 DEF send, Send, TypeOK, history
  <2>2. \A j \in DOMAIN pending' : \/ j \in DOMAIN pending /\ pending'[j] = pending[j]
                                   \/ pending'[j] = request
    BY <2>1, AppendElements
  <2> QED BY <1>0, <2>1, <2>2 DEF Execution
<1>5. CASE return
  BY <1>1, <1>5 DEF return, Return, Fail, Receive
<1>6. ASSUME NEW kind \in Kind, NEW discriminant \in Discriminant,
             EcReplies(kind, discriminant)
      PROVE  Execution'
  BY <1>6, Executes DEF EcReplies, Reply
<1>7. CASE EcForgets
  BY <1>7, Executes DEF EcForgets, Forget
<1>8. CASE AnswerLost
  BY <1>1, <1>8 DEF AnswerLost, Lose, history
<1>9. CASE UNCHANGED all
  BY <1>1, <1>9 DEF all, vars, history
<1> QED
  BY <1>2, <1>3, <1>4, <1>5, <1>6, <1>7, <1>8, <1>9 DEF ServicesNext

-----------------------------------------------------------------------------
(* What is on its way.                                                     *)

\* A step that keeps the numbers above k sent, the commands of the calls made
\* and what the EC has made of the numbers below p, keeps the answers between.
AnswersKept(k, p) ==
  /\ \A n \in Nat : Sent(n) /\ k < n => Sent(n)'
  /\ \A n \in 1 .. request.n : calls'[n] = calls[n]
  /\ \A n \in Nat : n < p => (Executed(n)' <=> Executed(n))

LEMMA AnswerKept ==
  ASSUME NEW k, NEW p, AnswersKept(k, p), NEW h \in Header,
         Sent(h.n), Genuine(h), k < h.n, h.n < p
  PROVE  (Sent(h.n) /\ Genuine(h))'
<1>1. h.n \in Nat /\ h.n \in 1 .. request.n
  BY DEF Header, Sent
<1>2. Sent(h.n)'
  BY <1>1 DEF AnswersKept
<1>3. calls'[h.n] = calls[h.n] /\ (Executed(h.n)' <=> Executed(h.n))
  BY <1>1 DEF AnswersKept
<1> QED BY <1>2, <1>3 DEF Genuine

\* A step that only takes from what is on its way.
LEMMA FlightKept ==
  ASSUME IInv, NEW k, NEW p, AnswersKept(k, p),
         Within(pending', pending), Within(answers', answers),
         \A i \in DOMAIN pending' : k < pending'[i].n,
         \A i \in DOMAIN answers' : k < answers'[i].n /\ answers'[i].n < p
  PROVE  Flight'
<1>0. TypeOK /\ Flight
  BY DEF IInv
<1>1. ASSUME NEW i \in DOMAIN pending'
      PROVE  (Sent(pending[i].n) /\ pending[i].command = calls[pending[i].n])'
  <2>1. PICK j \in DOMAIN pending : pending'[i] = pending[j]
    BY DEF Within
  <2>2. PICK c \in Call : c = pending'[i] /\ c = pending[j]
    BY <1>0, <2>1, Elements
  <2>3. Sent(c.n) /\ c.command = calls[c.n] /\ k < c.n /\ c.n \in Nat
    BY <1>0, <2>2, Elements DEF Flight
  <2>4. Sent(c.n)' /\ calls'[c.n] = calls[c.n]
    BY <2>3 DEF AnswersKept, Sent
  <2> QED BY <2>2, <2>3, <2>4
<1>2. ASSUME NEW i \in DOMAIN answers'
      PROVE  (Sent(answers[i].n) /\ Genuine(answers[i]))'
  <2>1. PICK j \in DOMAIN answers : answers'[i] = answers[j]
    BY DEF Within
  <2>2. PICK h \in Header : h = answers'[i] /\ h = answers[j]
    BY <1>0, <2>1, Elements
  <2>3. Sent(h.n) /\ Genuine(h) /\ k < h.n /\ h.n < p
    BY <1>0, <2>2 DEF Flight
  <2>4. (Sent(h.n) /\ Genuine(h))'
    BY <2>3, AnswerKept
  <2> QED BY <2>2, <2>4
<1> QED BY <1>1, <1>2 DEF Flight

LEMMA FlightStep ==
  ASSUME IInv, [ServicesNext]_all
  PROVE  Flight'
<1>0. TypeOK /\ Flight /\ InOrder /\ Execution /\ Outcome
  BY DEF IInv
<1>a. /\ pending \in Seq(Call) /\ answers \in Seq(Header) /\ request.n \in Nat
      /\ request \in Call /\ outcome.n \in Nat
  BY <1>0, Elements DEF TypeOK
<1>b. Within(pending, pending) /\ Within(answers, answers)
  BY WithinSame
<1>c. /\ \A i \in DOMAIN pending : 0 < pending[i].n
      /\ \A i \in DOMAIN answers : /\ 0 < answers[i].n /\ answers[i].n < request.n + 1
                                   /\ answers[i].n \in Nat
  BY <1>0, <1>a, Elements DEF Flight, Sent
<1>d. \A t : Within(t, answers) => \A i \in DOMAIN t : \E j \in DOMAIN answers :
                                                      t[i] = answers[j]
  BY DEF Within
<1>1. CASE UNCHANGED <<vars, calls, history>>
  <2>1. AnswersKept(0, request.n + 1)
    BY <1>1 DEF AnswersKept, Sent, Executed, vars, history
  <2> QED BY <1>1, <1>b, <1>c, <2>1, FlightKept DEF vars
<1>2. ASSUME NEW m \in Message, ffa_msg_send_direct_req2(m)
      PROVE  Flight'
  <2>1. CASE UNCHANGED <<vars, calls, history>>
    BY <1>1, <2>1
  <2>2. CASE /\ \E c \in try_from(m) : Invoke(c) /\ calls' = Append(calls, c)
             /\ UNCHANGED history
    <3>1. PICK c \in try_from(m) : Invoke(c) /\ calls' = Append(calls, c)
      BY <2>2
    <3>2. /\ pc = "idle" /\ pc' = "send" /\ outcome'.n = 0
          /\ UNCHANGED <<pending, answers, executed, abandoned>>
      BY <2>2, <3>1 DEF Invoke, NoOutcome, history
    <3>3. /\ request'.n = request.n + 1
          /\ \A i \in 1 .. request.n : calls'[i] = calls[i]
      BY <3>1, Relays
    <3>4. \A n \in Nat : Sent(n) => Sent(n)'
      BY <1>a, <3>2, <3>3 DEF Sent
    <3>5. AnswersKept(0, request.n + 1)
      BY <3>2, <3>3, <3>4 DEF AnswersKept, Executed
    <3> QED BY <1>b, <1>c, <3>2, <3>5, FlightKept
  <2> QED BY <1>2, <2>1, <2>2 DEF ffa_msg_send_direct_req2
<1>3. CASE respond
  BY <1>1, <1>3 DEF respond
<1>4. CASE send
  <2>1. /\ pc = "send" /\ pc' = "recv" /\ pending' = Append(pending, request)
        /\ UNCHANGED <<request, outcome, answers, calls, executed, abandoned>>
    BY <1>4 DEF send, Send, handler, history
  <2>2. outcome.n = 0 /\ calls[request.n] = request.command /\ request.n # 0
    BY <1>0, <2>1 DEF IInv, Outcome, NoOutcome, Handled, Asked
  <2>3. \A n \in Nat : Sent(n) \/ n = request.n => Sent(n)'
    BY <1>a, <2>1, <2>2 DEF Sent
  <2>4. \A j \in DOMAIN pending' : \/ j \in DOMAIN pending /\ pending'[j] = pending[j]
                                   \/ pending'[j] = request
    BY <1>a, <2>1, AppendElements
  <2>5. ASSUME NEW i \in DOMAIN pending'
        PROVE  (Sent(pending[i].n) /\ pending[i].command = calls[pending[i].n])'
    <3>1. PICK n \in Nat : /\ n = pending'[i].n /\ (Sent(n) \/ n = request.n)
                           /\ pending'[i].command = calls[n]
      BY <1>0, <1>a, <2>2, <2>4, Elements DEF Flight
    <3> QED BY <2>1, <2>3, <3>1
  <2>6. AnswersKept(0, request.n + 1)
    BY <2>1, <2>3 DEF AnswersKept, Executed
  <2>7. ASSUME NEW i \in DOMAIN answers'
        PROVE  (Sent(answers[i].n) /\ Genuine(answers[i]))'
    <3>1. PICK h \in Header : h = answers'[i] /\ h = answers[i]
      BY <1>0, <2>1, Elements
    <3>2. (Sent(h.n) /\ Genuine(h))'
      BY <1>0, <1>c, <2>1, <2>6, <3>1, AnswerKept DEF Flight
    <3> QED BY <3>1, <3>2
  <2> QED BY <2>5, <2>7 DEF Flight
<1>5. CASE return
  <2>1. /\ pc = "recv" /\ pc' = "idle"
        /\ UNCHANGED <<request, pending, calls, executed>>
        /\ abandoned' = abandoned \cup (IF outcome'.n = 0 THEN {request.n} ELSE {})
    BY <1>5 DEF return, Return, Fail, Receive, handler
  <2>2. CASE Fail
    <3>1. outcome'.n = 0 /\ Within(answers', answers)
      BY <1>a, <1>b, <2>2, WithinTail DEF Fail
    <3>2. \A n \in Nat : Sent(n) => Sent(n)'
      BY <1>a, <2>1, <3>1 DEF Sent
    <3>3. AnswersKept(0, request.n + 1)
      BY <2>1, <3>2 DEF AnswersKept, Executed
    <3> QED BY <1>b, <1>c, <1>d, <2>1, <3>1, <3>3, FlightKept
  <2>3. CASE Receive
    <3>1. answers # <<>> /\ answers' = Tail(answers) /\ outcome'.n = Head(answers).n
      BY <2>3 DEF Receive
    <3>2. /\ Within(answers', answers)
          /\ 1 \in DOMAIN answers /\ Head(answers) = answers[1]
          /\ \A i \in DOMAIN answers' : /\ i \in Nat /\ i + 1 \in DOMAIN answers
                                        /\ 1 < i + 1 /\ answers'[i] = answers[i + 1]
      BY <1>a, <3>1, WithinTail
    <3>3. PICK k \in Nat : k = answers[1].n /\ k = outcome'.n /\ Sent(k)
      BY <1>0, <3>1, <3>2, Elements DEF Flight
    <3>4. ASSUME NEW n \in Nat, Sent(n), k < n PROVE Sent(n)'
      <4>1. CASE n < request.n
        BY <1>a, <2>1, <3>3, <3>4, <4>1 DEF Sent
      <4>2. CASE ~(n < request.n)
        <5>1. PICK a \in abandoned : a <= k
          BY <1>a, <3>3, <3>4, <4>2 DEF Sent
        <5>2. a \in abandoned' /\ a <= n
          BY <1>0, <2>1, <3>4, <5>1, Elements
        <5> QED BY <2>1, <3>3, <3>4, <5>2 DEF Sent
      <4> QED BY <4>1, <4>2
    <3>5. AnswersKept(k, request.n + 1)
      BY <2>1, <3>4 DEF AnswersKept, Executed
    <3>6. /\ \A i \in DOMAIN answers' : k < answers'[i].n
          /\ \A i \in DOMAIN pending : k < pending[i].n
      BY <1>0, <3>2, <3>3 DEF InOrder
    <3> QED BY <1>b, <1>c, <1>d, <2>1, <3>2, <3>5, <3>6, FlightKept
  <2> QED BY <1>5, <2>2, <2>3 DEF return, Return
<1>6. ASSUME NEW kind \in Kind, NEW discriminant \in Discriminant,
             EcReplies(kind, discriminant)
      PROVE  Flight'
  <2>1. /\ pending # <<>> /\ pending' = Tail(pending)
        /\ answers' = Append(answers, AnswerTo(kind, discriminant, Head(pending)))
        /\ UNCHANGED <<pc, request, outcome, calls, abandoned>>
        /\ executed' = IF kind = "error" THEN executed
                       ELSE Append(executed, Head(pending).n)
    BY <1>6 DEF EcReplies, Reply, handler
  <2>2. /\ 1 \in DOMAIN pending /\ Head(pending) = pending[1]
        /\ \A i \in DOMAIN pending' : /\ i \in Nat /\ i + 1 \in DOMAIN pending
                                      /\ 1 < i + 1 /\ pending'[i] = pending[i + 1]
    BY <1>a, <2>1, WithinTail
  <2>3. PICK c \in Call : c = Head(pending) /\ c = pending[1]
    BY <1>0, <2>2, Elements
  <2>4. /\ \A n : Executed(n) => Executed(n)'
        /\ \A n : Executed(n)' => Executed(n) \/ n = c.n
        /\ executed' # executed => Executed(c.n)'
    BY <2>1, <2>3, Executes
  <2>5. /\ Sent(c.n) /\ c.n \in Nat /\ c.command = calls[c.n]
        /\ \A i \in DOMAIN executed : executed[i] < c.n
        /\ \A i \in DOMAIN answers : answers[i].n < c.n
    BY <1>0, <2>2, <2>3, Elements DEF Flight, InOrder, Execution
  <2>6. \A n : Sent(n) => Sent(n)'
    BY <2>1 DEF Sent
  <2>7. AnswersKept(0, c.n)
    <3>1. \A n \in Nat : n < c.n => (Executed(n)' <=> Executed(n))
      BY <2>4, <2>5
    <3> QED BY <2>1, <2>6, <3>1 DEF AnswersKept
  <2> DEFINE h == AnswerTo(kind, discriminant, c)
  <2>8. /\ h \in Header /\ h.n = c.n /\ h.service_id = c.command.service_id
        /\ h.is_error <=> kind = "error"
        /\ kind # "error" => h.message_id = c.command.response_id
    BY AnswerType DEF AnswerTo
  <2>9. /\ kind = "error" => ~Executed(c.n)'
        /\ kind # "error" => Executed(c.n)'
    <3>1. CASE kind = "error"
      BY <2>1, <2>5, <3>1 DEF Executed
    <3>2. CASE kind # "error"
      <4>1. executed' = Append(executed, c.n) /\ executed \in Seq(Nat)
        BY <1>0, <2>1, <2>3, <3>2 DEF TypeOK
      <4>2. Len(executed) + 1 \in DOMAIN executed' /\ executed'[Len(executed) + 1] = c.n
        BY <2>5, <4>1, AppendElements
      <4> QED BY <3>2, <4>2 DEF Executed
    <3> QED BY <3>1, <3>2
  <2>10. (Sent(h.n) /\ Genuine(h))'
    <3>1. calls'[c.n] = c.command
      BY <2>1, <2>5
    <3> QED BY <2>5, <2>6, <2>8, <2>9, <3>1 DEF Genuine
  <2> HIDE DEF h
  <2>11. \A i \in DOMAIN answers' :
           \/ i \in DOMAIN answers /\ answers'[i] = answers[i]
           \/ answers'[i] = h
    BY <1>a, <2>1, <2>3, <2>8, AppendElements DEF h
  <2>12. ASSUME NEW i \in DOMAIN answers'
         PROVE  (Sent(answers[i].n) /\ Genuine(answers[i]))'
    <3>1. PICK g \in Header : g = answers'[i]
      BY <1>0, <2>8, <2>11, Elements
    <3>2. CASE g = h
      BY <2>10, <3>1, <3>2
    <3>3. CASE i \in DOMAIN answers /\ g = answers[i]
      <4>1. (Sent(g.n) /\ Genuine(g))'
        BY <1>0, <1>c, <2>5, <2>7, <3>3, AnswerKept DEF Flight
      <4> QED BY <3>1, <4>1
    <3> QED BY <2>11, <3>1, <3>2, <3>3
  <2>13. ASSUME NEW i \in DOMAIN pending'
         PROVE  (Sent(pending[i].n) /\ pending[i].command = calls[pending[i].n])'
    <3>1. PICK n : n = pending'[i].n /\ Sent(n) /\ pending'[i].command = calls[n]
      BY <1>0, <2>2 DEF Flight
    <3> QED BY <2>1, <2>6, <3>1
  <2> QED BY <2>12, <2>13 DEF Flight
<1>7. CASE EcForgets
  <2>1. /\ pending # <<>> /\ pending' = Tail(pending)
        /\ executed' \in {executed, Append(executed, Head(pending).n)}
        /\ UNCHANGED <<pc, request, outcome, answers, calls, abandoned>>
    BY <1>7 DEF EcForgets, Forget, handler
  <2>2. /\ 1 \in DOMAIN pending /\ Head(pending) = pending[1] /\ Within(pending', pending)
        /\ \A i \in DOMAIN pending' : /\ i + 1 \in DOMAIN pending
                                      /\ pending'[i] = pending[i + 1]
    BY <1>a, <2>1, WithinTail
  <2>3. PICK p \in Nat : p = Head(pending).n /\ p = pending[1].n
    BY <1>0, <2>2, Elements
  <2>4. \A n : (Executed(n) => Executed(n)') /\ (Executed(n)' => Executed(n) \/ n = p)
    BY <2>1, <2>3, Executes
  <2>5. AnswersKept(0, p)
    BY <2>1, <2>3, <2>4 DEF AnswersKept, Sent
  <2>6. /\ \A i \in DOMAIN answers' : 0 < answers'[i].n /\ answers'[i].n < p
        /\ \A i \in DOMAIN pending' : 0 < pending'[i].n
    BY <1>0, <1>c, <2>1, <2>2, <2>3 DEF InOrder
  <2> QED BY <1>b, <2>1, <2>2, <2>5, <2>6, FlightKept
<1>8. CASE AnswerLost
  <2>1. UNCHANGED <<pc, request, outcome, pending, calls, history>>
        /\ Within(answers', answers)
    BY <1>a, <1>8, WithinRemove DEF AnswerLost, Lose, handler
  <2>2. AnswersKept(0, request.n + 1)
    BY <2>1 DEF AnswersKept, Sent, Executed, history
  <2> QED BY <1>b, <1>c, <1>d, <2>1, <2>2, FlightKept
<1>9. CASE UNCHANGED all
  BY <1>1, <1>9 DEF all, handler
<1> QED
  BY <1>2, <1>3, <1>4, <1>5, <1>6, <1>7, <1>8, <1>9 DEF ServicesNext

-----------------------------------------------------------------------------
(* What a round-trip returns.                                              *)

\* A step that leaves the outcome alone, and what the EC has made of it.
LEMMA OutcomeKept ==
  ASSUME IInv, UNCHANGED <<pc, request, outcome, calls, abandoned>>,
         (pc # "idle" => UNCHANGED handling) /\ (handling' => handling),
         \A n \in Nat : n = outcome.n => (Executed(n)' <=> Executed(n))
  PROVE  Outcome'
<1>1. PICK n \in Nat : n = outcome.n
  BY Elements DEF IInv
<1>2. Executed(n)' <=> Executed(n)
  BY <1>1
<1>3. Executed(outcome.n)' <=> Executed(outcome.n)
  BY <1>1, <1>2
<1>4. Outcome
  BY DEF IInv
<1> QED BY <1>3, <1>4 DEF Outcome, NoOutcome

LEMMA OutcomeStep ==
  ASSUME IInv, [ServicesNext]_all
  PROVE  Outcome'
<1>0. TypeOK /\ Flight /\ Outcome
  BY DEF IInv
<1>a. /\ pending \in Seq(Call) /\ answers \in Seq(Header) /\ request.n \in Nat
      /\ outcome.n \in Nat
  BY <1>0, Elements DEF TypeOK
<1>1. CASE /\ UNCHANGED <<pc, request, outcome, calls, history>>
           /\ (pc # "idle" => UNCHANGED handling) /\ (handling' => handling)
  <2>1. \A n \in Nat : n = outcome.n => (Executed(n)' <=> Executed(n))
    BY <1>1 DEF Executed, history
  <2> QED BY <1>1, <2>1, OutcomeKept DEF history
<1>2. ASSUME NEW m \in Message, ffa_msg_send_direct_req2(m)
      PROVE  Outcome'
  <2>1. CASE UNCHANGED <<vars, handling, calls, history>>
    BY <1>1, <2>1 DEF vars
  <2>2. CASE handling' = TRUE /\ \E c \in try_from(m) : Invoke(c)
    <3>1. handling' /\ outcome' = NoOutcome /\ pc' = "send"
      BY <2>2 DEF Invoke
    <3> QED BY <3>1 DEF Outcome, NoOutcome
  <2> QED BY <1>2, <2>1, <2>2 DEF ffa_msg_send_direct_req2
<1>3. CASE respond
  BY <1>1, <1>3 DEF respond, vars
<1>4. CASE send
  <2>1. handling' /\ outcome' = NoOutcome /\ pc' = "recv"
    BY <1>0, <1>4 DEF send, Send, handler, Outcome
  <2> QED BY <2>1 DEF Outcome, NoOutcome
<1>5. CASE return
  <2>1. /\ pc = "recv" /\ pc' = "idle" /\ UNCHANGED <<request, calls, executed>>
        /\ abandoned \subseteq abandoned'
    BY <1>5 DEF return, Return, Fail, Receive, handler
  <2>2. CASE Fail
    <3>1. outcome' = [code |-> "Err", n |-> 0, remote |-> 0]
      BY <2>2 DEF Fail
    <3> QED BY <2>1, <3>1 DEF Outcome
  <2>3. CASE Receive
    <3>1. PICK h \in Header : h = Head(answers) /\ Sent(h.n) /\ Genuine(h)
      <4>1. answers # <<>>
        BY <2>3 DEF Receive
      <4>2. 1 \in DOMAIN answers /\ Head(answers) = answers[1] /\ answers[1] \in Header
        BY <1>a, <4>1, WithinTail
      <4> QED BY <1>0, <4>2 DEF Flight
    <3>2. PICK code \in {"Ok", "Remote", "Err"} :
            /\ code = "Ok" => Fits(h)
            /\ code = "Remote" => FromService(h) /\ h.is_error
            /\ outcome' = [code |-> code, n |-> h.n, remote |-> RemoteCode(code, h)]
      BY <2>3, <3>1 DEF Receive
    <3>3. /\ outcome'.code = code /\ outcome'.n = h.n /\ outcome'.code # "None"
          /\ h.n \in 1 .. request.n /\ h.n # 0
          /\ h.n < request.n => \E a \in abandoned' : a <= h.n
      BY <1>a, <2>1, <3>1, <3>2 DEF Sent
    <3>4. code = "Ok" => /\ Executed(h.n)
                         /\ calls[h.n].service_id = request.command.service_id
                         /\ calls[h.n].response_id = request.command.response_id
      BY <3>1, <3>2 DEF Fits, FromService, Genuine
    <3>5. code = "Remote" => ~Executed(h.n)
      BY <3>1, <3>2 DEF Genuine
    <3>6. (Executed(h.n)' <=> Executed(h.n)) /\ Executed(outcome.n)' = Executed(h.n)'
      BY <2>1, <3>3 DEF Executed
    <3> QED BY <2>1, <3>3, <3>4, <3>5, <3>6 DEF Outcome
  <2> QED BY <1>5, <2>2, <2>3 DEF return, Return
<1>6. ASSUME pending # <<>>, pending' = Tail(pending),
             executed' \in {executed, Append(executed, Head(pending).n)},
             UNCHANGED <<pc, request, outcome, calls, abandoned, handling>>
      PROVE  Outcome'
  <2>1. /\ 1 \in DOMAIN pending /\ Head(pending) = pending[1]
    BY <1>a, <1>6, WithinTail
  <2>2. outcome.n < Head(pending).n /\ Head(pending).n \in Nat
    BY <1>0, <2>1, Elements DEF Flight, Sent
  <2>3. /\ \A n : Executed(n) => Executed(n)'
        /\ \A n : Executed(n)' => Executed(n) \/ n = Head(pending).n
    BY <1>6, Executes
  <2>4. \A n \in Nat : n = outcome.n => (Executed(n)' <=> Executed(n))
    BY <1>a, <2>2, <2>3
  <2> QED BY <1>6, <2>4, OutcomeKept
<1>7. ASSUME NEW kind \in Kind, NEW discriminant \in Discriminant,
             EcReplies(kind, discriminant)
      PROVE  Outcome'
  BY <1>6, <1>7 DEF EcReplies, Reply, handler
<1>8. CASE EcForgets
  BY <1>6, <1>8 DEF EcForgets, Forget, handler
<1>9. CASE AnswerLost
  BY <1>1, <1>9 DEF AnswerLost, Lose, handler
<1>10. CASE UNCHANGED all
  BY <1>1, <1>10 DEF all, vars, handler
<1> QED
  BY <1>2, <1>3, <1>4, <1>5, <1>7, <1>8, <1>9, <1>10 DEF ServicesNext

-----------------------------------------------------------------------------
(* The theorems.                                                           *)

LEMMA InitIInv ==
  ASSUME ServicesInit
  PROVE  IInv
<1>1. /\ pc = "idle" /\ request \in [command : Command, n : {0}]
      /\ outcome = NoOutcome /\ pending = <<>> /\ answers = <<>>
      /\ handling = FALSE /\ reply = NoReply
      /\ calls = <<>> /\ executed = <<>> /\ abandoned = {}
  BY DEF ServicesInit, Init
<1>2. msg \in Message
  <2>1. msg \in [service_id : {THERMAL_SERVICE_ID}, byte : {0}, len : {4}]
    BY DEF ServicesInit
  <2>2. /\ msg.len # 0
        /\ msg \in [service_id : {THERMAL_SERVICE_ID, BATTERY_SERVICE_ID,
                                  TIME_ALARM_SERVICE_ID},
                    byte : 0 .. 9, len : {0, VARIABLE_VALUE_LEN}]
    BY <2>1 DEF VARIABLE_VALUE_LEN
  <2> QED BY <2>2 DEF Message
<1>3. /\ <<>> \in Seq(Call) /\ <<>> \in Seq(Header) /\ <<>> \in Seq(EcCommand)
      /\ <<>> \in Seq(Nat) /\ Len(<<>>) = 0
  BY EmptySeq
<1>a. /\ pending = <<>> /\ answers = <<>> /\ calls = <<>> /\ executed = <<>>
  BY <1>1
<1>4. /\ pending \in Seq(Call) /\ answers \in Seq(Header) /\ calls \in Seq(EcCommand)
      /\ executed \in Seq(Nat) /\ Len(calls) = 0
  BY <1>a, <1>3, Zenon
<1>5. DOMAIN pending = {} /\ DOMAIN answers = {} /\ DOMAIN executed = {}
  BY <1>a
<1>6. request \in Call /\ request.n = 0
  BY <1>1 DEF Call
<1>7. outcome \in [code : {"None", "Ok", "Remote", "Err"}, n : Nat, remote : Nat]
      /\ outcome.n = 0 /\ outcome.code = "None" /\ reply.tag = "None"
  BY <1>1 DEF NoOutcome, NoReply, Reply_
<1>8. TypeOK
  BY <1>1, <1>2, <1>4, <1>6, <1>7 DEF TypeOK
<1>9. Flight /\ InOrder /\ Execution
  BY <1>5 DEF Flight, InOrder, Execution
<1>10. Outcome /\ Handled
  BY <1>1, <1>7 DEF Outcome, Handled
<1> QED BY <1>8, <1>9, <1>10 DEF IInv

LEMMA IInvCorrect == ServicesSpec => []IInv
<1>1. IInv /\ [ServicesNext]_all => IInv'
  BY TypeStep, FlightStep, OrderStep, ExecutionStep, OutcomeStep, HandledStep
  DEF IInv
<1> QED BY <1>1, InitIInv, PTL DEF ServicesSpec

\* Types hold, and every reply of the Thermal, Battery and TimeAlarm handlers
\* has the size that the callers of its command decode.
THEOREM TypeCorrect == ServicesSpec => []TypeOK
<1>1. IInv => TypeOK
  BY DEF IInv
<1> QED BY <1>1, IInvCorrect, PTL

\* What the handler has relayed and answered.
LEMMA RelayedReply ==
  ASSUME IInv, Relayed
  PROVE  /\ Asked /\ ~handling /\ outcome.code # "None"
         /\ reply = reply_to(request.command, outcome)
         /\ try_from(msg) = {request.command} /\ request.command \in EcCommand
         /\ request.n \in Nat /\ request.n # 0
<1>1. reply # NoReply
  BY DEF Relayed, NoReply, Reply_
<1>2. /\ Asked /\ ~handling /\ outcome.code # "None"
      /\ reply = reply_to(request.command, outcome)
  BY <1>1 DEF IInv, Handled, Relayed
<1>3. \A c \in try_from(msg) : c = request.command
  BY <1>2, Unique DEF Asked, try_from
<1> QED BY <1>2, <1>3, Elements DEF Asked, try_from, IInv

\* A body that a getter passes on was sent for the same command of the same
\* service, and for this round-trip unless one was given up before: the response
\* ids tell all answers on the shared channel apart.
THEOREM BodiesFit == ServicesSpec => []BodyFitsCommand
<1>1. ASSUME IInv, Relayed, reply.word = "body"
      PROVE  LET c == CHOOSE c \in try_from(msg) : TRUE IN
             /\ outcome.n \in 1 .. request.n /\ calls[outcome.n] = c
             /\ outcome.n < request.n => \E n \in abandoned : n <= outcome.n
  <2>1. /\ reply = reply_to(request.command, outcome)
        /\ try_from(msg) = {request.command} /\ request.command \in EcCommand
    BY <1>1, RelayedReply
  <2>2. outcome.code = "Ok"
    BY <1>1, <2>1, BodyWord
  <2>3. /\ outcome.n \in 1 .. request.n
        /\ outcome.n < request.n => \E n \in abandoned : n <= outcome.n
        /\ calls[outcome.n].service_id = request.command.service_id
        /\ calls[outcome.n].response_id = request.command.response_id
    BY <1>1, <2>2 DEF IInv, Outcome
  <2>4. calls[outcome.n] \in EcCommand
    BY <1>1, <2>3, Elements DEF IInv
  <2>5. calls[outcome.n] = request.command
    BY <2>1, <2>3, <2>4, Unique
  <2>6. (CHOOSE c \in try_from(msg) : TRUE) = request.command
    BY <2>1
  <2> QED BY <2>3, <2>5, <2>6
<1>2. IInv => BodyFitsCommand
  BY <1>1 DEF BodyFitsCommand
<1> QED BY <1>2, IInvCorrect, PTL

\* The EC executes no request twice, and as long as no earlier round-trip was
\* given up the status word of a setter tells what the EC did, for any error
\* discriminant: an error 0 is the one that reads like success.
THEOREM StatusHolds == ServicesSpec => []StatusIsTrue
<1>1. ASSUME IInv PROVE \A i, j \in DOMAIN executed : executed[i] = executed[j] => i = j
  BY <1>1 DEF IInv, Execution
<1>2. ASSUME IInv, Relayed, calls[request.n] \in Setter, abandoned \subseteq {request.n}
      PROVE  /\ reply.word = "0" => \/ Executed(request.n)
                                    \/ outcome.code = "Remote" /\ outcome.remote = 0
             /\ reply.word = "1" => ~Executed(request.n)
  <2>1. /\ reply = reply_to(request.command, outcome)
        /\ request.command \in Setter
    BY <1>2, RelayedReply DEF Asked
  <2>2. /\ reply.word = "0" => \/ outcome.code = "Ok"
                               \/ outcome.code = "Remote" /\ outcome.remote = 0
        /\ reply.word = "1" => outcome.code = "Remote"
    BY <2>1, StatusWord
  <2>3. outcome.n # 0 => outcome.n = request.n
    <3>1. outcome.n \in Nat /\ request.n \in Nat
      BY <1>2, Elements DEF IInv
    <3>2. outcome.n # 0 => /\ outcome.n <= request.n
                           /\ outcome.n < request.n =>
                                \E a \in abandoned : a <= outcome.n
      BY <1>2 DEF IInv, Outcome
    <3> QED BY <1>2, <3>1, <3>2
  <2> QED BY <1>2, <2>2, <2>3 DEF IInv, Outcome
<1>3. \A n : n \in {executed[i] : i \in DOMAIN executed} <=> Executed(n)
  BY DEF Executed
<1>4. IInv => StatusIsTrue
  BY <1>1, <1>2, <1>3 DEF StatusIsTrue
<1> QED BY <1>4, IInvCorrect, PTL

=============================================================================
