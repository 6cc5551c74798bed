----------------------------- MODULE FfaConsole -----------------------------
(***************************************************************************)
(* Logging over FFA_CONSOLE_LOG (odp-ffa/src/function/console.rs, the      *)
(* logger in ec-service-lib/src/sp_logger.rs) and the panic handler of the *)
(* platforms, which logs too: _print unwraps, so a refused SMC panics, and *)
(* the handler's own log may be refused again.                             *)
(***************************************************************************)
EXTENDS FfaCalls, SequencesExt

CONSTANTS
  Record,        \* log records: the pieces of text that write_fmt writes
  PanicRecord    \* the record of the panic handler

ASSUME RecordAssumption ==
  \A r \in Record \cup {PanicRecord} : r \in Seq(Seq(u8))

VARIABLES
  pc,            \* "idle", "write" or "wfe"
  todo,          \* pieces still to write, the current one's rest first
  text,          \* all bytes of the current or last record
  printed,       \* bytes of it that the SPMC has printed
  PANIC_IN_PROGRESS,
  panics,        \* history: entries into the panic handler
  refused        \* history: SMCs that did not succeed

vars == <<pc, todo, text, printed, PANIC_IN_PROGRESS, panics, refused>>

-----------------------------------------------------------------------------
(* Records.                                                                *)

NEWLINE == 10 % BYTE
\* println! prints the record, piece by piece, then a newline.
println(r) == Append(r, <<NEWLINE>>)

Init ==
  /\ pc = "idle"
  /\ todo = <<>> /\ text = <<>> /\ printed = <<>>
  /\ PANIC_IN_PROGRESS = FALSE
  /\ panics = 0 /\ refused = 0

Start(r) ==
  /\ pc' = "write"
  /\ todo' = println(r)
  /\ text' = FlattenSeq(println(r))
  /\ printed' = <<>>

\* SpLogger::log, at every level.
log(r) ==
  /\ pc = "idle"
  /\ Start(r)
  /\ UNCHANGED <<PANIC_IN_PROGRESS, panics, refused>>

-----------------------------------------------------------------------------
(* One call.                                                               *)

FFA_MAX_CHAR_COUNT == 128

MinOf(a, b) == IF a < b THEN a ELSE b
\* Console::new: what the call prints, and what remains.
Console_new_skips(bytes) ==
  LET n == MinOf(FFA_MAX_CHAR_COUNT, Len(bytes))
  IN  [bytes |-> SubSeq(bytes, 1, n),
       remaining |-> SubSeq(bytes, FFA_MAX_CHAR_COUNT + 2, Len(bytes))]
Console_new(bytes) ==
  LET n == MinOf(FFA_MAX_CHAR_COUNT, Len(bytes))
  IN  [bytes |-> SubSeq(bytes, 1, n),
       remaining |-> SubSeq(bytes, n + 1, Len(bytes))]

\* The count, then eight bytes to a register, the last one padded with zeros.
Console_into(bytes) ==
  LET at(i) == IF i <= Len(bytes) THEN bytes[i] ELSE 0
      regs == (Len(bytes) + REG_BYTES - 1) \div REG_BYTES
  IN  try_from_iter(
        <<Len(bytes)>> \o
        [k \in 1 .. regs |->
           from_le_bytes([i \in 1 .. REG_BYTES |-> at(REG_BYTES * (k - 1) + i)])])

\* The SPMC prints as many characters as x1 says.
Shown(params) ==
  [i \in 1 .. params[1] |->
     to_le_bytes(params[2 + (i - 1) \div REG_BYTES])[((i - 1) % REG_BYTES) + 1]]

\* panic_prevent_reenter, then the handler's own log; a second panic waits.
panic_again ==
  /\ panics' = panics + 1
  /\ PANIC_IN_PROGRESS' = TRUE
  /\ Start(PanicRecord)
panic ==
  /\ panics' = panics + 1
  /\ \/ /\ ~PANIC_IN_PROGRESS
        /\ PANIC_IN_PROGRESS' = TRUE
        /\ Start(PanicRecord)
     \/ /\ PANIC_IN_PROGRESS
        /\ pc' = "wfe"
        /\ UNCHANGED <<PANIC_IN_PROGRESS, todo, text, printed>>

-----------------------------------------------------------------------------
(* write_str and write_fmt.                                                *)

\* What the SPMC may answer.
ConsoleAnswer == {"Success32", "Error", "Interrupt", "Unknown"}

write_str(answer) ==
  /\ pc = "write"
  /\ todo # <<>> /\ Head(todo) # <<>>
  /\ LET console == Console_new(Head(todo))
         params == Console_into(console.bytes)
         Smc == params # TooManySmcParams
         Ok == Smc /\ handle_result_simple(answer) = "Ok"
     IN  \/ /\ Ok
            /\ printed' = printed \o Shown(params)
            /\ todo' = <<console.remaining>> \o Tail(todo)
            /\ UNCHANGED <<pc, text, PANIC_IN_PROGRESS, panics, refused>>
         \/ /\ ~Ok
            /\ refused' = IF Smc THEN refused + 1 ELSE refused
            /\ panic

\* The current piece is written, or empty.
next_piece_no_break ==
  pc = "write" /\ todo # <<>> /\ Head(todo) = <<>> /\ UNCHANGED vars
next_piece ==
  /\ pc = "write"
  /\ todo # <<>> /\ Head(todo) = <<>>
  /\ todo' = Tail(todo)
  /\ UNCHANGED <<pc, text, printed, PANIC_IN_PROGRESS, panics, refused>>

\* log returns, to the partition or to the panic handler, which waits.
return ==
  /\ pc = "write"
  /\ todo = <<>>
  /\ pc' = IF PANIC_IN_PROGRESS THEN "wfe" ELSE "idle"
  /\ UNCHANGED <<todo, text, printed, PANIC_IN_PROGRESS, panics, refused>>

\* The core waits for events for good.
wfe == pc = "wfe" /\ UNCHANGED vars

write == (\E answer \in ConsoleAnswer : write_str(answer)) \/ next_piece \/ return

Next ==
  \/ \E r \in Record : log(r)
  \/ write
  \/ wfe

\* The SPMC returns from every FFA_CONSOLE_LOG.
Spec == Init /\ [][Next]_vars /\ WF_vars(write)

-----------------------------------------------------------------------------
(* Properties.                                                             *)

\* Types; in particular "Stop immediately if called a second time": the panic
\* handler is entered at most twice, whatever the SPMC answers.
ConsoleTypeOK ==
  /\ pc \in {"idle", "write", "wfe"}
  /\ todo \in Seq(Seq(u8)) /\ text \in Seq(u8) /\ printed \in Seq(u8)
  /\ PANIC_IN_PROGRESS \in BOOLEAN
  /\ panics \in 0 .. 2 /\ refused \in Nat

\* Splitting text into pieces, calls and registers loses, repeats or reorders
\* no byte: what is printed is always the start of the record, and all of it
\* when the logger returns.  A record is cut short, by a panic, only because
\* the SPMC refused a call: no length of text makes the encoder itself fail.
PrintedInOrder ==
  /\ IsPrefix(printed, text)
  /\ pc = "idle" => printed = text
  /\ panics <= refused

\* "Protect against panic infinite loops": every log returns or ends in the
\* wait loop, however the SPMC answers.
LogReturns == pc = "write" ~> pc \in {"idle", "wfe"}
=============================================================================
