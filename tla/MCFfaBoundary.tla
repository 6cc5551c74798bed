--------------------------- MODULE MCFfaBoundary ----------------------------
(* An instance of FfaBoundary for TLC.                                     *)
EXTENDS FfaBoundary

\* With BYTE = 8 a u16 has 6 bits, a u32 12 and a u64 24: zero, one, all ones
\* and values that differ in every half and that no byte swap leaves alone.
MCIds == {0, 1, 27, 62}
MCFlags == {0, 1339, 4095}
MCLongs == {0, 1, 342391, 16434824}
MCPayloads == {[i \in 1 .. PAYLOAD_LEN |-> 0],
               [i \in 1 .. PAYLOAD_LEN |-> (3 * i + i \div 8) % 8]}

\* Text.  Successive bytes differ, are never zero and repeat with a period that
\* is not a divisor of a register's eight bytes.
Text(at, n) == [i \in 1 .. n |-> ((at + i) % 7) + 1]

\* Lengths around those of a register and of a call, and empty pieces.
MCRecord == {<<Text(0, n)>> : n \in {7, 8, 9, 127, 128, 129, 136, 137, 256, 257}}
              \cup {<<>>, <<Text(0, 5), <<>>, Text(5, 129), Text(134, 3), Text(137, 130)>>}
MCPanicRecord == <<Text(0, 5), Text(5, 140), Text(145, 2)>>
=============================================================================
