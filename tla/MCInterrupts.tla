---------------------------- MODULE MCInterrupts ----------------------------
(* An instance of Interrupts for TLC.                                      *)
EXTENDS Interrupts, TLC

\* Interrupts are interchangeable: no definition tells them apart.
Symmetry == Permutations(InterruptId)
=============================================================================
