------------------------------ MODULE MCTpmSst ------------------------------
(***************************************************************************)
(* Instances of TpmSst for TLC: a header of one unit in a buffer of two,   *)
(* so that a packet can be empty, a bare header, full, or too long.        *)
(***************************************************************************)
EXTENDS TpmSst

MCSize == 0 .. (CRB_DATA_BUFFER_SIZE + 1)
=============================================================================
