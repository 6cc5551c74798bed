---------------------------- MODULE MCEcServices ----------------------------
(* An instance of EcServices for TLC: every command of every service.      *)
EXTENDS EcServices

MCCommand == EcCommand
=============================================================================
