---------------------------- MODULE MCAssistant ----------------------------
(***************************************************************************)
(* An instance of Assistant for TLC.                                       *)
(***************************************************************************)
EXTENDS Assistant

CONSTANTS s1, s2
============================================================================
