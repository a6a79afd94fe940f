---------------------------- MODULE MCChaChaPoly ----------------------------
(***************************************************************************)
(* Instances of ChaChaPoly for TLC: blocks of two bytes.                   *)
(***************************************************************************)
EXTENDS ChaChaPoly

MCZeroByte == <<<<"zero">>, {}>>
=============================================================================
