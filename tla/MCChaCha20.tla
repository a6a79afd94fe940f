----------------------------- MODULE MCChaCha20 -----------------------------
(***************************************************************************)
(* Instances of ChaCha20 for TLC: blocks of a few bytes and a counter that *)
(* wraps around within the bound.                                          *)
(***************************************************************************)
EXTENDS ChaCha20

MCStartCounters == {0, M - 1}
=============================================================================
