----------------------------- MODULE MCFraming -----------------------------
(* Bytes of four values: a size wraps at 16, a buffer has 8 bytes of which *)
(* 4 are text.  The texts: empty, short, one with a NUL inside, one that   *)
(* fills the buffer, one that overruns it, one whose frame takes two       *)
(* writes, and one whose size wraps to 1.                                  *)
EXTENDS Framing

Xs(n) == [i \in 1..n |-> Char]
MCTexts == {Xs(0), Xs(1), Xs(1) \o <<Nul>> \o Xs(1), Xs(4), Xs(5), Xs(14), Xs(17)}
=============================================================================
