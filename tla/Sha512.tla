------------------------------- MODULE Sha512 -------------------------------
(***************************************************************************)
(* The streaming part of orlp/sha512.c.  The state is the sequence of the  *)
(* blocks that were compressed into it, so that two digests are the same   *)
(* exactly when the sequences are.                                         *)
(***************************************************************************)
EXTENDS Naturals, Sequences

CONSTANTS Block,   \* bytes of a block: 128
          Room,    \* what the length is padded to leave: 16
          LenBytes \* how many bytes of it hold the length: 8

ASSUME ShaAssumption == /\ {Block, Room, LenBytes} \subseteq Nat \ {0}
                        /\ LenBytes <= Room /\ Room < Block

CONSTANTS One, Zero \* the bytes 0x80 and 0

ShaZeros(n) == [i \in 1..n |-> Zero]

ShaInit == [blocks |-> <<>>, buf |-> <<>>, length |-> 0]

Compress(md, block) == [md EXCEPT !.blocks = Append(@, block)]

Smaller(a, b) == IF a < b THEN a ELSE b

(* One round of the loop of sha512_update; what is left of the input comes *)
(* back with the context.                                                  *)
UpdateRound(md, in) ==
    IF md.buf = <<>> /\ Len(in) >= Block
    THEN [md |-> [Compress(md, SubSeq(in, 1, Block)) EXCEPT !.length = @ + 8 * Block],
          in |-> SubSeq(in, Block + 1, Len(in))]
    ELSE LET n == Smaller(Len(in), Block - Len(md.buf))
             buf == md.buf \o SubSeq(in, 1, n) IN
         [md |-> IF Len(buf) < Block THEN [md EXCEPT !.buf = buf]
                 ELSE [Compress(md, buf) EXCEPT !.length = @ + 8 * Block, !.buf = <<>>],
          in |-> SubSeq(in, n + 1, Len(in))]

ShaUpdate(md, input) ==
    LET Loop[n \in 0..Len(input)] ==
            IF n = 0 THEN [md |-> md, in |-> input]
            ELSE IF Loop[n - 1].in = <<>> THEN Loop[n - 1]
            ELSE UpdateRound(Loop[n - 1].md, Loop[n - 1].in)
    IN Loop[Len(input)].md

(* Mutant: the length is put where only part of it fits. *)
RoomForHalf == Block - LenBytes
(* 112: a block that is fuller has no room for the length. *)
LastFill == Block - Room

(* The length is one symbol, repeated in each of its bytes. *)
LengthBytes(md) == [i \in 1..LenBytes |-> md.length]

ShaFinal(md) ==
    LET sized == [md EXCEPT !.length = @ + 8 * Len(md.buf), !.buf = Append(@, One)]
        flushed == IF Len(sized.buf) <= LastFill THEN sized
                   ELSE [Compress(sized, sized.buf \o ShaZeros(Block - Len(sized.buf)))
                            EXCEPT !.buf = <<>>]
        zeros == ShaZeros(Block - LenBytes - Len(flushed.buf))
    IN Compress(flushed, flushed.buf \o zeros \o LengthBytes(flushed)).blocks
=============================================================================
