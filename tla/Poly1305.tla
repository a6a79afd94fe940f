------------------------------ MODULE Poly1305 ------------------------------
(***************************************************************************)
(* An mbedtls_poly1305_context as a value, and the calls that change it.   *)
(* The accumulator is the sequence of the blocks that have been put into   *)
(* it: poly1305_process is a function of that sequence, and                *)
(* poly1305_compute_mac of it and the key, so two tags are the same        *)
(* exactly when both are.                                                  *)
(***************************************************************************)
EXTENDS Naturals, Sequences, SequencesExt

CONSTANTS P,       \* POLY1305_BLOCK_SIZE_BYTES (16)
          ZeroByte \* a byte of value 0

ASSUME PolyAssumption == P \in Nat \ {0}

Zeros(n) == [i \in 1..n |-> ZeroByte]

(* A block of P bytes, and whether the padding bit goes on top of it.      *)
PolyBlock(data, padded) == [data |-> data, padded |-> padded]

(* The input cut into full blocks; what is left over is not looked at.     *)
FullBlocks(input) ==
    [i \in 1..(Len(input) \div P) |->
        PolyBlock(SubSeq(input, (i - 1) * P + 1, i * P), TRUE)]

Rest(input) == SubSeq(input, Len(input) - (Len(input) % P) + 1, Len(input))

PolyStarts(key) == [key |-> key, blocks |-> <<>>, queue |-> <<>>]

(* Mutant: a block that is just full keeps waiting.                        *)
FullBlockWaits(ctx, input) ==
    LET all == ctx.queue \o input IN
    IF Len(all) <= P THEN [ctx EXCEPT !.queue = all]
    ELSE [ctx EXCEPT !.blocks = @ \o FullBlocks(all), !.queue = Rest(all)]

(* update: the queue is filled up first; full blocks are processed, and a  *)
(* partial block waits in the queue.                                       *)
PolyUpdate(ctx, input) ==
    LET all == ctx.queue \o input IN
    IF input = <<>> THEN ctx
    ELSE [ctx EXCEPT !.blocks = @ \o FullBlocks(all), !.queue = Rest(all)]

(* finish: what waits in the queue is closed with a 1 and zeros, and the   *)
(* padding bit is left out.  queue_len is not reset.                       *)
PolyFinish(ctx, one) ==
    IF ctx.queue = <<>> THEN ctx
    ELSE LET queue == Append(ctx.queue, one) IN
         [ctx EXCEPT !.blocks = Append(@, PolyBlock(queue \o Zeros(P - Len(queue)), FALSE)),
                     !.queue = queue]

PolyMac(ctx) == [key |-> ctx.key, blocks |-> ctx.blocks]

(* Everything that was given to update since starts. *)
PolyInput(ctx) ==
    LET processed == P * Len(ctx.blocks) IN
    [k \in 1..(processed + Len(ctx.queue)) |->
        IF k <= processed THEN ctx.blocks[((k - 1) \div P) + 1].data[((k - 1) % P) + 1]
        ELSE ctx.queue[k - processed]]
=============================================================================
