------------------------------ MODULE ChaCha20 ------------------------------
(***************************************************************************)
(* An mbedtls_chacha20_context and the calls made on it.  A ChatSession    *)
(* has two of them, and calls update once for the text of every frame, so  *)
(* what matters is that a stream cut into updates of any sizes uses the    *)
(* keystream byte by byte, in order and once.                              *)
(*                                                                         *)
(* A keystream block is the triple (key, nonce, counter) it is made from,  *)
(* and a byte of it is the block and an offset; the rounds of              *)
(* chacha20_block are not modelled.  The loops of update are steps.        *)
(***************************************************************************)
EXTENDS Integers, Sequences

CONSTANTS Key, Nonce,    \* what setkey and starts are given
          Zero,          \* a zeroized key, nonce or buffer
          B,             \* CHACHA20_BLOCK_SIZE_BYTES (64)
          M,             \* 2^32, the counter is a uint32_t
          StartCounters, \* the counters starts is given
          MaxBytes       \* bound: bytes processed between two starts

ASSUME ChaChaAssumption ==
    /\ B \in Nat \ {0}
    /\ M \in Nat \ {0}
    /\ StartCounters \subseteq 0..(M - 1)
    /\ MaxBytes \in Nat
    /\ Zero \notin Key \cup Nonce

VARIABLES
    key, nonce, ctr,  \* state[4..11], state[13..15], state[CHACHA20_CTR_INDEX]
    ks,               \* keystream8: the block it holds, or Zero
    used,             \* keystream_bytes_used
    left,             \* size, in an update that has not returned; 0 outside
    base,             \* what the stream was started with, or Zero
    out               \* the keystream bytes used since then

state == <<key, nonce, ctr>>
vars == <<state, ks, used, left, base, out>>

Block == [key |-> key, nonce |-> nonce, ctr |-> ctr]

(* Bytes 1..n of a block, in order. *)
BytesOf(block, n) == [j \in 1..n |-> <<block, j - 1>>]

Init ==  \* mbedtls_chacha20_init
    /\ key = Zero /\ nonce = Zero /\ ctr = 0
    /\ ks = Zero /\ used = B
    /\ left = 0 /\ base = Zero /\ out = <<>>

-----------------------------------------------------------------------------
(* setkey leaves the leftover keystream alone: starts has to follow.       *)
SetKey(k) ==
    /\ left = 0
    /\ key' = k
    /\ base' = Zero
    /\ UNCHANGED <<nonce, ctr, ks, used, left, out>>

Starts(n, c) ==
    /\ left = 0 /\ key # Zero
    /\ nonce' = n /\ ctr' = c
    /\ ks' = Zero /\ used' = B
    /\ base' = [key |-> key, nonce |-> n, ctr |-> c]
    /\ out' = <<>>
    /\ UNCHANGED <<key, left>>

(* free zeroizes the whole context, keystream_bytes_used too.              *)
Free ==
    /\ left = 0
    /\ key' = Zero /\ nonce' = Zero /\ ctr' = 0
    /\ ks' = Zero /\ used' = 0
    /\ base' = Zero
    /\ UNCHANGED <<left, out>>

(* init of a context that has been freed. *)
Reinit ==
    /\ left = 0
    /\ key' = Zero /\ nonce' = Zero /\ ctr' = 0
    /\ ks' = Zero /\ used' = B
    /\ base' = Zero
    /\ UNCHANGED <<left, out>>

-----------------------------------------------------------------------------
(* update is called with size bytes, on a stream that was started ... *)
Update(size) ==
    /\ left = 0 /\ base # Zero
    /\ Len(out) + size <= MaxBytes
    /\ left' = size
    /\ UNCHANGED <<state, ks, used, base, out>>

(* Mutant: one byte past the end of keystream8 is used. *)
LeftoverOneMore ==
    /\ left > 0 /\ used <= B
    /\ out' = Append(out, <<ks, used>>)
    /\ used' = used + 1
    /\ left' = left - 1
    /\ UNCHANGED <<state, ks, base>>

(* ... uses leftover keystream bytes, if available, ...                    *)
Leftover ==
    /\ left > 0 /\ used < B
    /\ out' = Append(out, <<ks, used>>)
    /\ used' = used + 1
    /\ left' = left - 1
    /\ UNCHANGED <<state, ks, base>>

NewBlock == /\ ks' = Block
            /\ ctr' = (ctr + 1) % M
            /\ UNCHANGED <<key, nonce, base>>

(* ... processes full blocks ...                                           *)
FullBlock ==
    /\ left >= B /\ used = B
    /\ NewBlock
    /\ out' = out \o BytesOf(Block, B)
    /\ left' = left - B
    /\ UNCHANGED used

(* Mutant: the rest of the block is thrown away. *)
LastBlockDropsRest ==
    /\ left > 0 /\ left < B /\ used = B
    /\ NewBlock
    /\ out' = out \o BytesOf(Block, left)
    /\ left' = 0
    /\ UNCHANGED used

(* Mutant: the counter is only incremented after full blocks. *)
LastBlockSameCounter ==
    /\ left > 0 /\ left < B /\ used = B
    /\ ks' = Block
    /\ out' = out \o BytesOf(Block, left)
    /\ used' = left
    /\ left' = 0
    /\ UNCHANGED <<state, base>>

(* ... and the last (partial) block.                                       *)
LastBlock ==
    /\ left > 0 /\ left < B /\ used = B
    /\ NewBlock
    /\ out' = out \o BytesOf(Block, left)
    /\ used' = left
    /\ left' = 0

Loop == Leftover \/ FullBlock \/ LastBlock

Next ==
    \/ \E k \in Key : SetKey(k)
    \/ \E n \in Nonce, c \in StartCounters : Starts(n, c)
    \/ Free \/ Reinit
    \/ \E size \in 0..MaxBytes : Update(size)
    \/ Loop

Spec == Init /\ [][Next]_vars

-----------------------------------------------------------------------------
BlockType == [key : Key \cup {Zero}, nonce : Nonce \cup {Zero}, ctr : 0..(M - 1)]

(* Every variable has its type; the index into keystream8 is in bounds.    *)
TypeOK ==
    /\ key \in Key \cup {Zero} /\ nonce \in Nonce \cup {Zero} /\ ctr \in 0..(M - 1)
    /\ ks \in BlockType \cup {Zero}
    /\ used \in 0..B
    /\ left \in Nat
    /\ base \in BlockType \cup {Zero}
    /\ out \in Seq((BlockType \cup {Zero}) \X (0..(B - 1)))

(* Byte i (from 1) of the keystream of a key, nonce and first counter.     *)
Keystream(b, i) == <<[b EXCEPT !.ctr = (@ + (i - 1) \div B) % M], (i - 1) % B>>

(* Whatever the sizes of the updates, byte i of the stream is processed    *)
(* with byte i of the keystream: a text may be cut into pieces in any way, *)
(* and the two ends of a session need not cut it in the same way.          *)
StreamInOrder ==
    base # Zero => \A i \in 1..Len(out) : out[i] = Keystream(base, i)

(* No keystream byte is used twice before the counter wraps around.        *)
UsedOnce ==
    base # Zero =>
        \A i, j \in 1..Len(out) : (i < j /\ j - i < B * M) => out[i] # out[j]

(* The inductive invariant: after n blocks, the counter has advanced by n, *)
(* and what has not been used of the last one is in the buffer.            *)
Position(n) ==
    /\ Len(out) + B - used = B * n
    /\ ctr = (base.ctr + n) % M
    /\ used < B => /\ n > 0
                   /\ ks = [base EXCEPT !.ctr = (@ + n - 1) % M]

IInv ==
    /\ base # Zero => /\ base.key = key /\ base.nonce = nonce
                      /\ \E n \in 0..(Len(out) + B) : Position(n)
    /\ StreamInOrder
    /\ base = Zero => left = 0
=============================================================================
