------------------------------- MODULE Sha256 -------------------------------
(***************************************************************************)
(* How Server/sha256.cpp cuts a chunk into the blocks that it hashes:      *)
(* sha256_init, sha256_update and sha256_final (sha256_hw.cpp does the     *)
(* same).  A call of sha256_transform is stage "transform", which module   *)
(* Sha256Transform takes from there to the stage kept in "after".  The     *)
(* context lives on the stack of the caller; its bytes are whatever was    *)
(* there.                                                                  *)
(***************************************************************************)
EXTENDS Sha256Words, SequencesExt

CONSTANTS
    Message,       \* bound: the chunks to hash
    Unset          \* what an uninitialized byte holds

ASSUME MessageAssumption == Message \subseteq Seq(0..255)

BlockSize == 64
Pad       == 128
Room      == 56    \* the other eight bytes hold the length

VARIABLES
    message,       \* the caller's data
    i,             \* how much of it sha256_update has taken
    data, datalen, bitlen, state,  \* the context
    transformed,   \* history: the blocks given to sha256_transform
    stage,         \* "update", "final", "clear", "length", "digest", "done",
                   \* or "transform"
    after,         \* the stage to go on with after the transform
    hash           \* the caller's output

ctxVars == <<i, data, datalen, bitlen, state, transformed, stage, after, hash>>

(* sha256_init leaves the bytes of the block alone.                         *)
Context ==
    [i |-> 0, data |-> [k \in 1..BlockSize |-> Unset], datalen |-> 0,
     bitlen |-> 0, state |-> InitialState, transformed |-> << >>,
     stage |-> "update", after |-> "update", hash |-> << >>]

ContextInit ==
    /\ message \in Message
    /\ i = Context.i
    /\ data = Context.data /\ datalen = Context.datalen
    /\ bitlen = Context.bitlen /\ state = Context.state
    /\ transformed = Context.transformed
    /\ stage = Context.stage /\ after = Context.after
    /\ hash = Context.hash

(* Another context is initialized for the same message.                     *)
ContextReset ==
    /\ i' = Context.i
    /\ data' = Context.data /\ datalen' = Context.datalen
    /\ bitlen' = Context.bitlen /\ state' = Context.state
    /\ transformed' = Context.transformed
    /\ stage' = Context.stage /\ after' = Context.after
    /\ hash' = Context.hash
    /\ UNCHANGED message

(* sha256_transform is called with the block and returns to stage next.     *)
Transform(block, next) ==
    /\ transformed' = Append(transformed, block)
    /\ stage' = "transform"
    /\ after' = next

BlockFull == datalen + 1 = BlockSize

BlockBits == 8 * BlockSize

Update ==
    /\ stage = "update" /\ i < Len(message)
    /\ data' = [data EXCEPT ![datalen + 1] = message[i + 1]]
    /\ i' = i + 1
    /\ IF BlockFull
       THEN /\ Transform(data', "update")
            /\ bitlen' = bitlen + BlockBits
            /\ datalen' = 0
       ELSE /\ datalen' = datalen + 1
            /\ UNCHANGED <<transformed, bitlen, stage, after>>
    /\ UNCHANGED <<message, state, hash>>

UpdateEnd ==
    /\ stage = "update" /\ i = Len(message)
    /\ stage' = "final"
    /\ UNCHANGED <<message, i, data, datalen, bitlen, state, transformed, after, hash>>

(* The block up to byte end, padded from datalen on; the bytes after end    *)
(* keep what they hold.                                                     *)
PaddedTo(end) ==
    [k \in 1..BlockSize |-> CASE k <= datalen                  -> data[k]
                              [] k = datalen + 1               -> Pad
                              [] datalen + 1 < k /\ k <= end   -> 0
                              [] OTHER                         -> data[k]]

FitsLength == datalen < Room

PadOneBlock ==
    /\ stage = "final" /\ FitsLength
    /\ data' = PaddedTo(Room)
    /\ stage' = "length"
    /\ UNCHANGED <<message, i, datalen, bitlen, state, transformed, after, hash>>

PadTwoBlocks ==
    /\ stage = "final" /\ ~FitsLength
    /\ data' = PaddedTo(BlockSize)
    /\ Transform(data', "clear")
    /\ UNCHANGED <<message, i, datalen, bitlen, state, hash>>

(* Mutation of Cleared: the memset is missing.                              *)
ClearedNot == data

(* The block after memset(ctx->data, 0, 56).                                *)
Cleared == [k \in 1..BlockSize |-> IF k <= Room THEN 0 ELSE data[k]]

ClearBlock ==
    /\ stage = "clear"
    /\ data' = Cleared
    /\ stage' = "length"
    /\ UNCHANGED <<message, i, datalen, bitlen, state, transformed, after, hash>>

(* The byte e places from the right of a number.                            *)
ByteOf(v, e) ==
    LET shifted[n \in 0..e] == IF n = 0 THEN v ELSE shifted[n - 1] \div 256
    IN  shifted[e] % 256

(* The last eight bytes hold the length in bits, big-endian.                *)
AppendLength ==
    /\ stage = "length"
    /\ bitlen' = bitlen + 8 * datalen
    /\ data' = [k \in 1..BlockSize |-> IF k <= Room THEN data[k]
                                       ELSE ByteOf(bitlen', BlockSize - k)]
    /\ Transform(data', "digest")
    /\ UNCHANGED <<message, i, datalen, state, hash>>

(* The state, word by word and big-endian, is the hash.                     *)
Digest ==
    /\ stage = "digest"
    /\ hash' = DigestBytes(state)
    /\ stage' = "done"
    /\ UNCHANGED <<message, i, data, datalen, bitlen, state, transformed, after>>

Absorb == \/ Update \/ UpdateEnd \/ PadOneBlock \/ PadTwoBlocks
          \/ ClearBlock \/ AppendLength \/ Digest
-----------------------------------------------------------------------------
(* FIPS 180-4: the message, the pad byte, as few zeros as make room for the *)
(* length at the end of a block, the length in bits.                        *)
Padding(m) ==
    LET zeros == (Room - 1 - Len(m)) % BlockSize
    IN  m \o <<Pad>> \o [k \in 1..zeros |-> 0]
          \o [k \in 1..8 |-> ByteOf(8 * Len(m), 8 - k)]

(* What is hashed is the padded message, all of it and nothing else: no     *)
(* byte of an earlier block or of an uninitialized context.  On the way,    *)
(* blocks and buffer hold the message so far, and bitlen counts the blocks. *)
HashesPadding ==
    /\ stage = "update" =>
         /\ FlattenSeq(transformed) \o SubSeq(data, 1, datalen) = SubSeq(message, 1, i)
         /\ bitlen = 8 * (i - datalen)
    /\ stage = "done" => FlattenSeq(transformed) = Padding(message)
=============================================================================
