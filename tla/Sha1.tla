-------------------------------- MODULE Sha1 --------------------------------
(***************************************************************************)
(* The checksums of src/sha1.c: what is done with the bytes of a message   *)
(* that comes in pieces.  The compression function is ideal: the state is  *)
(* the sequence of blocks that went into it.  The k-th byte of a message   *)
(* is k.                                                                   *)
(***************************************************************************)
EXTENDS SequencesExt

CONSTANTS
  BlockSize,   \* bytes in a block, 64 in the code
  LengthSize,  \* bytes of it for the length of the message, 8 in the code
  WordBits,    \* bits of a word of the count, 32 in the code
  FdBufSize,   \* SHA1_FD_BUFSIZE
  Digests,     \* checksums that sha1_set() is given as text
  MaxChunk,    \* bound: bytes in a call of sha1_update()
  MaxMessage   \* bound: bytes in a message

Word == 2^WordBits

ASSUME Sha1Assumption ==
  /\ LengthSize = 2 /\ BlockSize \in Nat /\ BlockSize > LengthSize
  /\ WordBits \in Nat /\ Word \in Nat \ {0} /\ Word % (8 * BlockSize) = 0
  /\ FdBufSize \in Nat \ {0} /\ MaxChunk \in Nat /\ MaxMessage \in Nat

VARIABLES
  blocks,  \* sha1->state
  count,   \* sha1->count: the low and the high word of the number of bits
  buffer,  \* sha1->buffer
  raw,     \* sha1->raw and ->hex, the same checksum; <<>> for zeroes
  phase,   \* "open" after sha1_init(), "fd" within sha1_fd(), "done" or "set"
           \*   with a checksum, "crashed"
  total,   \* history: bytes of the message
  huge     \* history: one call added as many bits as a word can count

sha1Vars == <<blocks, count, buffer, raw, phase, total, huge>>

\* A byte of no message: s_transform() uses the block itself for the words of
\* its schedule, and is otherwise the unknown function of the blocks it is given.
Clobbered == "clobbered"

Sha1TypeOK ==
  /\ \A b \in DOMAIN blocks : Len(blocks[b]) = BlockSize
  /\ count \in [1..2 -> 0..Word - 1] /\ DOMAIN buffer = 1..BlockSize
  /\ phase \in {"open", "fd", "done", "set", "crashed"}
  /\ total \in 0..MaxMessage /\ huge \in BOOLEAN

Fresh == /\ blocks' = <<>>
         /\ count' = <<0, 0>>
         /\ raw' = <<>>
         /\ total' = 0 /\ huge' = FALSE
         /\ UNCHANGED buffer

Sha1Init ==
  /\ blocks = <<>> /\ count = <<0, 0>> /\ raw = <<>>
  /\ buffer = [i \in 1..BlockSize |-> Clobbered]
  /\ phase = "open" /\ total = 0 /\ huge = FALSE

\* sha1_init(); after a crash, of the next process.
Sha1Renew == Fresh /\ phase' = "open"

-----------------------------------------------------------------------------
(* sha1_update() and sha1_finish() as functions of the record <<blocks,    *)
(* count, buffer>>                                                         *)

\* Mutant: the high word counts only what a call adds by itself.
CountedNoCarry(c, len) == <<(c[1] + 8 * len) % Word, (c[2] + (8 * len) \div Word) % Word>>

\* The carry is told from the low word and the number of bits added, which is
\* wider: one that does not fit into a word counts for a carry, too.
Counted(c, len) ==
  LET low == (c[1] + 8 * len) % Word
  IN <<low, (c[2] + (IF low < 8 * len THEN 1 ELSE 0) + (8 * len) \div Word) % Word>>

Full(bytes) == bytes > BlockSize - 1

\* j bytes wait in the buffer; when data fills it, it goes, with every whole
\* block that follows, and the rest is copied.  s_transform() works in place.
Updated(c, data) ==
  LET j == (c.count[1] \div 8) % BlockSize
      all == SubSeq(c.buffer, 1, j) \o data
      whole == IF Full(j + Len(data)) THEN Len(all) \div BlockSize ELSE 0
      rest == SubSeq(all, whole * BlockSize + 1, Len(all))
  IN [blocks |-> c.blocks \o [b \in 1..whole |-> SubSeq(all, (b - 1) * BlockSize + 1, b * BlockSize)],
      count  |-> Counted(c.count, Len(data)),
      buffer |-> [i \in 1..BlockSize |->
                    IF i <= Len(rest) THEN rest[i]
                    ELSE IF whole > 0 THEN Clobbered ELSE c.buffer[i]]]

\* A byte "80", zeroes until only the length is missing, and the length as it
\* was before.
Finished(c) ==
  LET padded[n \in 0..BlockSize] ==
        IF n = 0 THEN Updated(c, <<"80">>)
        ELSE IF (padded[n - 1].count[1] \div 8) % BlockSize = BlockSize - LengthSize
               THEN padded[n - 1]
               ELSE Updated(padded[n - 1], <<"00">>)
  IN Updated(padded[BlockSize], <<c.count[2], c.count[1]>>)

Here == [blocks |-> blocks, count |-> count, buffer |-> buffer]

Become(c) == blocks' = c.blocks /\ count' = c.count /\ buffer' = c.buffer

-----------------------------------------------------------------------------
(* The calls                                                               *)

\* The next len bytes of the message.
Bytes(len) == [i \in 1..len |-> total + i]

Add(len) ==
  /\ total + len <= MaxMessage
  /\ Become(Updated(Here, Bytes(len)))
  /\ total' = total + len
  /\ huge' = (huge \/ 8 * len >= Word)
  /\ UNCHANGED raw

Sha1Update(len) == phase = "open" /\ Add(len) /\ UNCHANGED phase

\* The checksum is what the state is at the end; all but the checksum is wiped.
Finish ==
  /\ raw' = Finished(Here).blocks
  /\ blocks' = <<>> /\ count' = <<0, 0>>
  /\ buffer' = [i \in 1..BlockSize |-> Clobbered]
  /\ phase' = "done"
  /\ UNCHANGED <<total, huge>>

Sha1Finish == phase = "open" /\ Finish

\* sha1_data(): all at once.
Sha1Data(len) ==
  /\ phase # "crashed" /\ len <= MaxMessage
  /\ LET c == Updated([blocks |-> <<>>, count |-> <<0, 0>>, buffer |-> buffer], [i \in 1..len |-> i])
     IN raw' = Finished(c).blocks
  /\ blocks' = <<>> /\ count' = <<0, 0>>
  /\ buffer' = [i \in 1..BlockSize |-> Clobbered]
  /\ phase' = "done" /\ total' = len /\ huge' = (8 * len >= Word)

\* sha1_fd(): read() gives from 1 to FdBufSize bytes, or none at the end, or
\* fails, and its -1 is taken for a length that runs off the buffer.
Sha1FdBegin == phase \in {"open", "done"} /\ Fresh /\ phase' = "fd"
Sha1FdRead(len) == phase = "fd" /\ len \in 1..FdBufSize /\ Add(len) /\ UNCHANGED phase
Sha1FdEnd == phase = "fd" /\ Finish
Sha1FdFails ==
  /\ phase = "fd" /\ phase' = "crashed"
  /\ UNCHANGED <<blocks, count, buffer, raw, total, huge>>

\* sha1_file() of what cannot be opened, or is a directory: -1.
Sha1FileFails == phase # "crashed" /\ Fresh /\ phase' = "open"

\* sha1_set(): a checksum from text, or zeroes if the text is no checksum.
Sha1Set(digest) ==
  /\ phase # "crashed"
  /\ raw' = digest
  /\ phase' = "set"
  /\ UNCHANGED <<blocks, count, buffer, total, huge>>

Sha1Next ==
  \/ Sha1Renew \/ Sha1Finish \/ Sha1FdBegin \/ Sha1FdEnd \/ Sha1FdFails \/ Sha1FileFails
  \/ \E len \in 0..MaxChunk : Sha1Update(len) \/ Sha1Data(len) \/ Sha1FdRead(len)
  \/ \E digest \in Digests \cup {<<>>} : Sha1Set(digest)

Sha1Spec == Sha1Init /\ [][Sha1Next]_sha1Vars

-----------------------------------------------------------------------------
(* Properties                                                              *)

\* The blocks of a message of n bytes by the standard: a byte "80" behind it,
\* zeroes, and the number of its bits in two words.
Standard(n) ==
  LET zeroes == (BlockSize - ((n + 1 + LengthSize) % BlockSize)) % BlockSize
      all == [i \in 1..n |-> i] \o <<"80">> \o [i \in 1..zeroes |-> "00"]
               \o <<((8 * n) \div Word) % Word, (8 * n) % Word>>
  IN [b \in 1..Len(all) \div BlockSize |-> SubSeq(all, (b - 1) * BlockSize + 1, b * BlockSize)]

\* The checksum is that of the message, whatever the pieces it came in, and
\* what earlier messages left in the buffer, unless one piece had 2^29 bytes or
\* more: then the length in the last block is wrong (src/sha1.c:118-136, 140-172).
DigestRight == phase = "done" /\ ~huge => raw = Standard(total)
=============================================================================
