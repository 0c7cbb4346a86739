----------------------------- MODULE ChunkPacking -----------------------------
(***************************************************************************)
(* world/world.c, encode_chunk_section_blocks: the blocks of a chunk       *)
(* section are packed back to back into 64-bit words, 13 bits each, lowest *)
(* bit first; a block that does not fit is cut and goes on in the next     *)
(* word.                                                                   *)
(*                                                                         *)
(* A number is the set of the places of its 1-bits, so | is \cup and a     *)
(* shift moves places.  The widths are parameters.  hton64 changes the     *)
(* bytes' order in memory and not the number the client reads.             *)
(***************************************************************************)
EXTENDS Integers, Sequences

CONSTANTS
  Blocks,       \* BLOCKS_PER_CHUNK_SECTION, 4096
  BlockBits,    \* 13
  WordBits,     \* 64
  Kinds         \* the numbers blocks have: type_id and data

\* A block is smaller than a word, and a section ends where a word ends (4096 * 13 = 832 * 64).
ASSUME WidthsAssumption ==
  /\ Blocks \in Nat \ {0} /\ BlockBits \in Nat \ {0} /\ WordBits \in Nat
  /\ BlockBits < WordBits
  /\ (Blocks * BlockBits) % WordBits = 0
ASSUME KindsAssumption == Kinds \subseteq SUBSET (0 .. BlockBits - 1)

VARIABLES
  section,      \* each block's number
  i,            \* the next block
  bits_used,    \* bits of the current word that are taken
  tmp_result,   \* the current word
  out           \* the finished words; its length is block_data_index

vars == <<section, i, bits_used, tmp_result, out>>

Bit == 0 .. BlockBits - 1

Place == 0 .. WordBits - 1

\* A word shifted to the left loses what leaves it.
ShiftLeft(word, n) == {p + n : p \in word} \cap Place

ShiftRight(word, n) == {p - n : p \in {q \in word : q >= n}}

-----------------------------------------------------------------------------
Init ==
  /\ section \in [0 .. Blocks - 1 -> Kinds]
  /\ i = 0 /\ bits_used = 0 /\ tmp_result = {}
  /\ out = <<>>

\* Variant: shifted by the number of bits that are left over.
Rest_Upper(overflowed_bits) == ShiftRight(section[i], overflowed_bits)

\* The upper bits of block i, which did not fit.
Rest(overflowed_bits) == ShiftRight(section[i], BlockBits - overflowed_bits)

\* Variant: a block that ends with the word leaves it open.
WordFull_Strict == bits_used + BlockBits > WordBits \/ i = Blocks - 1

WordFull == bits_used + BlockBits >= WordBits \/ i = Blocks - 1

WithBlock == tmp_result \cup ShiftLeft(section[i], bits_used)

\* The block fits and leaves room in the word.
PackInside ==
  /\ i < Blocks /\ ~WordFull
  /\ tmp_result' = WithBlock
  /\ bits_used' = bits_used + BlockBits
  /\ i' = i + 1
  /\ UNCHANGED <<section, out>>

\* Variant: the word is taken to be full and is not started anew.
PackToEnd_NoReset ==
  /\ i < Blocks /\ WordFull
  /\ bits_used + BlockBits <= WordBits
  /\ out' = Append(out, WithBlock)
  /\ tmp_result' = {} /\ bits_used' = bits_used + BlockBits
  /\ i' = i + 1
  /\ UNCHANGED section

\* The block ends with the word, or is the last.
PackToEnd ==
  /\ i < Blocks /\ WordFull
  /\ bits_used + BlockBits <= WordBits
  /\ out' = Append(out, WithBlock)
  /\ tmp_result' = {} /\ bits_used' = 0
  /\ i' = i + 1
  /\ UNCHANGED section

\* The block goes on in the next word.
PackAcross ==
  LET overflowed_bits == bits_used + BlockBits - WordBits IN
  /\ i < Blocks /\ overflowed_bits > 0
  /\ out' = Append(out, WithBlock)
  /\ tmp_result' = Rest(overflowed_bits) /\ bits_used' = overflowed_bits
  /\ i' = i + 1
  /\ UNCHANGED section

Next == PackInside \/ PackToEnd \/ PackAcross

Spec == Init /\ [][Next]_vars

-----------------------------------------------------------------------------
TypeOK ==
  /\ section \in [0 .. Blocks - 1 -> Kinds]
  /\ i \in 0 .. Blocks
  /\ bits_used \in Place
  /\ tmp_result \in SUBSET Place
  /\ out \in Seq(SUBSET Place)

\* The bits of the blocks before block k, laid end to end.
Stream(k) == UNION {{j * BlockBits + b : b \in section[j]} : j \in 0 .. k - 1}

\* The bits of the finished words, laid end to end.
Written == UNION {{(w - 1) * WordBits + p : p \in out[w]} : w \in DOMAIN out}

\* After every block, the finished words and the one in the making hold the bits of the blocks
\* so far and nothing else: no bit is lost or doubled where a block is cut.
PrefixPacked ==
  /\ Len(out) * WordBits + bits_used = i * BlockBits
  /\ Written \cup {Len(out) * WordBits + p : p \in tmp_result} = Stream(i)

\* The client's way to block k: its bits wherever they lie, in one word or in two.
Decoded(k) ==
  {b \in Bit : (k * BlockBits + b) % WordBits \in out[(k * BlockBits + b) \div WordBits + 1]}

\* When the loop is done the client reads back every block.
SectionReadable == i = Blocks => \A k \in 0 .. Blocks - 1 : Decoded(k) = section[k]

\* The words written are those the packet announces (block_array_length, 832), and at no time
\* more.
ArrayExact ==
  /\ Len(out) * WordBits <= Blocks * BlockBits
  /\ i = Blocks => Len(out) * WordBits = Blocks * BlockBits
=============================================================================
