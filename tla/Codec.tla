-------------------------------- MODULE Codec --------------------------------
(***************************************************************************)
(* mcpr/codec.c, variable-length integers: mcpr_encode_varint writes a     *)
(* number's bits in groups of seven, lowest first, each with a bit that    *)
(* says whether more follow; mcpr_varint_bounds counts those bytes; and    *)
(* mcpr_decode_varint reads them back from a buffer of which only the      *)
(* first max_len bytes have arrived.                                       *)
(*                                                                         *)
(* A negative number is its 32-bit pattern.  A byte is the pair of its     *)
(* seven bits and its highest one.                                         *)
(***************************************************************************)
EXTENDS Integers, Sequences, FiniteSets

CONSTANTS
  Group,        \* 2^7
  Width,        \* 2^32
  MaxBytes,     \* MCPR_VARINT_SIZE_MAX
  Power         \* Power[k] is Group^k: shifting by 7 * k multiplies by it

ASSUME GroupAssumption == Group \in Nat /\ Group > 1
ASSUME WidthAssumption == Width \in Nat \ {0}
ASSUME MaxBytesAssumption == MaxBytes \in Nat \ {0}
ASSUME PowerAssumption ==
  /\ Power \in [0 .. MaxBytes -> Nat]
  /\ Power[0] = 1
  /\ \A k \in 0 .. MaxBytes - 1 : Power[k + 1] = Group * Power[k]
  /\ Width <= Power[MaxBytes]

VARIABLES
  codec_at,     \* "encode", "sent", "decode", "done" or "refused"
  number,       \* the number that is encoded
  value,        \* what is left of it
  encoded,      \* the bytes written so far
  max_len,      \* how many bytes the decoder is told are there
  bytes_read,   \* the decoder's i
  result

codecVars == <<codec_at, number, value, encoded, max_len, bytes_read, result>>

Byte == [low : 0 .. Group - 1, more : BOOLEAN]

\* mcpr_varint_bounds: one byte, and one more for each group the number reaches into.
VarintBounds(n) == 1 + Cardinality({k \in 1 .. MaxBytes - 1 : n >= Power[k]})

\* What the fields of a packet come to, and the first n of them.
Sums(s) == LET upto[n \in 0 .. Len(s)] == IF n = 0 THEN 0 ELSE upto[n - 1] + s[n] IN upto

SumOf(s) == Sums(s)[Len(s)]

-----------------------------------------------------------------------------
CodecInit ==
  /\ codec_at = "encode"
  /\ number \in 0 .. Width - 1
  /\ value = number
  /\ encoded = <<>>
  /\ max_len = 0 /\ bytes_read = 0 /\ result = 0

\* Variant: a group of zeros ends the number.
MoreFollows_Zero(rest) == rest % Group # 0

MoreFollows(rest) == rest # 0

\* One round of the encoder's loop.
EncodeByte ==
  LET rest == value \div Group IN
  /\ codec_at = "encode"
  /\ encoded' = Append(encoded, [low |-> value % Group, more |-> MoreFollows(rest)])
  /\ value' = rest
  /\ codec_at' = IF MoreFollows(rest) THEN "encode" ELSE "sent"
  /\ UNCHANGED <<number, max_len, bytes_read, result>>

\* The decoder is called while some of the bytes, or all of them, or more, have arrived.
Arrive ==
  /\ codec_at = "sent"
  /\ max_len' \in 0 .. MaxBytes + 1
  /\ codec_at' = "decode"
  /\ UNCHANGED <<number, value, encoded, bytes_read, result>>

\* Byte i of the buffer: of the number, or whatever follows it, or of memory nobody has
\* filled yet.  The byte is read before i is compared with max_len.
InBuffer(i) == IF i < max_len /\ i < Len(encoded) THEN {encoded[i + 1]} ELSE Byte

\* Variant: a byte just behind the end is still accepted.
Beyond_Late(i) == i > MaxBytes \/ i > max_len + 1

Beyond(i) == i > MaxBytes \/ i > max_len

\* One round of the decoder's loop.
DecodeByte ==
  /\ codec_at = "decode"
  /\ \E b \in InBuffer(bytes_read) :
       /\ result' = IF bytes_read < MaxBytes
                      THEN (result + b.low * Power[bytes_read]) % Width
                      ELSE result
       /\ codec_at' = IF Beyond(bytes_read + 1) THEN "refused"
                      ELSE IF b.more THEN "decode" ELSE "done"
  /\ bytes_read' = bytes_read + 1
  /\ UNCHANGED <<number, value, encoded, max_len>>

CodecNext == EncodeByte \/ Arrive \/ DecodeByte

CodecSpec == CodecInit /\ [][CodecNext]_codecVars

-----------------------------------------------------------------------------
CodecTypeOK ==
  /\ codec_at \in {"encode", "sent", "decode", "done", "refused"}
  /\ number \in 0 .. Width - 1 /\ value \in Nat /\ result \in 0 .. Width - 1
  /\ encoded \in Seq(Byte)
  /\ max_len \in 0 .. MaxBytes + 1 /\ bytes_read \in 0 .. MaxBytes + 1

\* A number that has arrived is read back, whatever follows it in the buffer, and exactly its
\* own bytes are taken for it: the bytes mcpr_varint_bounds says, which write_packet and the
\* encoder reserve, and at most MCPR_VARINT_SIZE_MAX.
RoundTrip ==
  /\ Len(encoded) <= MaxBytes
  /\ codec_at # "encode" => Len(encoded) = VarintBounds(number)
  /\ codec_at = "done" => result = number /\ bytes_read = Len(encoded)

\* mcpr_connection_read_packet is called while a packet's length is half there and relies on
\* an error then, and only then: no part of a number passes for a number, whatever bytes lie
\* behind it in memory.
CutRefused ==
  /\ codec_at = "done" => max_len >= Len(encoded)
  /\ codec_at = "refused" => max_len < Len(encoded)
=============================================================================
