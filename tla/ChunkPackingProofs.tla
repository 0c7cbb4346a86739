-------------------------- MODULE ChunkPackingProofs --------------------------
(* Proofs about ChunkPacking, for every width and every section.           *)
EXTENDS ChunkPacking, TLAPS

\* A multiple of a width that lies in 1 .. width is the width (a word is full exactly when it is
\* used up, encode_chunk_section_blocks).
LEMMA OneTimes ==
  ASSUME NEW w \in Nat \ {0}, NEW d \in Int, w * d > 0, w * d <= w
  PROVE  d = 1
<1>1. ASSUME d <= 0 PROVE w * d <= 0
  BY <1>1
<1>2. ASSUME d >= 2 PROVE w * d > w
  <2>1. w * d = w * (d - 2) + w + w
    OBVIOUS
  <2>2. w * (d - 2) >= 0
    BY <1>2
  <2> QED BY <2>1, <2>2
<1> QED BY <1>1, <1>2

\* A bit lies in one place of one word, and belongs to one block (how the client finds a
\* block's bits).
LEMMA OnePlace ==
  ASSUME NEW w \in Nat \ {0}, NEW a \in Int, NEW c \in Int,
         NEW p \in 0 .. w - 1, NEW q \in 0 .. w - 1, a * w + p = c * w + q
  PROVE  a = c /\ p = q
<1>1. (a - c) * w = q - p
  OBVIOUS
<1>2. ASSUME a - c >= 1 PROVE (a - c) * w >= w
  <2>1. (a - c) * w = (a - c - 1) * w + w
    OBVIOUS
  <2>2. (a - c - 1) * w >= 0
    BY <1>2
  <2> QED BY <2>1, <2>2
<1>3. ASSUME c - a >= 1 PROVE (a - c) * w <= 0 - w
  <2>1. (a - c) * w = 0 - ((c - a - 1) * w) - w
    OBVIOUS
  <2>2. (c - a - 1) * w >= 0
    BY <1>3
  <2> QED BY <2>1, <2>2
<1>4. a = c
  BY <1>1, <1>2, <1>3
<1> QED BY <1>4

\* Two facts of multiplication, for whole words.
LEMMA NatTimes == ASSUME NEW m \in Nat, NEW n \in Nat PROVE m * n \in Nat
OBVIOUS

LEMMA TimesMinus ==
  ASSUME NEW l \in Int, NEW m \in Int, NEW n \in Int PROVE (l - m) * n = l * n - m * n
OBVIOUS

\* A bit's number is its word's and its place in it (how the client finds a bit).
LEMMA WordAndPlace ==
  ASSUME NEW w \in Nat \ {0}, NEW n \in Nat
  PROVE  n \div w \in Int /\ n % w \in 0 .. w - 1 /\ n = (n \div w) * w + (n % w)
OBVIOUS

\* The words that a section fills.
Words == (Blocks * BlockBits) \div WordBits

\* A section ends where a word ends: 4096 * 13 bits are 832 words.
LEMMA WordsFit == Words \in Int /\ Words * WordBits = Blocks * BlockBits
BY WidthsAssumption DEF Words

-----------------------------------------------------------------------------
(* One block, cut or whole, lands on its own bits of the stream.           *)

\* A block that fits is shifted to where its bits belong.
LEMMA WholeBlock ==
  ASSUME NEW block \in SUBSET Bit, NEW used \in Place, used + BlockBits <= WordBits,
         NEW from \in Int
  PROVE  {from + p : p \in ShiftLeft(block, used)} = {from + used + b : b \in block}
<1>1. ShiftLeft(block, used) = {b + used : b \in block}
  BY WidthsAssumption DEF ShiftLeft, Bit, Place
<1>2. \A b \in block : from + (b + used) = from + used + b
  BY DEF Bit, Place
<1> QED BY <1>1, <1>2

\* A block that does not fit is in two words, none of its bits in both or in neither.
LEMMA CutBlock ==
  ASSUME NEW block \in SUBSET Bit, NEW used \in Place, used + BlockBits > WordBits,
         NEW from \in Int
  PROVE  {from + p : p \in ShiftLeft(block, used)}
           \cup {from + WordBits + p : p \in ShiftRight(block, WordBits - used)}
         = {from + used + b : b \in block}
<1> DEFINE lower == {from + p : p \in ShiftLeft(block, used)}
           upper == {from + WordBits + p : p \in ShiftRight(block, WordBits - used)}
           whole == {from + used + b : b \in block}
<1>1. ASSUME NEW x \in lower PROVE x \in whole
  <2>1. PICK b \in block : x = from + (b + used)
    BY DEF ShiftLeft
  <2> QED BY <2>1 DEF Bit, Place
<1>2. ASSUME NEW x \in upper PROVE x \in whole
  <2>1. PICK b \in block : x = from + WordBits + (b - (WordBits - used))
    BY DEF ShiftRight
  <2>2. x = from + used + b
    BY <2>1, WidthsAssumption DEF Bit, Place
  <2> QED BY <2>2
<1>3. ASSUME NEW x \in whole PROVE x \in lower \cup upper
  <2>1. PICK b \in block : x = from + used + b
    OBVIOUS
  <2>2. CASE b + used < WordBits
    <3>1. b + used \in ShiftLeft(block, used)
      BY <2>2, WidthsAssumption DEF ShiftLeft, Bit, Place
    <3>2. x = from + (b + used)
      BY <2>1 DEF Bit, Place
    <3> QED BY <3>1, <3>2
  <2>3. CASE b + used >= WordBits
    <3>1. b - (WordBits - used) \in ShiftRight(block, WordBits - used)
      BY <2>3, WidthsAssumption DEF ShiftRight, Bit, Place
    <3>2. x = from + WordBits + (b - (WordBits - used))
      BY <2>1, WidthsAssumption DEF Bit, Place
    <3> QED BY <3>1, <3>2
  <2> QED BY <2>2, <2>3, WidthsAssumption DEF Bit, Place
<1> QED BY <1>1, <1>2, <1>3

\* A finished word adds its bits behind those of the words before it.
LEMMA WrittenGrows ==
  ASSUME out \in Seq(SUBSET Place), NEW word \in SUBSET Place, out' = Append(out, word)
  PROVE  Written' = Written \cup {Len(out) * WordBits + p : p \in word}
<1>1. DOMAIN out = 1 .. Len(out) /\ DOMAIN out' = 1 .. Len(out) + 1
  OBVIOUS
<1>2. \A w \in DOMAIN out : out'[w] = out[w]
  OBVIOUS
<1>3. out'[Len(out) + 1] = word /\ (Len(out) + 1) - 1 = Len(out)
  OBVIOUS
<1>4. DOMAIN out' = DOMAIN out \cup {Len(out) + 1}
  BY <1>1
<1> DEFINE old(w) == {(w - 1) * WordBits + p : p \in out[w]}
           new(w) == {(w - 1) * WordBits + p : p \in out'[w]}
<1>5. \A w \in DOMAIN out : new(w) = old(w)
  BY <1>2
<1>6. new(Len(out) + 1) = {Len(out) * WordBits + p : p \in word}
  BY <1>3
<1>7. Written = UNION {old(w) : w \in DOMAIN out} /\ Written' = UNION {new(w) : w \in DOMAIN out'}
  BY DEF Written
<1> HIDE DEF old, new
<1>8. \A x : x \in Written' <=> x \in Written \/ x \in new(Len(out) + 1)
  BY <1>4, <1>5, <1>7, Zenon
<1> QED BY <1>6, <1>8

\* The next block adds its bits to the stream.
LEMMA StreamGrows ==
  ASSUME NEW k \in 0 .. Blocks - 1
  PROVE  Stream(k + 1) = Stream(k) \cup {k * BlockBits + b : b \in section[k]}
<1>1. 0 .. (k + 1) - 1 = 0 .. k - 1 \cup {k}
  OBVIOUS
<1> DEFINE part(j) == {j * BlockBits + b : b \in section[j]}
<1>2. Stream(k) = UNION {part(j) : j \in 0 .. k - 1}
      /\ Stream(k + 1) = UNION {part(j) : j \in 0 .. (k + 1) - 1}
  BY DEF Stream
<1> HIDE DEF part
<1>3. Stream(k + 1) = Stream(k) \cup part(k)
  BY <1>1, <1>2, Zenon
<1> QED BY <1>3 DEF part

-----------------------------------------------------------------------------
\* The word in the making holds bits only where it is used.
TmpInUse == \A p \in tmp_result : p < bits_used

IInv == TypeOK /\ PrefixPacked /\ TmpInUse

\* Before the first block nothing is packed.
LEMMA InitIInv == Init => IInv
<1> SUFFICES ASSUME Init PROVE IInv
  OBVIOUS
<1>1. TypeOK
  BY WidthsAssumption, KindsAssumption DEF Init, TypeOK, Bit, Place
<1>2. PrefixPacked
  <2>1. Written = {} /\ Stream(i) = {}
    BY DEF Init, Written, Stream
  <2>2. Len(out) * WordBits + bits_used = i * BlockBits
    BY WidthsAssumption DEF Init
  <2> QED BY <2>1, <2>2 DEF Init, PrefixPacked
<1>3. TmpInUse
  BY DEF Init, TmpInUse
<1> QED BY <1>1, <1>2, <1>3 DEF IInv

\* At the last block a word that is not overrun is exactly full.
LEMMA LastBlockFills ==
  ASSUME IInv, i = Blocks - 1, bits_used + BlockBits <= WordBits
  PROVE  bits_used + BlockBits = WordBits
<1>1. Len(out) * WordBits + bits_used + BlockBits = Words * WordBits
  <2>1. (Blocks - 1) * BlockBits + BlockBits = Blocks * BlockBits
    BY WidthsAssumption
  <2> QED BY <2>1, WordsFit, WidthsAssumption DEF IInv, TypeOK, PrefixPacked, Place
<1>2. WordBits * (Words - Len(out)) = bits_used + BlockBits
  BY <1>1, WordsFit, WidthsAssumption DEF IInv, TypeOK, Place
<1>3. Words - Len(out) = 1
  BY <1>2, WordsFit, OneTimes, WidthsAssumption DEF IInv, TypeOK, Place
<1> QED BY <1>2, <1>3, WidthsAssumption

-----------------------------------------------------------------------------
\* What the three ways to pack a block have in common: the block's bits follow the stream, and
\* go into the current word beside those it has.
LEMMA PackBlock ==
  ASSUME IInv, i < Blocks, section' = section, i' = i + 1
  PROVE  /\ section[i] \in SUBSET Bit /\ bits_used \in Place /\ Len(out) * WordBits \in Int
         /\ i' \in 0 .. Blocks
         /\ WithBlock \in SUBSET Place
         /\ i' * BlockBits = Len(out) * WordBits + bits_used + BlockBits
         /\ Stream(i)' = Written \cup {Len(out) * WordBits + p : p \in tmp_result}
                           \cup {Len(out) * WordBits + bits_used + b : b \in section[i]}
         /\ {Len(out) * WordBits + p : p \in WithBlock}
              = {Len(out) * WordBits + p : p \in tmp_result}
                  \cup {Len(out) * WordBits + p : p \in ShiftLeft(section[i], bits_used)}
<1>1. /\ i \in 0 .. Blocks - 1 /\ section[i] \in SUBSET Bit
      /\ i' \in 0 .. Blocks
      /\ bits_used \in Place /\ Len(out) * WordBits \in Int
  <2>1. i \in 0 .. Blocks - 1 /\ i' \in 0 .. Blocks
    BY WidthsAssumption DEF IInv, TypeOK
  <2>2. section[i] \in SUBSET Bit
    BY <2>1, KindsAssumption DEF IInv, TypeOK, Bit
  <2>3. Len(out) \in Nat /\ bits_used \in Place
    BY DEF IInv, TypeOK
  <2>4. Len(out) * WordBits \in Int
    BY <2>3, WidthsAssumption
  <2> QED BY <2>1, <2>2, <2>3, <2>4
<1>2. WithBlock \in SUBSET Place
  BY DEF WithBlock, ShiftLeft, IInv, TypeOK
<1>3. i' * BlockBits = Len(out) * WordBits + bits_used + BlockBits
  <2>1. (i + 1) * BlockBits = i * BlockBits + BlockBits
    BY <1>1, WidthsAssumption
  <2> QED BY <2>1 DEF IInv, PrefixPacked
<1>4. Stream(i)' = Stream(i + 1)
  BY DEF Stream
<1>5. Stream(i + 1) = Stream(i) \cup {i * BlockBits + b : b \in section[i]}
  BY <1>1, StreamGrows
<1>6. /\ i * BlockBits = Len(out) * WordBits + bits_used
      /\ Stream(i) = Written \cup {Len(out) * WordBits + p : p \in tmp_result}
  BY DEF IInv, PrefixPacked
<1>7. {Len(out) * WordBits + p : p \in WithBlock}
        = {Len(out) * WordBits + p : p \in tmp_result}
            \cup {Len(out) * WordBits + p : p \in ShiftLeft(section[i], bits_used)}
  BY DEF WithBlock
<1> QED BY <1>1, <1>2, <1>3, <1>4, <1>5, <1>6, <1>7, Zenon

\* A block that leaves room in its word keeps the invariant.
LEMMA InsideStep == ASSUME IInv, PackInside PROVE IInv'
<1> USE DEF PackInside
<1>1. section' = section /\ i' = i + 1 /\ i < Blocks /\ out' = out
  OBVIOUS
<1>2. bits_used + BlockBits < WordBits
  BY WidthsAssumption DEF WordFull, IInv, TypeOK, Place
<1>3. TypeOK'
  BY <1>1, <1>2, PackBlock, WidthsAssumption DEF IInv, TypeOK, Place
<1>4. PrefixPacked'
  <2>1. Written' = Written
    BY <1>1 DEF Written
  <2>2. {Len(out) * WordBits + p : p \in ShiftLeft(section[i], bits_used)}
          = {Len(out) * WordBits + bits_used + b : b \in section[i]}
    <3>1. bits_used + BlockBits <= WordBits
      BY <1>1, <1>2, PackBlock, WidthsAssumption DEF Place
    <3> QED BY <1>1, <3>1, PackBlock, WholeBlock, Zenon
  <2>3. Written \cup {Len(out) * WordBits + p : p \in WithBlock} = Stream(i)'
    BY <1>1, <2>2, PackBlock, Zenon
  <2>4. Len(out)' * WordBits + bits_used' = i' * BlockBits
    BY <1>1, PackBlock, WidthsAssumption DEF IInv, TypeOK, Place
  <2> QED BY <1>1, <2>1, <2>3, <2>4 DEF PrefixPacked
<1>5. TmpInUse'
  <2>1. \A p \in ShiftLeft(section[i], bits_used) : p < bits_used + BlockBits
    <3>1. section[i] \in SUBSET Bit /\ bits_used \in Place
      BY <1>1, PackBlock, Zenon
    <3> QED BY <3>1, WidthsAssumption DEF ShiftLeft, Bit, Place
  <2>2. \A p \in tmp_result : p < bits_used + BlockBits
    BY WidthsAssumption DEF IInv, TmpInUse, TypeOK, Place
  <2> QED BY <2>1, <2>2 DEF TmpInUse, WithBlock
<1> QED BY <1>3, <1>4, <1>5 DEF IInv

\* So does a block that ends its word.
LEMMA ToEndStep == ASSUME IInv, PackToEnd PROVE IInv'
<1> USE DEF PackToEnd
<1>1. /\ section' = section /\ i' = i + 1 /\ i < Blocks
      /\ out' = Append(out, WithBlock) /\ tmp_result' = {} /\ bits_used' = 0
  OBVIOUS
<1>2. bits_used + BlockBits = WordBits
  BY LastBlockFills, WidthsAssumption DEF WordFull, IInv, TypeOK, Place
<1>3. Len(out') = Len(out) + 1 /\ out \in Seq(SUBSET Place)
  BY <1>1 DEF IInv, TypeOK
<1>4. TypeOK'
  BY <1>1, PackBlock, WidthsAssumption DEF IInv, TypeOK, Place
<1>5. PrefixPacked'
  <2>1. Written' = Written \cup {Len(out) * WordBits + p : p \in WithBlock}
    BY <1>1, <1>3, PackBlock, WrittenGrows
  <2>2. {Len(out) * WordBits + p : p \in ShiftLeft(section[i], bits_used)}
          = {Len(out) * WordBits + bits_used + b : b \in section[i]}
    <3>1. bits_used + BlockBits <= WordBits
      OBVIOUS
    <3>2. section[i] \in SUBSET Bit /\ bits_used \in Place /\ Len(out) * WordBits \in Int
      BY <1>1, PackBlock, Zenon
    <3> QED BY <3>1, <3>2, WholeBlock, Zenon
  <2>3. Written' = Stream(i)'
    BY <1>1, <2>1, <2>2, PackBlock, Zenon
  <2>4. Len(out') * WordBits + 0 = i' * BlockBits
    <3>1. (Len(out) + 1) * WordBits = Len(out) * WordBits + WordBits
      BY <1>3, WidthsAssumption
    <3>2. i' * BlockBits = Len(out) * WordBits + bits_used + BlockBits
      BY <1>1, PackBlock, Zenon
    <3> QED BY <1>2, <1>3, <3>1, <3>2, WidthsAssumption DEF IInv, TypeOK, Place
  <2>5. {Len(out') * WordBits + p : p \in {}} = {}
    OBVIOUS
  <2> QED BY <1>1, <2>3, <2>4, <2>5 DEF PrefixPacked
<1>6. TmpInUse'
  BY <1>1 DEF TmpInUse
<1> QED BY <1>4, <1>5, <1>6 DEF IInv

\* So does a block that is cut.
LEMMA AcrossStep == ASSUME IInv, PackAcross PROVE IInv'
<1> DEFINE over == bits_used + BlockBits - WordBits
<1>1. /\ section' = section /\ i' = i + 1 /\ i < Blocks
      /\ out' = Append(out, WithBlock) /\ tmp_result' = Rest(over) /\ bits_used' = over
      /\ over > 0
  BY DEF PackAcross
<1>2. over \in Place /\ BlockBits - over = WordBits - bits_used
  BY <1>1, WidthsAssumption DEF IInv, TypeOK, Place
<1>3. Len(out') = Len(out) + 1 /\ out \in Seq(SUBSET Place)
  BY <1>1 DEF IInv, TypeOK
<1>4. tmp_result' = ShiftRight(section[i], WordBits - bits_used)
  BY <1>1, <1>2 DEF Rest
<1>5. \A p \in tmp_result' : p \in Place /\ p < over
  BY <1>1, <1>2, <1>4, PackBlock, WidthsAssumption DEF ShiftRight, Bit, IInv, TypeOK, Place
<1>6. TypeOK'
  BY <1>1, <1>2, <1>5, PackBlock DEF IInv, TypeOK
<1>7. PrefixPacked'
  <2>1. Written' = Written \cup {Len(out) * WordBits + p : p \in WithBlock}
    BY <1>1, <1>3, PackBlock, WrittenGrows
  <2>2. {Len(out) * WordBits + p : p \in ShiftLeft(section[i], bits_used)}
          \cup {Len(out) * WordBits + WordBits + p : p \in tmp_result'}
          = {Len(out) * WordBits + bits_used + b : b \in section[i]}
    <3>1. bits_used + BlockBits > WordBits
      BY <1>1, PackBlock, WidthsAssumption DEF Place
    <3>2. section[i] \in SUBSET Bit /\ bits_used \in Place /\ Len(out) * WordBits \in Int
      BY <1>1, PackBlock, Zenon
    <3> QED BY <1>4, <3>1, <3>2, CutBlock
  <2>3. Written' \cup {Len(out) * WordBits + WordBits + p : p \in tmp_result'} = Stream(i)'
    BY <1>1, <2>1, <2>2, PackBlock, Zenon
  <2>4. Len(out') * WordBits = Len(out) * WordBits + WordBits
    BY <1>3, WidthsAssumption
  <2>5. Len(out') * WordBits + bits_used' = i' * BlockBits
    <3>1. i' * BlockBits = Len(out) * WordBits + bits_used + BlockBits
      BY <1>1, PackBlock, Zenon
    <3>2. bits_used \in Place /\ Len(out) * WordBits \in Int
      BY <1>1, PackBlock, Zenon
    <3> QED BY <1>1, <2>4, <3>1, <3>2, WidthsAssumption DEF Place
  <2> QED BY <2>3, <2>4, <2>5 DEF PrefixPacked
<1>8. TmpInUse'
  BY <1>1, <1>5 DEF TmpInUse
<1> QED BY <1>6, <1>7, <1>8 DEF IInv

\* The invariant holds throughout encode_chunk_section_blocks.
LEMMA Inductive == Spec => []IInv
<1>1. IInv /\ [Next]_vars => IInv'
  <2> SUFFICES ASSUME IInv, [Next]_vars PROVE IInv'
    OBVIOUS
  <2>1. CASE PackInside
    BY <2>1, InsideStep
  <2>2. CASE PackToEnd
    BY <2>2, ToEndStep
  <2>3. CASE PackAcross
    BY <2>3, AcrossStep
  <2>4. CASE UNCHANGED vars
    <3>1. Written' = Written /\ Stream(i)' = Stream(i)
      BY <2>4 DEF vars, Written, Stream
    <3>2. TypeOK' /\ TmpInUse'
      BY <2>4 DEF vars, IInv, TypeOK, TmpInUse
    <3>3. PrefixPacked'
      BY <2>4, <3>1 DEF vars, IInv, PrefixPacked
    <3> QED BY <3>2, <3>3 DEF IInv
  <2> QED BY <2>1, <2>2, <2>3, <2>4 DEF Next
<1> QED BY <1>1, InitIInv, PTL DEF Spec

\* After every block the finished words and the one in the making are the blocks' bits end to
\* end, whatever the widths and the blocks (encode_chunk_section_blocks).
THEOREM PackedCorrect == Spec => [](TypeOK /\ PrefixPacked)
<1>1. IInv => TypeOK /\ PrefixPacked
  BY DEF IInv
<1> QED BY <1>1, Inductive, PTL

-----------------------------------------------------------------------------
(* The finished section.                                                   *)

\* The last word is full when the blocks are.
LEMMA NothingLeft ==
  ASSUME IInv, i = Blocks
  PROVE  bits_used = 0 /\ Len(out) = Words
<1>1. Len(out) \in Int /\ bits_used \in 0 .. WordBits - 1 /\ 0 \in 0 .. WordBits - 1
  BY WidthsAssumption DEF IInv, TypeOK, Place
<1>2. Len(out) * WordBits + bits_used = Words * WordBits + 0
  BY <1>1, WordsFit, WidthsAssumption DEF IInv, PrefixPacked
<1>3. WordBits \in Nat \ {0}
  BY WidthsAssumption
<1> QED BY <1>1, <1>2, <1>3, WordsFit, OnePlace

\* The words written are those the packet announces, never more (block_array_length).
THEOREM ArrayCorrect == Spec => []ArrayExact
<1>1. ASSUME IInv PROVE ArrayExact
  <2>1. Len(out) * WordBits <= i * BlockBits
    BY <1>1, WidthsAssumption DEF IInv, TypeOK, PrefixPacked, Place
  <2>2. i * BlockBits <= Blocks * BlockBits
    <3>1. (Blocks - i) * BlockBits >= 0
      BY <1>1, WidthsAssumption DEF IInv, TypeOK
    <3> QED BY <1>1, <3>1, WidthsAssumption DEF IInv, TypeOK
  <2>3. Len(out) * WordBits \in Int /\ i * BlockBits \in Int /\ Blocks * BlockBits \in Int
    BY <1>1, WidthsAssumption DEF IInv, TypeOK
  <2>4. i = Blocks => Len(out) * WordBits = Blocks * BlockBits
    BY <1>1, NothingLeft, WordsFit
  <2> QED BY <2>1, <2>2, <2>3, <2>4 DEF ArrayExact
<1> QED BY <1>1, Inductive, PTL

\* A place in the words holds a bit exactly if the stream has it there.
LEMMA BitWritten ==
  ASSUME IInv, i = Blocks, NEW w \in 0 .. Words - 1, NEW p \in Place
  PROVE  p \in out[w + 1] <=> w * WordBits + p \in Stream(Blocks)
<1>1. tmp_result = {} /\ Len(out) = Words
  BY NothingLeft DEF IInv, TmpInUse, TypeOK, Place
<1>2. Written = Stream(Blocks)
  BY <1>1 DEF IInv, PrefixPacked
<1>3. DOMAIN out = 1 .. Words /\ \A v \in 1 .. Words : out[v] \in SUBSET Place
  BY <1>1 DEF IInv, TypeOK
<1>4. ASSUME p \in out[w + 1] PROVE w * WordBits + p \in Written
  <2>1. w + 1 \in DOMAIN out /\ (w + 1) - 1 = w
    BY <1>3, WordsFit
  <2>2. w * WordBits + p \in {((w + 1) - 1) * WordBits + q : q \in out[w + 1]}
    BY <1>4, <2>1
  <2> QED BY <2>1, <2>2, Zenon DEF Written
<1>5. ASSUME w * WordBits + p \in Written PROVE p \in out[w + 1]
  <2>1. PICK v \in 1 .. Words : \E q \in out[v] : w * WordBits + p = (v - 1) * WordBits + q
    BY <1>3, <1>5, Zenon DEF Written
  <2>2. PICK q \in out[v] : w * WordBits + p = (v - 1) * WordBits + q
    BY <2>1
  <2>3. w = v - 1 /\ p = q
    <3>1. /\ WordBits \in Nat \ {0} /\ w \in Int /\ v - 1 \in Int
          /\ p \in 0 .. WordBits - 1 /\ q \in 0 .. WordBits - 1
      BY <1>3, <2>2, WidthsAssumption, WordsFit DEF Place
    <3> QED BY <2>2, <3>1, OnePlace
  <2>4. v = w + 1
    BY <2>3, WordsFit
  <2> QED BY <2>2, <2>3, <2>4
<1> QED BY <1>2, <1>4, <1>5

\* The stream has a block's bit exactly if the block has.
LEMMA BitInStream ==
  ASSUME IInv, NEW k \in 0 .. Blocks - 1, NEW b \in Bit
  PROVE  k * BlockBits + b \in Stream(Blocks) <=> b \in section[k]
<1>1. ASSUME NEW j \in 0 .. Blocks - 1 PROVE section[j] \in SUBSET Bit
  BY <1>1, KindsAssumption DEF IInv, TypeOK, Bit
<1>2. ASSUME b \in section[k] PROVE k * BlockBits + b \in Stream(Blocks)
  <2>1. k * BlockBits + b \in {k * BlockBits + c : c \in section[k]}
    BY <1>2
  <2> QED BY <2>1, Zenon DEF Stream
<1>3. ASSUME k * BlockBits + b \in Stream(Blocks) PROVE b \in section[k]
  <2>1. PICK j \in 0 .. Blocks - 1 : \E c \in section[j] : k * BlockBits + b = j * BlockBits + c
    BY <1>3, Zenon DEF Stream
  <2>2. PICK c \in section[j] : k * BlockBits + b = j * BlockBits + c
    BY <2>1
  <2>3. c \in Bit
    BY <1>1, <2>2
  <2>4. k = j /\ b = c
    BY <2>2, <2>3, OnePlace, WidthsAssumption DEF Bit
  <2> QED BY <2>2, <2>4
<1> QED BY <1>2, <1>3

\* The client reads back every block of every section (encode_chunk_section_blocks).
THEOREM ReadableCorrect == Spec => []SectionReadable
<1>1. ASSUME IInv PROVE SectionReadable
  <2> SUFFICES ASSUME i = Blocks, NEW k \in 0 .. Blocks - 1, NEW b \in Bit
               PROVE  b \in Decoded(k) <=> b \in section[k]
    <3>1. ASSUME NEW k \in 0 .. Blocks - 1 PROVE section[k] \in SUBSET Bit /\ Decoded(k) \in SUBSET Bit
      BY <1>1, <3>1, KindsAssumption DEF IInv, TypeOK, Bit, Decoded
    <3> QED BY <3>1 DEF SectionReadable
  <2> DEFINE bit == k * BlockBits + b
             w == bit \div WordBits
             p == bit % WordBits
  <2>1. bit \in Int /\ 0 <= bit /\ bit < Words * WordBits
    <3>1. (Blocks - 1 - k) * BlockBits >= 0 /\ k * BlockBits >= 0 /\ k * BlockBits \in Int
      BY WidthsAssumption
    <3>2. k * BlockBits <= Blocks * BlockBits - BlockBits
      BY <3>1, WidthsAssumption
    <3> QED BY <3>1, <3>2, WordsFit, WidthsAssumption DEF Bit
  <2>2. w \in Int /\ p \in Place /\ bit = w * WordBits + p
    <3>1. bit \in Nat /\ WordBits \in Nat \ {0}
      BY <2>1, WidthsAssumption
    <3> HIDE DEF bit
    <3> QED BY <3>1, WordAndPlace DEF Place
  <2>3. w \in 0 .. Words - 1
    <3>1. w >= 0
      BY <2>1, WidthsAssumption
    <3>2. ASSUME w >= Words PROVE w * WordBits >= Words * WordBits
      <4> HIDE DEF w
      <4>1. w - Words \in Nat /\ WordBits \in Nat /\ w \in Int /\ Words \in Int
        BY <2>2, <3>2, WordsFit, WidthsAssumption
      <4>2. (w - Words) * WordBits \in Nat
        BY <4>1, NatTimes
      <4>3. (w - Words) * WordBits = w * WordBits - Words * WordBits
        BY <4>1, TimesMinus
      <4> QED BY <4>1, <4>2, <4>3
    <3>3. p >= 0 /\ p \in Int /\ w \in Int /\ Words \in Int
      BY <2>2, WordsFit, WidthsAssumption DEF Place
    <3> HIDE DEF bit, w, p
    <3>4. ~(w >= Words)
      <4>1. bit < Words * WordBits /\ bit = w * WordBits + p /\ bit \in Int
        BY <2>1, <2>2
      <4> DEFINE whole == w * WordBits
                 limit == Words * WordBits
      <4>2. whole \in Int /\ limit \in Int
        BY <3>3, WidthsAssumption
      <4>3. whole < limit
        <5> HIDE DEF whole, limit
        <5> QED BY <4>1, <4>2, <3>3 DEF whole, limit
      <4> QED BY <4>2, <4>3, <3>2, <3>3
    <3> QED BY <3>1, <3>3, <3>4
  <2>4. b \in Decoded(k) <=> p \in out[w + 1]
    BY DEF Decoded
  <2> HIDE DEF w, p
  <2>5. p \in out[w + 1] <=> bit \in Stream(Blocks)
    BY <1>1, <2>2, <2>3, BitWritten
  <2> QED BY <1>1, <2>4, <2>5, BitInStream
<1> QED BY <1>1, Inductive, PTL
=============================================================================
