----------------------------- MODULE CodecProofs -----------------------------
(***************************************************************************)
(* Variable-length integers, for every width of a number and of a group;   *)
(* and the packets written with them and read from them, for every length  *)
(* of a string or an array, every number and every chunk.                  *)
(***************************************************************************)
EXTENDS PacketEncoder, PacketDecoder, FiniteSetTheorems, SequenceTheorems,
        WellFoundedInduction, TLAPS

-----------------------------------------------------------------------------
(* Numbers.                                                                *)

LEMMA SmallestOf ==
  ASSUME NEW T, T \subseteq Nat, T # {}
  PROVE  \E x \in T : \A y \in T : x <= y
<1> DEFINE R == OpToRel(<, Nat)
<1>1. IsWellFoundedOn(R, Nat)
  BY NatLessThanWellFounded
<1>2. \A x, y \in Nat : x < y => <<x, y>> \in R
  BY DEF OpToRel
<1> HIDE DEF R
<1>3. PICK x \in T : \A y \in T : ~ (<<y, x>> \in R)
  BY <1>1, WFMin
<1>4. ASSUME NEW y \in T PROVE x <= y
  <2>1. x \in Nat /\ y \in Nat
    OBVIOUS
  <2>2. ~ (<<y, x>> \in R)
    BY <1>3
  <2> QED BY <2>1, <2>2, <1>2
<1> QED BY <1>4

\* A product is at least as large as a factor.
LEMMA ProductGrows ==
  ASSUME NEW g \in Nat \ {0}, NEW x \in Nat
  PROVE  g * x \in Nat /\ g * x >= x
<1>1. g * x = (g - 1) * x + x
  OBVIOUS
<1>2. (g - 1) * x \in Nat
  OBVIOUS
<1> QED BY <1>1, <1>2

LEMMA Division ==
  ASSUME NEW n \in Nat, NEW d \in Nat \ {0}
  PROVE  /\ n \div d \in Nat /\ n % d \in 0 .. d - 1
         /\ n = (n \div d) * d + (n % d)
<1>1. n \div d \in Int /\ n % d \in 0 .. d - 1 /\ n = (n \div d) * d + (n % d)
  OBVIOUS
<1>2. ASSUME n \div d <= -1 PROVE FALSE
  <2>1. (n \div d) * d = (n \div d + 1) * d - d
    BY <1>1
  <2>2. (n \div d + 1) * d <= 0
    BY <1>1, <1>2
  <2> QED BY <1>1, <2>1, <2>2
<1> QED BY <1>1, <1>2

\* Quotient and rest are determined by what they make up.
LEMMA DivisionUnique ==
  ASSUME NEW n \in Nat, NEW d \in Nat \ {0}, NEW q \in Int, NEW r \in 0 .. d - 1, n = q * d + r
  PROVE  n \div d = q /\ n % d = r
<1> DEFINE a == n \div d
           p == n % d
<1>1. a \in Int /\ p \in 0 .. d - 1 /\ n = a * d + p
  <2>1. n \div d \in Nat /\ n % d \in 0 .. d - 1 /\ n = (n \div d) * d + (n % d)
    BY Division, Zenon
  <2> HIDE DEF a, p
  <2>2. a = n \div d /\ p = n % d
    BY Zenon DEF a, p
  <2> QED BY <2>1, <2>2
<1> HIDE DEF a, p
<1>2. (a - q) * d = r - p
  BY <1>1
<1>3. ASSUME a - q >= 1 PROVE FALSE
  <2>1. (a - q) * d = (a - q - 1) * d + d
    BY <1>1
  <2>2. (a - q - 1) * d >= 0
    BY <1>1, <1>3
  <2> QED BY <1>1, <1>2, <2>1, <2>2
<1>4. ASSUME q - a >= 1 PROVE FALSE
  <2>1. (a - q) * d = 0 - ((q - a - 1) * d) - d
    BY <1>1
  <2>2. (q - a - 1) * d >= 0
    BY <1>1, <1>4
  <2> QED BY <1>1, <1>2, <2>1, <2>2
<1>5. a = q
  BY <1>1, <1>3, <1>4
<1>6. p = r
  BY <1>1, <1>5
<1> QED BY <1>5, <1>6 DEF a, p

\* Taking one more group off a number (the encoder's value >> 7, the decoder's value << 7 * i).
LEMMA OneMoreGroup ==
  ASSUME NEW n \in Nat, NEW p \in Nat \ {0}, NEW g \in Nat \ {0}
  PROVE  /\ g * p \in Nat \ {0}
         /\ n \div (g * p) = (n \div p) \div g
         /\ n % (g * p) = (n % p) + ((n \div p) % g) * p
<1> DEFINE q == n \div p
           r == n % p
           h == q \div g
           l == q % g
<1>1. q \in Nat /\ r \in 0 .. p - 1 /\ n = q * p + r
  BY Division
<1>2. h \in Nat /\ l \in 0 .. g - 1 /\ q = h * g + l
  BY <1>1, Division
<1> HIDE DEF q, r, h, l
<1>3. g * p \in Nat \ {0}
  BY ProductGrows
<1>4. n = h * (g * p) + (l * p + r)
  <2>1. q * p = (h * g) * p + l * p
    BY <1>1, <1>2
  <2>2. (h * g) * p = h * (g * p)
    BY <1>2
  <2> QED BY <1>1, <1>2, <2>1, <2>2, <1>3
<1>5. l * p + r \in 0 .. g * p - 1
  <2>1. g * p = (g - 1 - l) * p + (l * p + p)
    BY <1>2
  <2>2. (g - 1 - l) * p >= 0 /\ l * p >= 0 /\ l * p \in Int /\ (g - 1 - l) * p \in Int
    BY <1>2
  <2> QED BY <1>1, <1>3, <2>1, <2>2
<1>6. n \div (g * p) = h /\ n % (g * p) = l * p + r
  <2> DEFINE d == g * p
             s == l * p + r
  <2>1. d \in Nat \ {0} /\ h \in Int /\ s \in 0 .. d - 1 /\ n = h * d + s
    BY <1>2, <1>3, <1>4, <1>5
  <2> HIDE DEF d, s
  <2>2. n \div d = h /\ n % d = s
    BY <2>1, DivisionUnique
  <2> QED BY <2>2 DEF d, s
<1>7. l * p \in Int
  BY <1>2
<1> QED BY <1>1, <1>3, <1>6, <1>7 DEF q, r, h, l

-----------------------------------------------------------------------------
(* The powers of a group.                                                  *)

Places == 0 .. MaxBytes

LEMMA PowerStep ==
  ASSUME NEW k \in 0 .. MaxBytes - 1
  PROVE  /\ k \in Places /\ k + 1 \in Places
         /\ Power[k] \in Nat /\ Power[k + 1] = Group * Power[k]
<1>1. k \in Places /\ k + 1 \in Places
  BY MaxBytesAssumption DEF Places
<1> QED BY <1>1, PowerAssumption DEF Places

LEMMA PowerPositive ==
  \A k \in Places : Power[k] \in Nat \ {0}
<1> DEFINE T == {k \in Places : Power[k] \notin Nat \ {0}}
<1> SUFFICES ASSUME T # {} PROVE FALSE
  OBVIOUS
<1>1. T \subseteq Nat
  BY MaxBytesAssumption DEF Places
<1>2. PICK k \in T : \A y \in T : k <= y
  BY <1>1, SmallestOf
<1>3. k # 0
  BY PowerAssumption
<1>4. k - 1 \in 0 .. MaxBytes - 1 /\ k - 1 \notin T
  BY <1>1, <1>2, <1>3, MaxBytesAssumption DEF Places
<1>5. Power[k] = Group * Power[k - 1] /\ Power[k - 1] \in Nat \ {0}
  <2>1. (k - 1) + 1 = k
    BY <1>1
  <2>2. k - 1 \in Places /\ Power[(k - 1) + 1] = Group * Power[k - 1]
    BY <1>4, PowerStep
  <2> QED BY <1>4, <2>1, <2>2
<1>6. Power[k] \in Nat \ {0}
  <2> DEFINE x == Power[k - 1]
  <2>1. x \in Nat \ {0} /\ Group \in Nat \ {0}
    BY <1>5, GroupAssumption
  <2> HIDE DEF x
  <2>2. Group * x \in Nat /\ Group * x >= x
    BY <2>1, ProductGrows
  <2>3. Group * x \in Nat \ {0}
    BY <2>1, <2>2
  <2> QED BY <1>5, <2>3 DEF x
<1> QED BY <1>6

LEMMA PowerGrows ==
  ASSUME NEW j \in Places
  PROVE  \A k \in j .. MaxBytes : Power[j] <= Power[k]
<1> DEFINE T == {k \in j .. MaxBytes : ~ (Power[j] <= Power[k])}
<1> SUFFICES ASSUME T # {} PROVE FALSE
  OBVIOUS
<1>1. T \subseteq Nat
  BY MaxBytesAssumption DEF Places
<1>2. PICK k \in T : \A y \in T : k <= y
  BY <1>1, SmallestOf
<1>3. k # j
  BY PowerPositive
<1>4. k - 1 \in j .. MaxBytes /\ k - 1 \notin T /\ k - 1 \in 0 .. MaxBytes - 1 /\ k \in Nat
  BY <1>1, <1>2, <1>3, MaxBytesAssumption DEF Places
<1> DEFINE x == Power[k - 1]
<1>5. Power[k] = Group * x
  <2>1. (k - 1) + 1 = k
    BY <1>4
  <2> QED BY <1>4, <2>1, PowerStep
<1>6. x \in Nat /\ Power[j] \in Nat /\ Power[j] <= x
  BY <1>4, PowerPositive, PowerStep
<1> HIDE DEF x
<1>7. Group * x \in Nat /\ Group * x >= x
  BY <1>6, GroupAssumption, ProductGrows
<1> QED BY <1>5, <1>6, <1>7

\* A number has no group from k on exactly if it is below the k-th power.
LEMMA NoGroupLeft ==
  ASSUME NEW n \in Nat, NEW k \in Places
  PROVE  /\ n \div Power[k] \in Nat /\ n % Power[k] \in Nat
         /\ n \div Power[k] = 0 <=> n < Power[k]
         /\ n < Power[k] => n % Power[k] = n
         /\ n % Power[k] <= n
<1> DEFINE d == Power[k]
<1>1. d \in Nat \ {0}
  BY PowerPositive
<1> HIDE DEF d
<1>2. n \div d \in Nat /\ n % d \in 0 .. d - 1 /\ n = (n \div d) * d + (n % d)
  BY <1>1, Division
<1>3. n < d => n \div d = 0 /\ n % d = n
  <2> SUFFICES ASSUME n < d PROVE n \div d = 0 /\ n % d = n
    OBVIOUS
  <2>1. n \in 0 .. d - 1 /\ n = 0 * d + n
    BY <1>1
  <2> QED BY <1>1, <2>1, DivisionUnique
<1>4. n \div d = 0 => n < d
  BY <1>1, <1>2
<1>5. n % d <= n
  <2>1. (n \div d) * d \in Nat
    BY <1>1, <1>2
  <2> QED BY <1>2, <2>1
<1>6. /\ n \div d \in Nat /\ n % d \in Nat
      /\ n \div d = 0 <=> n < d
      /\ n < d => n % d = n
      /\ n % d <= n
  BY <1>1, <1>2, <1>3, <1>4, <1>5
<1> QED BY <1>6 DEF d

\* A number of the width of its type is kept by reducing it to that width.
LEMMA Reduced ==
  ASSUME NEW x \in Nat
  PROVE  x % Width \in 0 .. Width - 1 /\ (x < Width => x % Width = x)
<1> DEFINE w == Width
<1>1. w \in Nat \ {0}
  BY WidthAssumption
<1> HIDE DEF w
<1>2. x % w \in 0 .. w - 1 /\ (x < w => x % w = x)
  BY <1>1
<1> QED BY <1>2 DEF w

\* What is left after one group more.
LEMMA NextGroup ==
  ASSUME NEW n \in Nat, NEW k \in 0 .. MaxBytes - 1
  PROVE  /\ n \div Power[k + 1] = (n \div Power[k]) \div Group
         /\ n % Power[k + 1] = (n % Power[k]) + ((n \div Power[k]) % Group) * Power[k]
<1> DEFINE p == Power[k]
<1>1. p \in Nat \ {0} /\ Power[k + 1] = Group * p
  BY PowerStep, PowerPositive
<1> HIDE DEF p
<1>2. /\ n \div (Group * p) = (n \div p) \div Group
      /\ n % (Group * p) = (n % p) + ((n \div p) % Group) * p
  <2> DEFINE g == Group
  <2>1. g \in Nat \ {0}
    BY GroupAssumption
  <2> HIDE DEF g
  <2>2. /\ n \div (g * p) = (n \div p) \div g
        /\ n % (g * p) = (n % p) + ((n \div p) % g) * p
    BY <1>1, <2>1, OneMoreGroup
  <2> QED BY <2>2 DEF g
<1> QED BY <1>1, <1>2 DEF p

\* mcpr_varint_bounds counts the groups up to the last one that is not zero.
LEMMA BoundsAre ==
  ASSUME NEW n \in Nat, NEW l \in 1 .. MaxBytes,
         n \div Power[l] = 0, l > 1 => n \div Power[l - 1] # 0
  PROVE  VarintBounds(n) = l
<1>1. l \in Places /\ l - 1 \in Places
  BY MaxBytesAssumption DEF Places
<1>2. n < Power[l] /\ (l > 1 => Power[l - 1] <= n)
  <2>1. Power[l - 1] \in Nat
    BY <1>1, PowerPositive
  <2> QED BY <1>1, <2>1, NoGroupLeft
<1>3. ASSUME NEW k \in 1 .. MaxBytes - 1 PROVE n >= Power[k] <=> k \in 1 .. l - 1
  <2>1. k \in Places /\ Power[k] \in Nat /\ Power[l] \in Nat /\ Power[l - 1] \in Nat
    BY <1>1, PowerPositive, MaxBytesAssumption DEF Places
  <2>2. CASE k >= l
    <3>1. Power[l] <= Power[k]
      BY <1>1, <2>2, PowerGrows, MaxBytesAssumption DEF Places
    <3> QED BY <1>2, <2>1, <2>2, <3>1
  <2>3. CASE k < l
    <3>1. Power[k] <= Power[l - 1]
      BY <1>1, <2>1, <2>3, PowerGrows, MaxBytesAssumption DEF Places
    <3> QED BY <1>2, <2>1, <2>3, <3>1
  <2> QED BY <2>2, <2>3, MaxBytesAssumption
<1>4. {k \in 1 .. MaxBytes - 1 : n >= Power[k]} = 1 .. l - 1
  BY <1>3, MaxBytesAssumption
<1>5. Cardinality(1 .. l - 1) = l - 1
  BY FS_Interval, MaxBytesAssumption
<1>6. VarintBounds(n) = 1 + Cardinality(1 .. l - 1)
  BY <1>4, Zenon DEF VarintBounds
<1> QED BY <1>5, <1>6, MaxBytesAssumption

-----------------------------------------------------------------------------
(* The bytes written are the number's groups, lowest first; the bytes read *)
(* make up its low groups.                                                 *)

\* Number `number' without its j lowest groups.
Above(j) == number \div Power[j]

Written ==
  /\ \A j \in 1 .. Len(encoded) :
       encoded[j].low = Above(j - 1) % Group /\ (encoded[j].more <=> Above(j) # 0)
  /\ \A j \in 1 .. Len(encoded) - 1 : Above(j) # 0

EncodeSound ==
  /\ codec_at = "encode" =>
       /\ Len(encoded) < MaxBytes /\ value = Above(Len(encoded))
       /\ Len(encoded) > 0 => Above(Len(encoded)) # 0
  /\ codec_at # "encode" => Len(encoded) \in 1 .. MaxBytes /\ Above(Len(encoded)) = 0

DecodeSound ==
  /\ codec_at \in {"encode", "sent"} => bytes_read = 0 /\ result = 0
  /\ codec_at = "decode" =>
       /\ bytes_read < Len(encoded) /\ bytes_read <= max_len
       /\ result = number % Power[bytes_read]
  /\ codec_at = "done" => bytes_read = Len(encoded) /\ result = number /\ max_len >= Len(encoded)
  /\ codec_at = "refused" => max_len < Len(encoded)

CodecInv == CodecTypeOK /\ Written /\ EncodeSound /\ DecodeSound

\* A number is below every power that is not smaller than its type.
LEMMA NumberFits == CodecTypeOK => number \in Nat /\ number < Power[MaxBytes] /\ Above(MaxBytes) = 0
<1> SUFFICES ASSUME CodecTypeOK
             PROVE  number \in Nat /\ number < Power[MaxBytes] /\ Above(MaxBytes) = 0
  OBVIOUS
<1>1. MaxBytes \in Places /\ Power[MaxBytes] \in Nat
  BY PowerPositive, MaxBytesAssumption DEF Places
<1>2. number \in Nat /\ number < Power[MaxBytes]
  BY <1>1, PowerAssumption, WidthAssumption DEF CodecTypeOK
<1> QED BY <1>1, <1>2, NoGroupLeft DEF Above

LEMMA CodecInvInit == CodecInit => CodecInv
<1> SUFFICES ASSUME CodecInit PROVE CodecInv
  OBVIOUS
<1>1. CodecTypeOK
  <2>1. <<>> \in Seq(Byte)
    OBVIOUS
  <2> QED BY <2>1, WidthAssumption, MaxBytesAssumption DEF CodecInit, CodecTypeOK
<1>2. Len(encoded) = 0
  BY DEF CodecInit
<1>3. Above(0) = number
  <2>1. Power[0] = 1 /\ number \in Nat
    BY <1>1, NumberFits, PowerAssumption
  <2>2. number \div 1 = number
    BY <2>1
  <2> QED BY <2>1, <2>2 DEF Above
<1>4. Written
  BY <1>2 DEF Written
<1>5. EncodeSound
  BY <1>2, <1>3, MaxBytesAssumption DEF CodecInit, EncodeSound
<1>6. DecodeSound
  BY DEF CodecInit, DecodeSound
<1> QED BY <1>1, <1>4, <1>5, <1>6 DEF CodecInv

LEMMA EncodeByteStep ==
  ASSUME CodecInv, EncodeByte
  PROVE  CodecInv'
<1> DEFINE n == Len(encoded)
           rest == value \div Group
           byte == [low |-> value % Group, more |-> rest # 0]
<1> USE DEF MoreFollows
<1>1. /\ CodecTypeOK /\ codec_at = "encode" /\ encoded \in Seq(Byte)
      /\ number \in Nat /\ value \in Nat
      /\ UNCHANGED <<number, max_len, bytes_read, result>>
  BY NumberFits DEF CodecInv, EncodeByte, CodecTypeOK
<1>2. /\ n \in 0 .. MaxBytes - 1 /\ value = Above(n) /\ (n > 0 => Above(n) # 0)
  BY <1>1, LenProperties, MaxBytesAssumption DEF CodecInv, EncodeSound
<1>3. rest = Above(n + 1) /\ rest \in Nat
  <2>1. Above(n + 1) = Above(n) \div Group
    BY <1>1, <1>2, NextGroup DEF Above
  <2>2. n + 1 \in Places
    BY <1>2, PowerStep
  <2> QED BY <1>1, <1>2, <2>1, <2>2, NoGroupLeft DEF Above
<1>4. byte \in Byte
  <2>1. value % Group \in 0 .. Group - 1
    BY <1>1, GroupAssumption
  <2> QED BY <2>1 DEF Byte
<1>5. /\ encoded' = Append(encoded, byte) /\ encoded' \in Seq(Byte)
      /\ Len(encoded') = n + 1 /\ encoded'[n + 1] = byte
      /\ \A j \in 1 .. n : encoded'[j] = encoded[j]
      /\ encoded'[n + 1].low = value % Group /\ (encoded'[n + 1].more <=> rest # 0)
  <2>1. encoded' = Append(encoded, byte)
    BY DEF EncodeByte
  <2>2. byte.low = value % Group /\ (byte.more <=> rest # 0)
    OBVIOUS
  <2> HIDE DEF byte
  <2> QED BY <1>1, <1>4, <2>1, <2>2, AppendProperties
<1>6. \A j \in Places : Above(j)' = Above(j)
  BY <1>1 DEF Above
<1>7. value' = rest /\ codec_at' = IF rest # 0 THEN "encode" ELSE "sent"
  BY DEF EncodeByte
<1> HIDE DEF n, rest, byte
<1>8. CodecTypeOK'
  BY <1>1, <1>3, <1>5, <1>7 DEF CodecTypeOK
<1>9. Written'
  <2>1. ASSUME NEW j \in 1 .. n + 1
        PROVE  /\ encoded'[j].low = Above(j - 1)' % Group
               /\ encoded'[j].more <=> Above(j)' # 0
    <3>1. j \in Places /\ j - 1 \in Places
      BY <1>2, MaxBytesAssumption DEF Places
    <3>2. CASE j = n + 1
      <4>1. j - 1 = n
        BY <1>2, <3>2
      <4>2. Above(j - 1)' = value /\ Above(j)' = rest
        BY <1>2, <1>3, <1>6, <3>1, <3>2, <4>1
      <4> QED BY <1>5, <3>2, <4>2
    <3>3. CASE j \in 1 .. n
      BY <1>5, <1>6, <3>1, <3>3 DEF CodecInv, Written, n
    <3> QED BY <1>2, <3>2, <3>3
  <2>2. ASSUME NEW j \in 1 .. n PROVE Above(j)' # 0
    <3>1. j \in Places
      BY <1>2, MaxBytesAssumption DEF Places
    <3>2. Above(j) # 0
      <4>1. CASE j = n
        BY <1>2, <4>1
      <4>2. CASE j \in 1 .. n - 1
        BY <4>2 DEF CodecInv, Written, n
      <4> QED BY <1>2, <4>1, <4>2
    <3> QED BY <1>6, <3>1, <3>2
  <2>3. Len(encoded)' - 1 = n /\ Len(encoded)' = n + 1
    BY <1>2, <1>5
  <2> QED BY <2>1, <2>2, <2>3 DEF Written
<1>10. EncodeSound'
  <2>1. n + 1 \in 1 .. MaxBytes
    BY <1>2, MaxBytesAssumption
  <2>2. rest # 0 => n + 1 < MaxBytes
    <3>1. Above(MaxBytes) = 0
      BY <1>1, NumberFits
    <3> QED BY <1>2, <1>3, <2>1, <3>1, MaxBytesAssumption
  <2>3. PICK k \in 1 .. MaxBytes : k = n + 1
    BY <2>1
  <2>4. Len(encoded)' = k /\ Above(k)' = rest
    BY <1>3, <1>5, <1>6, <2>3, MaxBytesAssumption DEF Places
  <2>5. k > 0 /\ (rest # 0 => k < MaxBytes)
    BY <2>2, <2>3, MaxBytesAssumption
  <2>6. CASE rest # 0
    BY <1>7, <2>4, <2>5, <2>6 DEF EncodeSound
  <2>7. CASE rest = 0
    BY <1>7, <2>3, <2>4, <2>7 DEF EncodeSound
  <2> QED BY <2>6, <2>7
<1>11. DecodeSound'
  BY <1>1, <1>7 DEF CodecInv, DecodeSound
<1> QED BY <1>8, <1>9, <1>10, <1>11 DEF CodecInv

LEMMA ArriveStep ==
  ASSUME CodecInv, Arrive
  PROVE  CodecInv'
<1>1. /\ codec_at = "sent" /\ codec_at' = "decode" /\ max_len' \in 0 .. MaxBytes + 1
      /\ UNCHANGED <<number, value, encoded, bytes_read, result>>
  BY DEF Arrive
<1>2. CodecTypeOK' /\ number \in Nat
  BY <1>1, NumberFits DEF CodecInv, CodecTypeOK
<1>3. Written' /\ EncodeSound'
  BY <1>1 DEF CodecInv, Written, EncodeSound, Above
<1>4. DecodeSound'
  <2>1. bytes_read = 0 /\ result = 0 /\ Len(encoded) \in 1 .. MaxBytes
    BY <1>1 DEF CodecInv, DecodeSound, EncodeSound
  <2>2. number % Power[0] = 0
    BY <1>2, PowerAssumption
  <2> QED BY <1>1, <2>1, <2>2, MaxBytesAssumption DEF DecodeSound
<1> QED BY <1>2, <1>3, <1>4 DEF CodecInv

\* The byte that is read is the number's next one if it has arrived; if it has not, the number
\* is refused, whatever the buffer holds there.
LEMMA DecodeByteStep ==
  ASSUME CodecInv, DecodeByte
  PROVE  CodecInv'
<1> DEFINE i == bytes_read
           n == Len(encoded)
<1>1. /\ CodecTypeOK /\ Written /\ codec_at = "decode" /\ number \in Nat
      /\ i \in Nat /\ max_len \in Nat /\ result \in Nat
      /\ UNCHANGED <<number, value, encoded, max_len>> /\ bytes_read' = i + 1
  BY NumberFits, WidthAssumption DEF CodecInv, DecodeByte, CodecTypeOK
<1>2. /\ n \in 1 .. MaxBytes /\ Above(n) = 0
      /\ i < n /\ i <= max_len /\ result = number % Power[i]
  BY <1>1 DEF CodecInv, EncodeSound, DecodeSound
<1>3. i \in 0 .. MaxBytes - 1 /\ i \in Places /\ i + 1 \in Places /\ n \in Places
  BY <1>1, <1>2, MaxBytesAssumption DEF Places
<1>4. PICK b \in InBuffer(i) :
        /\ result' = IF i < MaxBytes THEN (result + b.low * Power[i]) % Width ELSE result
        /\ codec_at' = IF Beyond(i + 1) THEN "refused" ELSE IF b.more THEN "decode" ELSE "done"
  BY DEF DecodeByte
<1>5. Beyond(i + 1) <=> i >= max_len
  BY <1>1, <1>3, MaxBytesAssumption DEF Beyond
<1>6. ~Beyond(i + 1) => b = encoded[i + 1]
  BY <1>1, <1>2, <1>5 DEF InBuffer
<1>7. b \in Byte
  BY <1>1, <1>2, ElementOfSeq DEF InBuffer, CodecTypeOK
<1> HIDE DEF i, n
<1>8. result' \in 0 .. Width - 1
  <2>1. b.low * Power[i] \in Nat
    <3>1. b.low \in Nat /\ Power[i] \in Nat
      BY <1>3, <1>7, PowerPositive, GroupAssumption DEF Byte
    <3> QED BY <3>1
  <2>2. (result + b.low * Power[i]) % Width \in 0 .. Width - 1
    <3> DEFINE x == result + b.low * Power[i]
    <3>1. x \in Nat
      BY <1>1, <2>1
    <3> HIDE DEF x
    <3>2. x % Width \in 0 .. Width - 1
      BY <3>1, Reduced
    <3> QED BY <3>2 DEF x
  <2> QED BY <1>1, <1>4, <2>2 DEF CodecTypeOK
<1>9. CodecTypeOK'
  BY <1>1, <1>3, <1>4, <1>8, MaxBytesAssumption DEF CodecTypeOK
<1>10. Written' /\ EncodeSound'
  BY <1>1, <1>2, <1>4 DEF CodecInv, Written, EncodeSound, Above, n
<1>11. ~Beyond(i + 1) => result' = number % Power[i + 1]
  <2> SUFFICES ASSUME ~Beyond(i + 1) PROVE result' = number % Power[i + 1]
    OBVIOUS
  <2>1. b.low = Above(i) % Group
    <3>1. i + 1 \in 1 .. n /\ (i + 1) - 1 = i
      BY <1>1, <1>2
    <3>2. encoded[i + 1].low = Above((i + 1) - 1) % Group
      BY <1>1, <3>1 DEF Written, n
    <3> QED BY <1>6, <3>1, <3>2
  <2>2. result + b.low * Power[i] = number % Power[i + 1]
    BY <1>1, <1>2, <1>3, <2>1, NextGroup DEF Above
  <2>3. number % Power[i + 1] \in 0 .. Width - 1
    <3>1. number % Power[i + 1] \in Nat /\ number % Power[i + 1] <= number
      BY <1>1, <1>3, NoGroupLeft
    <3> QED BY <3>1, WidthAssumption, <1>1 DEF CodecTypeOK
  <2>4. (number % Power[i + 1]) % Width = number % Power[i + 1]
    <3> DEFINE r == number % Power[i + 1]
    <3>1. r \in Nat /\ r < Width
      BY <2>3, WidthAssumption
    <3> HIDE DEF r
    <3>2. r % Width = r
      BY <3>1, Reduced
    <3> QED BY <3>2 DEF r
  <2>5. result' = (result + b.low * Power[i]) % Width
    BY <1>3, <1>4, MaxBytesAssumption
  <2> QED BY <2>2, <2>4, <2>5, Zenon
<1>12. ~Beyond(i + 1) => (b.more <=> i + 1 # n)
  <2> SUFFICES ASSUME ~Beyond(i + 1) PROVE b.more <=> i + 1 # n
    OBVIOUS
  <2>1. i + 1 \in 1 .. n /\ (i + 1 # n => i + 1 \in 1 .. n - 1)
    BY <1>1, <1>2
  <2>2. b.more <=> Above(i + 1) # 0
    BY <1>1, <1>6, <2>1 DEF Written, n
  <2> QED BY <1>1, <1>2, <2>1, <2>2 DEF Written, n
<1>13. DecodeSound'
  <2>1. CASE Beyond(i + 1)
    BY <1>1, <1>2, <1>4, <1>5, <2>1 DEF DecodeSound, n
  <2>2. CASE ~Beyond(i + 1) /\ b.more
    <3>1. i + 1 < n /\ i + 1 <= max_len
      BY <1>1, <1>2, <1>5, <1>12, <2>2
    <3>2. codec_at' = "decode" /\ result' = number % Power[i + 1]
      BY <1>4, <1>11, <2>2
    <3> QED BY <1>1, <3>1, <3>2 DEF DecodeSound, n
  <2>3. CASE ~Beyond(i + 1) /\ ~b.more
    <3>1. i + 1 = n /\ max_len >= n
      BY <1>1, <1>2, <1>5, <1>12, <2>3
    <3>2. codec_at' = "done" /\ result' = number % Power[n]
      BY <1>4, <1>11, <2>3, <3>1
    <3>3. number % Power[n] = number
      BY <1>1, <1>2, <1>3, NoGroupLeft DEF Above
    <3> QED BY <1>1, <3>1, <3>2, <3>3 DEF DecodeSound, n
  <2> QED BY <2>1, <2>2, <2>3
<1> QED BY <1>9, <1>10, <1>13 DEF CodecInv

LEMMA CodecInvStep == CodecInv /\ [CodecNext]_codecVars => CodecInv'
<1> SUFFICES ASSUME CodecInv, [CodecNext]_codecVars PROVE CodecInv'
  OBVIOUS
<1>1. CASE UNCHANGED codecVars
  BY <1>1 DEF codecVars, CodecInv, CodecTypeOK, Written, EncodeSound, DecodeSound, Above
<1> QED BY <1>1, EncodeByteStep, ArriveStep, DecodeByteStep DEF CodecNext

LEMMA CodecInvAlways == CodecSpec => []CodecInv
BY CodecInvInit, CodecInvStep, PTL DEF CodecSpec

\* mcpr_encode_varint, mcpr_varint_bounds and mcpr_decode_varint: for every width of a number
\* and of a group, a number that has arrived is read back from exactly the bytes that
\* mcpr_varint_bounds says it takes.
THEOREM RoundTripCorrect == CodecSpec => []RoundTrip
<1>1. CodecInv => RoundTrip
  <2> SUFFICES ASSUME CodecInv PROVE RoundTrip
    OBVIOUS
  <2> DEFINE n == Len(encoded)
  <2>1. n \in Nat /\ n <= MaxBytes /\ number \in Nat
    BY LenProperties, NumberFits, MaxBytesAssumption DEF CodecInv, CodecTypeOK, EncodeSound
  <2>2. ASSUME codec_at # "encode" PROVE n = VarintBounds(number)
    <3>1. n \in 1 .. MaxBytes /\ Above(n) = 0
      BY <2>2 DEF CodecInv, EncodeSound
    <3>2. n > 1 => Above(n - 1) # 0
      BY <3>1 DEF CodecInv, Written
    <3> QED BY <2>1, <3>1, <3>2, BoundsAre DEF Above
  <2>3. codec_at = "done" => result = number /\ bytes_read = n
    BY DEF CodecInv, DecodeSound
  <2> QED BY <2>1, <2>2, <2>3 DEF RoundTrip
<1> QED BY <1>1, CodecInvAlways, PTL

\* mcpr_decode_varint refuses a number exactly if not all of its bytes have arrived, whatever
\* lies behind them, which mcpr_connection_read_packet relies on.
THEOREM CutCorrect == CodecSpec => []CutRefused
<1>1. CodecInv => CutRefused
  BY DEF CodecInv, DecodeSound, CutRefused
<1> QED BY <1>1, CodecInvAlways, PTL

-----------------------------------------------------------------------------
(* What a sequence of sizes comes to.                                      *)

\* What the first k elements of s come to, from what one less does.
AddStep(f, s, k) == IF k = 0 THEN 0 ELSE f[k - 1] + s[k]

\* f adds up the first n elements of s.
AddsUpto(f, s, n) == f = [k \in 0 .. n |-> AddStep(f, s, k)]

LEMMA AddsUptoAt ==
  ASSUME NEW s, NEW n \in Nat, NEW f, AddsUpto(f, s, n), NEW k \in 0 .. n
  PROVE  f[k] = AddStep(f, s, k)
<1>1. PICK h : h = [j \in 0 .. n |-> AddStep(f, s, j)]
  OBVIOUS
<1>2. h[k] = AddStep(f, s, k)
  BY <1>1
<1>3. f = h
  BY <1>1 DEF AddsUpto
<1> QED BY <1>2, <1>3

LEMMA AddsExist ==
  ASSUME NEW s, NEW n \in Nat
  PROVE  \E f : AddsUpto(f, s, n)
<1> DEFINE T == {m \in Nat : ~ \E f : AddsUpto(f, s, m)}
<1> SUFFICES ASSUME T # {} PROVE FALSE
  OBVIOUS
<1>1. PICK m \in T : \A y \in T : m <= y
  BY SmallestOf
<1>2. m # 0
  <2>1. AddsUpto([k \in 0 .. 0 |-> 0], s, 0)
    BY DEF AddsUpto, AddStep
  <2> QED BY <2>1
<1>3. m - 1 \in Nat /\ m - 1 \notin T
  BY <1>1, <1>2
<1>4. PICK g : AddsUpto(g, s, m - 1)
  BY <1>3
<1> DEFINE h == [k \in 0 .. m |-> IF k = m THEN g[m - 1] + s[m] ELSE g[k]]
<1>5. ASSUME NEW k \in 0 .. m PROVE h[k] = AddStep(h, s, k)
  <2>1. CASE k = m
    BY <1>2, <1>3, <2>1 DEF AddStep
  <2>2. CASE k # m
    <3>1. k \in 0 .. m - 1 /\ (k # 0 => k - 1 \in 0 .. m /\ k - 1 # m)
      BY <1>3, <2>2
    <3>2. g[k] = AddStep(g, s, k)
      BY <1>3, <1>4, <3>1, AddsUptoAt
    <3>3. k # 0 => h[k - 1] = g[k - 1]
      BY <3>1
    <3> QED BY <2>2, <3>2, <3>3 DEF AddStep
  <2> QED BY <2>1, <2>2
<1>6. AddsUpto(h, s, m)
  <2>1. h = [k \in 0 .. m |-> h[k]]
    OBVIOUS
  <2> HIDE DEF h
  <2> QED BY <1>5, <2>1 DEF AddsUpto
<1> QED BY <1>6

\* A sum grows by one element after the other.
LEMMA SumsAre ==
  ASSUME NEW s \in Seq(Nat)
  PROVE  /\ \A n \in 0 .. Len(s) : Sums(s)[n] \in Nat
         /\ Sums(s)[0] = 0
         /\ \A n \in 1 .. Len(s) : Sums(s)[n] = Sums(s)[n - 1] + s[n]
<1>1. AddsUpto(Sums(s), s, Len(s))
  <2>1. \E f : AddsUpto(f, s, Len(s))
    <3>1. Len(s) \in Nat
      OBVIOUS
    <3> QED BY <3>1, AddsExist
  <2> QED BY <2>1 DEF AddsUpto, AddStep, Sums
<1> DEFINE f == Sums(s)
<1> HIDE DEF f
<1>2. \A n \in 0 .. Len(s) : f[n] = AddStep(f, s, n)
  BY <1>1, AddsUptoAt DEF f
<1>3. f[0] = 0 /\ \A n \in 1 .. Len(s) : f[n] = f[n - 1] + s[n]
  BY <1>2 DEF AddStep
<1>4. \A n \in 0 .. Len(s) : f[n] \in Nat
  <2> DEFINE T == {n \in Nat : n <= Len(s) /\ f[n] \notin Nat}
  <2> SUFFICES ASSUME T # {} PROVE FALSE
    OBVIOUS
  <2>1. PICK n \in T : \A y \in T : n <= y
    BY SmallestOf
  <2>2. n # 0
    BY <1>3
  <2>3. n - 1 \in Nat /\ n - 1 \notin T /\ n \in 1 .. Len(s)
    BY <2>1, <2>2
  <2>4. f[n - 1] \in Nat /\ s[n] \in Nat
    BY <2>3
  <2> QED BY <1>3, <2>1, <2>3, <2>4
<1> QED BY <1>3, <1>4 DEF f

\* What holds of 0, and of each number up to n with the one below it, holds up to n.
LEMMA UpFromZero ==
  ASSUME NEW n \in Nat, NEW P, 0 \in P, \A k \in 1 .. n : k - 1 \in P => k \in P
  PROVE  \A k \in 0 .. n : k \in P
<1> DEFINE T == {k \in 0 .. n : k \notin P}
<1> SUFFICES ASSUME T # {} PROVE FALSE
  OBVIOUS
<1>1. T \subseteq Nat
  OBVIOUS
<1>2. PICK k \in T : \A y \in T : k <= y
  BY <1>1, SmallestOf
<1>3. k \in 1 .. n /\ k - 1 \notin T /\ k - 1 \in 0 .. n
  BY <1>2
<1> QED BY <1>3

LEMMA SumNat == ASSUME NEW s \in Seq(Nat) PROVE SumOf(s) \in Nat
<1>1. Len(s) \in 0 .. Len(s)
  OBVIOUS
<1> QED BY <1>1, SumsAre DEF SumOf

LEMMA SumEmpty == SumOf(<<>>) = 0
<1>1. <<>> \in Seq(Nat) /\ Len(<<>>) = 0
  OBVIOUS
<1> QED BY <1>1, SumsAre DEF SumOf

LEMMA SumHead ==
  ASSUME NEW s \in Seq(Nat), s # <<>>
  PROVE  SumOf(s) = Head(s) + SumOf(Tail(s)) /\ SumOf(Tail(s)) \in Nat /\ Head(s) \in Nat
<1> DEFINE t == Tail(s)
           m == Len(t)
           a == Sums(s)
           b == Sums(t)
<1>1. /\ t \in Seq(Nat) /\ m \in Nat /\ Len(s) = m + 1 /\ Head(s) = s[1] /\ Head(s) \in Nat
      /\ \A k \in 1 .. m : t[k] = s[k + 1]
  OBVIOUS
<1>2. /\ a[0] = 0 /\ \A n \in 1 .. m + 1 : a[n] = a[n - 1] + s[n]
      /\ b[0] = 0 /\ \A n \in 1 .. m : b[n] = b[n - 1] + t[n]
      /\ \A n \in 0 .. m : b[n] \in Nat
  BY <1>1, SumsAre
<1> HIDE DEF t, m, a, b
<1> DEFINE P == {n \in 0 .. m : a[n + 1] = Head(s) + b[n]}
<1>3. 0 \in P
  BY <1>1, <1>2
<1>4. ASSUME NEW n \in 1 .. m, n - 1 \in P PROVE n \in P
  <2>1. a[n] = Head(s) + b[n - 1]
    BY <1>4, <1>1
  <2>2. n + 1 \in 1 .. m + 1 /\ (n + 1) - 1 = n /\ n \in 1 .. m /\ n - 1 \in 0 .. m
    BY <1>1
  <2>3. a[n + 1] = a[n] + s[n + 1] /\ b[n] = b[n - 1] + t[n] /\ b[n - 1] \in Nat
    BY <1>2, <2>2
  <2>4. a[n + 1] = a[n] + s[n + 1] /\ b[n] = b[n - 1] + s[n + 1] /\ b[n - 1] \in Nat
    BY <1>1, <2>2, <2>3
  <2>5. s[n + 1] \in Nat /\ Head(s) \in Nat
    BY <1>1
  <2>6. a[n + 1] = Head(s) + b[n]
    BY <2>1, <2>4, <2>5
  <2> QED BY <2>2, <2>6
<1>5. m \in P
  <2> HIDE DEF P
  <2>1. \A n \in 0 .. m : n \in P
    BY <1>1, <1>3, <1>4, UpFromZero, Zenon
  <2> QED BY <1>1, <2>1
<1> QED BY <1>1, <1>2, <1>5, SumNat DEF SumOf, t, m, a, b

LEMMA SumConcat ==
  ASSUME NEW s \in Seq(Nat), NEW t \in Seq(Nat)
  PROVE  s \o t \in Seq(Nat) /\ SumOf(s \o t) = SumOf(s) + SumOf(t)
<1> DEFINE u == s \o t
           l == Len(s)
           m == Len(t)
           a == Sums(s)
           b == Sums(t)
           c == Sums(u)
<1>1. /\ u \in Seq(Nat) /\ l \in Nat /\ m \in Nat /\ Len(u) = l + m
      /\ \A k \in 1 .. l : u[k] = s[k] /\ s[k] \in Nat
      /\ \A k \in 1 .. m : u[l + k] = t[k] /\ t[k] \in Nat
  OBVIOUS
<1>2. /\ a[0] = 0 /\ \A n \in 1 .. l : a[n] = a[n - 1] + s[n]
      /\ b[0] = 0 /\ \A n \in 1 .. m : b[n] = b[n - 1] + t[n]
      /\ c[0] = 0 /\ \A n \in 1 .. l + m : c[n] = c[n - 1] + u[n]
      /\ \A n \in 0 .. l : a[n] \in Nat
      /\ \A n \in 0 .. m : b[n] \in Nat
  BY <1>1, SumsAre
<1> HIDE DEF u, l, m, a, b, c
<1> DEFINE P == {n \in 0 .. l : c[n] = a[n]}
           Q == {n \in 0 .. m : c[l + n] = a[l] + b[n]}
<1>3. l \in P
  <2>1. 0 \in P
    BY <1>1, <1>2
  <2>2. ASSUME NEW n \in 1 .. l, n - 1 \in P PROVE n \in P
    <3>1. c[n] = c[n - 1] + u[n] /\ a[n] = a[n - 1] + s[n]
      BY <1>1, <1>2
    <3> QED BY <1>1, <2>2, <3>1
  <2> HIDE DEF P
  <2>3. \A n \in 0 .. l : n \in P
    BY <1>1, <2>1, <2>2, UpFromZero, Zenon
  <2> QED BY <1>1, <2>3
<1>4. m \in Q
  <2>1. 0 \in Q
    BY <1>1, <1>2, <1>3
  <2>2. ASSUME NEW n \in 1 .. m, n - 1 \in Q PROVE n \in Q
    <3>1. b[n] = b[n - 1] + t[n] /\ u[l + n] = t[n] /\ t[n] \in Nat /\ b[n - 1] \in Nat
      BY <1>1, <1>2
    <3>2. c[l + (n - 1)] = a[l] + b[n - 1]
      BY <2>2
    <3>3. c[l + n] = c[(l + n) - 1] + u[l + n] /\ (l + n) - 1 = l + (n - 1)
      <4>1. l + n \in 1 .. l + m /\ (l + n) - 1 = l + (n - 1)
        BY <1>1
      <4> QED BY <1>2, <4>1
    <3>4. a[l] \in Nat
      BY <1>1, <1>2
    <3> QED BY <3>1, <3>2, <3>3, <3>4
  <2> HIDE DEF Q
  <2>3. \A n \in 0 .. m : n \in Q
    BY <1>1, <2>1, <2>2, UpFromZero, Zenon
  <2> QED BY <1>1, <2>3
<1> QED BY <1>1, <1>4 DEF SumOf, u, l, m, a, b, c

\* Sums of sequences are ordered as their elements are.
LEMMA SumMonotonic ==
  ASSUME NEW s \in Seq(Nat), NEW t \in Seq(Nat), Len(s) = Len(t),
         \A k \in 1 .. Len(s) : s[k] <= t[k]
  PROVE  SumOf(s) <= SumOf(t)
<1> DEFINE l == Len(s)
           a == Sums(s)
           b == Sums(t)
<1>1. /\ l \in Nat /\ Len(t) = l
      /\ \A k \in 1 .. l : s[k] <= t[k] /\ s[k] \in Nat /\ t[k] \in Nat
  OBVIOUS
<1>2. /\ a[0] = 0 /\ \A n \in 1 .. l : a[n] = a[n - 1] + s[n]
      /\ b[0] = 0 /\ \A n \in 1 .. l : b[n] = b[n - 1] + t[n]
      /\ \A n \in 0 .. l : a[n] \in Nat /\ b[n] \in Nat
  BY <1>1, SumsAre
<1> HIDE DEF l, a, b
<1> DEFINE P == {n \in 0 .. l : a[n] <= b[n]}
<1>3. 0 \in P
  BY <1>1, <1>2
<1>4. ASSUME NEW n \in 1 .. l, n - 1 \in P PROVE n \in P
  <2>1. a[n] = a[n - 1] + s[n] /\ b[n] = b[n - 1] + t[n] /\ a[n - 1] \in Nat /\ b[n - 1] \in Nat
    BY <1>1, <1>2
  <2> QED BY <1>1, <1>4, <2>1
<1>5. l \in P
  <2> HIDE DEF P
  <2>1. \A n \in 0 .. l : n \in P
    BY <1>1, <1>3, <1>4, UpFromZero, Zenon
  <2> QED BY <1>1, <2>1
<1> QED BY <1>1, <1>5 DEF SumOf, l, a, b

LEMMA SumAtMost ==
  ASSUME NEW s \in Seq(Nat), NEW c \in Nat, \A k \in 1 .. Len(s) : s[k] <= c
  PROVE  SumOf(s) <= Len(s) * c
<1> DEFINE l == Len(s)
           a == Sums(s)
           P == {n \in 0 .. l : a[n] <= n * c}
<1>1. l \in Nat /\ \A k \in 1 .. l : s[k] <= c /\ s[k] \in Nat
  OBVIOUS
<1>2. /\ a[0] = 0 /\ \A n \in 1 .. l : a[n] = a[n - 1] + s[n]
      /\ \A n \in 0 .. l : a[n] \in Nat
  BY <1>1, SumsAre
<1> HIDE DEF l, a
<1>3. 0 \in P
  BY <1>1, <1>2
<1>4. ASSUME NEW n \in 1 .. l, n - 1 \in P PROVE n \in P
  <2>1. a[n] = a[n - 1] + s[n] /\ a[n - 1] \in Nat /\ a[n - 1] <= (n - 1) * c /\ s[n] <= c
    BY <1>1, <1>2, <1>4
  <2>2. (n - 1) * c + c = n * c /\ (n - 1) * c \in Nat
    BY <1>1
  <2> QED BY <1>1, <2>1, <2>2
<1>5. l \in P
  <2> HIDE DEF P
  <2>1. \A n \in 0 .. l : n \in P
    BY <1>1, <1>3, <1>4, UpFromZero, Zenon
  <2> QED BY <1>1, <2>1
<1> QED BY <1>1, <1>5 DEF SumOf, l, a

-----------------------------------------------------------------------------
(* Fields of an outgoing packet, and the bytes they take.                  *)

Field == [size : Nat, text : BOOLEAN]

Sizes(fs) == [j \in DOMAIN fs |-> fs[j].size]

FieldBytes(fs) == SumOf(Sizes(fs))

LEMMA SizesAre ==
  ASSUME NEW fs \in Seq(Field)
  PROVE  /\ Sizes(fs) \in Seq(Nat) /\ Len(Sizes(fs)) = Len(fs) /\ FieldBytes(fs) \in Nat
         /\ \A j \in 1 .. Len(fs) : Sizes(fs)[j] = fs[j].size
<1>1. ASSUME NEW j \in 1 .. Len(fs) PROVE fs[j].size \in Nat
  <2>1. fs[j] \in Field
    BY ElementOfSeq
  <2> QED BY <2>1 DEF Field
<1>2. Sizes(fs) \in Seq(Nat) /\ Len(Sizes(fs)) = Len(fs)
  BY <1>1 DEF Sizes
<1>3. \A j \in 1 .. Len(fs) : Sizes(fs)[j] = fs[j].size
  BY DEF Sizes
<1> QED BY <1>2, <1>3, SumNat DEF FieldBytes

LEMMA FieldBytesNone == FieldBytes(<<>>) = 0
<1>1. Sizes(<<>>) = <<>>
  BY DEF Sizes
<1> QED BY <1>1, SumEmpty DEF FieldBytes

LEMMA BytesHead ==
  ASSUME NEW fs \in Seq(Field), fs # <<>>
  PROVE  /\ FieldBytes(fs) = Head(fs).size + FieldBytes(Tail(fs))
         /\ Head(fs) \in Field /\ Tail(fs) \in Seq(Field) /\ FieldBytes(Tail(fs)) \in Nat
<1>1. /\ Head(fs) \in Field /\ Tail(fs) \in Seq(Field) /\ Head(fs) = fs[1]
      /\ Len(fs) \in Nat /\ 1 \in 1 .. Len(fs) /\ Len(Tail(fs)) = Len(fs) - 1
      /\ \A j \in 1 .. Len(fs) - 1 : Tail(fs)[j] = fs[j + 1]
  BY HeadTailProperties, EmptySeq
<1>2. /\ Sizes(fs) \in Seq(Nat) /\ Sizes(fs) # <<>> /\ Head(Sizes(fs)) = Head(fs).size
      /\ Len(Sizes(fs)) = Len(fs)
  BY <1>1, SizesAre
<1>3. Sizes(Tail(fs)) = Tail(Sizes(fs))
  <2>1. /\ Sizes(Tail(fs)) \in Seq(Nat) /\ Tail(Sizes(fs)) \in Seq(Nat)
        /\ Len(Sizes(Tail(fs))) = Len(fs) - 1 /\ Len(Tail(Sizes(fs))) = Len(fs) - 1
    <3>1. Sizes(Tail(fs)) \in Seq(Nat) /\ Len(Sizes(Tail(fs))) = Len(fs) - 1
      BY <1>1, SizesAre
    <3>2. Tail(Sizes(fs)) \in Seq(Nat) /\ Len(Tail(Sizes(fs))) = Len(Sizes(fs)) - 1
      BY <1>2, HeadTailProperties
    <3> QED BY <1>2, <3>1, <3>2
  <2>2. ASSUME NEW j \in 1 .. Len(fs) - 1
        PROVE  Sizes(Tail(fs))[j] = Tail(Sizes(fs))[j]
    <3>1. j \in 1 .. Len(Tail(fs)) /\ Tail(fs)[j] = fs[j + 1] /\ j + 1 \in 1 .. Len(fs)
      BY <1>1
    <3>2. Sizes(Tail(fs))[j] = fs[j + 1].size
      BY <1>1, <3>1, SizesAre
    <3>3. Tail(Sizes(fs))[j] = Sizes(fs)[j + 1]
      BY <1>2, HeadTailProperties
    <3>4. Sizes(fs)[j + 1] = fs[j + 1].size
      BY <3>1, SizesAre
    <3> QED BY <3>2, <3>3, <3>4
  <2> QED BY <2>1, <2>2, SeqEqual
<1> QED BY <1>1, <1>2, <1>3, SumHead, SizesAre DEF FieldBytes

LEMMA BytesConcat ==
  ASSUME NEW fs \in Seq(Field), NEW gs \in Seq(Field)
  PROVE  fs \o gs \in Seq(Field) /\ FieldBytes(fs \o gs) = FieldBytes(fs) + FieldBytes(gs)
<1>1. /\ fs \o gs \in Seq(Field) /\ Len(fs \o gs) = Len(fs) + Len(gs)
      /\ Len(fs) \in Nat /\ Len(gs) \in Nat
      /\ \A j \in 1 .. Len(fs) + Len(gs) :
           (fs \o gs)[j] = IF j <= Len(fs) THEN fs[j] ELSE gs[j - Len(fs)]
  BY ConcatProperties, LenProperties
<1>2. Sizes(fs \o gs) = Sizes(fs) \o Sizes(gs)
  <2>1. /\ Sizes(fs \o gs) \in Seq(Nat) /\ Len(Sizes(fs \o gs)) = Len(fs) + Len(gs)
        /\ Sizes(fs) \in Seq(Nat) /\ Len(Sizes(fs)) = Len(fs)
        /\ Sizes(gs) \in Seq(Nat) /\ Len(Sizes(gs)) = Len(gs)
    BY <1>1, SizesAre
  <2>2. /\ Sizes(fs) \o Sizes(gs) \in Seq(Nat)
        /\ Len(Sizes(fs) \o Sizes(gs)) = Len(fs) + Len(gs)
        /\ \A j \in 1 .. Len(fs) + Len(gs) :
             (Sizes(fs) \o Sizes(gs))[j]
               = IF j <= Len(fs) THEN Sizes(fs)[j] ELSE Sizes(gs)[j - Len(fs)]
    <3> DEFINE y == Sizes(fs)
               z == Sizes(gs)
    <3>1. y \in Seq(Nat) /\ Len(y) = Len(fs) /\ z \in Seq(Nat) /\ Len(z) = Len(gs)
      BY <2>1
    <3> HIDE DEF y, z
    <3>2. /\ y \o z \in Seq(Nat) /\ Len(y \o z) = Len(y) + Len(z)
          /\ \A j \in 1 .. Len(y) + Len(z) :
               (y \o z)[j] = IF j <= Len(y) THEN y[j] ELSE z[j - Len(y)]
      BY <3>1, ConcatProperties
    <3>3. /\ y \o z \in Seq(Nat) /\ Len(y \o z) = Len(fs) + Len(gs)
          /\ \A j \in 1 .. Len(fs) + Len(gs) :
               (y \o z)[j] = IF j <= Len(fs) THEN y[j] ELSE z[j - Len(fs)]
      BY <3>1, <3>2
    <3> QED BY <3>3 DEF y, z
  <2>3. ASSUME NEW j \in 1 .. Len(fs) + Len(gs)
        PROVE  Sizes(fs \o gs)[j] = (Sizes(fs) \o Sizes(gs))[j]
    <3>1. Sizes(fs \o gs)[j] = (fs \o gs)[j].size
      BY <1>1, SizesAre
    <3>2. CASE j <= Len(fs)
      <4>1. j \in 1 .. Len(fs) /\ (fs \o gs)[j] = fs[j]
        BY <1>1, <3>2
      <4>2. Sizes(fs)[j] = fs[j].size
        BY <4>1, SizesAre
      <4> QED BY <2>2, <3>1, <3>2, <4>1, <4>2
    <3>3. CASE j > Len(fs)
      <4>1. j - Len(fs) \in 1 .. Len(gs) /\ (fs \o gs)[j] = gs[j - Len(fs)]
        BY <1>1, <3>3
      <4>2. Sizes(gs)[j - Len(fs)] = gs[j - Len(fs)].size
        BY <4>1, SizesAre
      <4>3. ~ (j <= Len(fs))
        BY <1>1, <3>3
      <4>4. (Sizes(fs) \o Sizes(gs))[j] = Sizes(gs)[j - Len(fs)]
        BY <2>2, <4>3
      <4> QED BY <3>1, <4>1, <4>2, <4>4, Zenon
    <3>4. j <= Len(fs) \/ j > Len(fs)
      BY <1>1
    <3> QED BY <3>2, <3>3, <3>4
  <2> QED BY <2>1, <2>2, <2>3, SeqEqual
<1> QED BY <1>1, <1>2, SumConcat, SizesAre DEF FieldBytes

LEMMA BytesRest ==
  ASSUME NEW s \in Seq(Field), Len(s) # 0
  PROVE  /\ s[1].size \in Nat
         /\ \E t \in Seq(Field) :
              /\ Len(t) = Len(s) - 1 /\ \A j \in 1 .. Len(s) - 1 : t[j] = s[j + 1]
              /\ FieldBytes(s) = s[1].size + FieldBytes(t)
<1>1. s # <<>> /\ Head(s) = s[1]
  <2>1. Len(<<>>) # Len(s)
    BY EmptySeq
  <2> QED BY <2>1
<1>2. Tail(s) \in Seq(Field) /\ Len(Tail(s)) = Len(s) - 1
      /\ \A j \in 1 .. Len(Tail(s)) : Tail(s)[j] = s[j + 1]
  BY <1>1, HeadTailProperties
<1>3. FieldBytes(s) = Head(s).size + FieldBytes(Tail(s)) /\ Head(s) \in Field
  BY <1>1, BytesHead
<1>4. Head(s).size \in Nat
  BY <1>3 DEF Field
<1> QED BY <1>1, <1>2, <1>3, <1>4

\* The bytes of one field, of two, and so on up to the longest packet written field by field.
LEMMA BytesOne ==
  ASSUME NEW s \in Seq(Field), Len(s) = 1
  PROVE  FieldBytes(s) = s[1].size /\ s[1].size \in Nat
<1>1. PICK t \in Seq(Field) : Len(t) = Len(s) - 1 /\ FieldBytes(s) = s[1].size + FieldBytes(t)
  <2>1. Len(s) # 0
    OBVIOUS
  <2> QED BY <2>1, BytesRest, Zenon
<1>2. t = <<>>
  BY <1>1, EmptySeq
<1>3. FieldBytes(t) = 0
  BY <1>2, FieldBytesNone
<1>4. s[1].size \in Nat
  <2>1. Len(s) # 0
    OBVIOUS
  <2> QED BY <2>1, BytesRest, Zenon
<1> QED BY <1>1, <1>3, <1>4

LEMMA BytesTwo ==
  ASSUME NEW s \in Seq(Field), Len(s) = 2
  PROVE  FieldBytes(s) = s[1].size + s[2].size
<1>1. PICK t \in Seq(Field) :
        /\ Len(t) = Len(s) - 1 /\ \A j \in 1 .. Len(s) - 1 : t[j] = s[j + 1]
        /\ FieldBytes(s) = s[1].size + FieldBytes(t)
  <2>1. Len(s) # 0
    OBVIOUS
  <2> QED BY <2>1, BytesRest, Zenon
<1>2. FieldBytes(t) = t[1].size
  BY <1>1, BytesOne
<1>3. t[1] = s[2]
  BY <1>1
<1> QED BY <1>1, <1>2, <1>3

LEMMA BytesThree ==
  ASSUME NEW s \in Seq(Field), Len(s) = 3
  PROVE  FieldBytes(s) = s[1].size + (s[2].size + s[3].size)
<1>1. PICK t \in Seq(Field) :
        /\ Len(t) = Len(s) - 1 /\ \A j \in 1 .. Len(s) - 1 : t[j] = s[j + 1]
        /\ FieldBytes(s) = s[1].size + FieldBytes(t)
  <2>1. Len(s) # 0
    OBVIOUS
  <2> QED BY <2>1, BytesRest, Zenon
<1>2. FieldBytes(t) = t[1].size + t[2].size
  BY <1>1, BytesTwo
<1>3. t[1] = s[2] /\ t[2] = s[3]
  BY <1>1
<1> QED BY <1>1, <1>2, <1>3

LEMMA BytesFour ==
  ASSUME NEW s \in Seq(Field), Len(s) = 4
  PROVE  FieldBytes(s) = s[1].size + (s[2].size + (s[3].size + s[4].size))
<1>1. PICK t \in Seq(Field) :
        /\ Len(t) = Len(s) - 1 /\ \A j \in 1 .. Len(s) - 1 : t[j] = s[j + 1]
        /\ FieldBytes(s) = s[1].size + FieldBytes(t)
  <2>1. Len(s) # 0
    OBVIOUS
  <2> QED BY <2>1, BytesRest, Zenon
<1>2. FieldBytes(t) = t[1].size + (t[2].size + t[3].size)
  BY <1>1, BytesThree
<1>3. t[1] = s[2] /\ t[2] = s[3] /\ t[3] = s[4]
  BY <1>1
<1> QED BY <1>1, <1>2, <1>3

LEMMA BytesFive ==
  ASSUME NEW s \in Seq(Field), Len(s) = 5
  PROVE  FieldBytes(s) = s[1].size + (s[2].size + (s[3].size + (s[4].size + s[5].size)))
<1>1. PICK t \in Seq(Field) :
        /\ Len(t) = Len(s) - 1 /\ \A j \in 1 .. Len(s) - 1 : t[j] = s[j + 1]
        /\ FieldBytes(s) = s[1].size + FieldBytes(t)
  <2>1. Len(s) # 0
    OBVIOUS
  <2> QED BY <2>1, BytesRest, Zenon
<1>2. FieldBytes(t) = t[1].size + (t[2].size + (t[3].size + t[4].size))
  BY <1>1, BytesFour
<1>3. t[1] = s[2] /\ t[2] = s[3] /\ t[3] = s[4] /\ t[4] = s[5]
  BY <1>1
<1> QED BY <1>1, <1>2, <1>3

LEMMA BytesSix ==
  ASSUME NEW s \in Seq(Field), Len(s) = 6
  PROVE  FieldBytes(s) = s[1].size + (s[2].size + (s[3].size + (s[4].size + (s[5].size + s[6].size))))
<1>1. PICK t \in Seq(Field) :
        /\ Len(t) = Len(s) - 1 /\ \A j \in 1 .. Len(s) - 1 : t[j] = s[j + 1]
        /\ FieldBytes(s) = s[1].size + FieldBytes(t)
  <2>1. Len(s) # 0
    OBVIOUS
  <2> QED BY <2>1, BytesRest, Zenon
<1>2. FieldBytes(t) = t[1].size + (t[2].size + (t[3].size + (t[4].size + t[5].size)))
  BY <1>1, BytesFive
<1>3. /\ t[1] = s[2] /\ t[2] = s[3] /\ t[3] = s[4] /\ t[4] = s[5]
      /\ t[5] = s[6]
  BY <1>1
<1> QED BY <1>1, <1>2, <1>3

LEMMA BytesSeven ==
  ASSUME NEW s \in Seq(Field), Len(s) = 7
  PROVE  FieldBytes(s) = s[1].size + (s[2].size + (s[3].size + (s[4].size + (s[5].size + (s[6].size + s[7].size)))))
<1>1. PICK t \in Seq(Field) :
        /\ Len(t) = Len(s) - 1 /\ \A j \in 1 .. Len(s) - 1 : t[j] = s[j + 1]
        /\ FieldBytes(s) = s[1].size + FieldBytes(t)
  <2>1. Len(s) # 0
    OBVIOUS
  <2> QED BY <2>1, BytesRest, Zenon
<1>2. FieldBytes(t) = t[1].size + (t[2].size + (t[3].size + (t[4].size + (t[5].size + t[6].size))))
  BY <1>1, BytesSix
<1>3. /\ t[1] = s[2] /\ t[2] = s[3] /\ t[3] = s[4] /\ t[4] = s[5]
      /\ t[5] = s[6] /\ t[6] = s[7]
  BY <1>1
<1> QED BY <1>1, <1>2, <1>3

LEMMA BytesEight ==
  ASSUME NEW s \in Seq(Field), Len(s) = 8
  PROVE  FieldBytes(s) = s[1].size + (s[2].size + (s[3].size + (s[4].size + (s[5].size + (s[6].size + (s[7].size + s[8].size))))))
<1>1. PICK t \in Seq(Field) :
        /\ Len(t) = Len(s) - 1 /\ \A j \in 1 .. Len(s) - 1 : t[j] = s[j + 1]
        /\ FieldBytes(s) = s[1].size + FieldBytes(t)
  <2>1. Len(s) # 0
    OBVIOUS
  <2> QED BY <2>1, BytesRest, Zenon
<1>2. FieldBytes(t) = t[1].size + (t[2].size + (t[3].size + (t[4].size + (t[5].size + (t[6].size + t[7].size)))))
  BY <1>1, BytesSeven
<1>3. /\ t[1] = s[2] /\ t[2] = s[3] /\ t[3] = s[4] /\ t[4] = s[5]
      /\ t[5] = s[6] /\ t[6] = s[7] /\ t[7] = s[8]
  BY <1>1
<1> QED BY <1>1, <1>2, <1>3

\* What the sequences of a sequence come to, one after the other.
JoinStep(f, ss, k) == IF k = 1 THEN ss[k] ELSE f[k - 1] \o ss[k]

JoinsUpto(f, ss, n) == f = [k \in 1 .. n |-> JoinStep(f, ss, k)]

LEMMA JoinsUptoAt ==
  ASSUME NEW ss, NEW n \in Nat, NEW f, JoinsUpto(f, ss, n), NEW k \in 1 .. n
  PROVE  f[k] = JoinStep(f, ss, k)
<1>1. PICK h : h = [j \in 1 .. n |-> JoinStep(f, ss, j)]
  OBVIOUS
<1>2. h[k] = JoinStep(f, ss, k)
  BY <1>1
<1>3. f = h
  BY <1>1 DEF JoinsUpto
<1> QED BY <1>2, <1>3

LEMMA JoinsExist ==
  ASSUME NEW ss, NEW n \in Nat
  PROVE  \E f : JoinsUpto(f, ss, n)
<1> DEFINE T == {m \in Nat : ~ \E f : JoinsUpto(f, ss, m)}
<1> SUFFICES ASSUME T # {} PROVE FALSE
  OBVIOUS
<1>1. PICK m \in T : \A y \in T : m <= y
  BY SmallestOf
<1>2. m # 0
  <2>1. JoinsUpto([k \in 1 .. 0 |-> 0], ss, 0)
    BY DEF JoinsUpto
  <2> QED BY <2>1
<1>3. m - 1 \in Nat /\ m - 1 \notin T
  BY <1>1, <1>2
<1>4. PICK g : JoinsUpto(g, ss, m - 1)
  BY <1>3
<1> DEFINE h == [k \in 1 .. m |-> IF k = m THEN JoinStep(g, ss, m) ELSE g[k]]
<1>5. ASSUME NEW k \in 1 .. m PROVE h[k] = JoinStep(h, ss, k)
  <2>1. k # 1 => h[k - 1] = g[k - 1]
    BY <1>3
  <2>2. CASE k = m
    <3>1. JoinStep(h, ss, k) = JoinStep(g, ss, k)
      BY <2>1 DEF JoinStep
    <3> QED BY <2>2, <3>1
  <2>3. CASE k # m
    <3>1. k \in 1 .. m - 1
      BY <1>3, <2>3
    <3>2. g[k] = JoinStep(g, ss, k)
      BY <1>3, <1>4, <3>1, JoinsUptoAt
    <3> QED BY <2>1, <2>3, <3>2 DEF JoinStep
  <2> QED BY <2>2, <2>3
<1>6. JoinsUpto(h, ss, m)
  <2>1. h = [k \in 1 .. m |-> h[k]]
    OBVIOUS
  <2> HIDE DEF h
  <2> QED BY <1>5, <2>1 DEF JoinsUpto
<1> QED BY <1>6

\* The bytes of several sequences of fields, written one after the other.
LEMMA BytesFlat ==
  ASSUME NEW ss \in Seq(Seq(Field)), NEW z \in Seq(Nat), Len(z) = Len(ss),
         \A j \in 1 .. Len(ss) : z[j] = FieldBytes(ss[j])
  PROVE  FlattenSeq(ss) \in Seq(Field) /\ FieldBytes(FlattenSeq(ss)) = SumOf(z)
<1> DEFINE l == Len(ss)
           a == Sums(z)
<1>1. /\ l \in Nat /\ Len(z) = l
      /\ \A j \in 1 .. l : ss[j] \in Seq(Field) /\ z[j] = FieldBytes(ss[j])
  BY ElementOfSeq
<1>2. a[0] = 0 /\ \A n \in 1 .. l : a[n] = a[n - 1] + z[n] /\ a[n - 1] \in Nat
  BY <1>1, SumsAre
<1>3. CASE l = 0
  <2>1. ss = <<>> /\ FlattenSeq(ss) = ss
    BY <1>3, EmptySeq DEF FlattenSeq
  <2>2. SumOf(z) = 0
    BY <1>1, <1>2, <1>3 DEF SumOf
  <2> QED BY <2>1, <2>2, FieldBytesNone, EmptySeq
<1>4. CASE l # 0
  <2> DEFINE join == CHOOSE f : JoinsUpto(f, ss, l)
  <2>1. JoinsUpto(join, ss, l)
    BY <1>1, JoinsExist
  <2>2. FlattenSeq(ss) = join[l]
    BY <1>4 DEF FlattenSeq, JoinsUpto, JoinStep
  <2> HIDE DEF l, a, join
  <2>3. \A k \in 1 .. l : join[k] = JoinStep(join, ss, k)
    BY <1>1, <2>1, JoinsUptoAt
  <2> DEFINE P == {n \in 0 .. l : n # 0 => join[n] \in Seq(Field) /\ FieldBytes(join[n]) = a[n]}
  <2>4. 0 \in P
    BY <1>1
  <2>5. ASSUME NEW n \in 1 .. l, n - 1 \in P PROVE n \in P
    <3>1. ss[n] \in Seq(Field) /\ FieldBytes(ss[n]) \in Nat /\ a[n] = a[n - 1] + FieldBytes(ss[n])
      BY <1>1, <1>2, SizesAre
    <3>2. CASE n = 1
      <4>1. join[n] = ss[n]
        BY <2>3, <3>2 DEF JoinStep
      <4>2. a[n] = FieldBytes(ss[n])
        BY <1>2, <3>1, <3>2
      <4> QED BY <3>1, <4>1, <4>2
    <3>3. CASE n # 1
      <4>1. join[n] = join[n - 1] \o ss[n]
        BY <2>3, <3>3 DEF JoinStep
      <4>2. join[n - 1] \in Seq(Field) /\ FieldBytes(join[n - 1]) = a[n - 1]
        BY <2>5, <3>3
      <4>3. join[n] \in Seq(Field) /\ FieldBytes(join[n]) = a[n]
        BY <3>1, <4>1, <4>2, BytesConcat
      <4> QED BY <4>3
    <3> QED BY <3>2, <3>3
  <2>6. l \in P
    <3> HIDE DEF P
    <3>1. \A n \in 0 .. l : n \in P
      BY <1>1, <2>4, <2>5, UpFromZero, Zenon
    <3> QED BY <1>1, <3>1
  <2>7. join[l] \in Seq(Field) /\ FieldBytes(join[l]) = a[l]
    BY <1>4, <2>6 DEF l
  <2> QED BY <1>1, <2>2, <2>7 DEF SumOf, a
<1> QED BY <1>3, <1>4

-----------------------------------------------------------------------------
(* What mcpr_encode_packet_bounds says is enough for every packet.         *)

\* However large a number, its varint is as long as one may be at most; zero takes a byte.
LEMMA BoundsRange ==
  ASSUME NEW n
  PROVE  VarintBounds(n) \in 1 .. MaxBytes
<1> DEFINE S == {k \in 1 .. MaxBytes - 1 : n >= Power[k]}
<1>1. /\ S \subseteq 1 .. MaxBytes - 1 /\ IsFiniteSet(1 .. MaxBytes - 1)
      /\ Cardinality(1 .. MaxBytes - 1) = MaxBytes - 1
  BY FS_Interval, MaxBytesAssumption
<1> HIDE DEF S
<1>2. IsFiniteSet(S) /\ Cardinality(S) <= MaxBytes - 1 /\ Cardinality(S) \in Nat
  BY <1>1, FS_Subset, FS_CardinalityType
<1>3. VarintBounds(n) = 1 + Cardinality(S)
  BY DEF VarintBounds, S
<1> QED BY <1>2, <1>3, MaxBytesAssumption

LEMMA BoundsOfZero == VarintBounds(0) = 1
<1>1. {k \in 1 .. MaxBytes - 1 : 0 >= Power[k]} = {}
  <2>1. ASSUME NEW k \in 1 .. MaxBytes - 1 PROVE ~ (0 >= Power[k])
    <3>1. k \in Places
      BY MaxBytesAssumption DEF Places
    <3>2. Power[k] \in Nat \ {0}
      BY <3>1, PowerPositive
    <3> QED BY <3>2
  <2> QED BY <2>1
<1> QED BY <1>1, FS_EmptySet DEF VarintBounds

LEMMA FieldsAre ==
  /\ Id \in Field /\ Id.size = 1
  /\ \A n \in Nat : Raw(n) \in Field /\ Raw(n).size = n
  /\ \A n : Varint(n) \in Field /\ Varint(n).size = VarintBounds(n)
  /\ \A n \in Nat : String(n) \in Field /\ String(n).size = VarintBounds(n) + n
<1>1. \A n \in Nat : Raw(n) \in Field /\ Raw(n).size = n
  BY DEF Raw, Field
<1>2. \A n : VarintBounds(n) \in Nat
  BY BoundsRange, MaxBytesAssumption
<1>3. \A n : Varint(n) \in Field /\ Varint(n).size = VarintBounds(n)
  BY <1>1, <1>2 DEF Varint
<1>4. \A n \in Nat : String(n) \in Field /\ String(n).size = VarintBounds(n) + n
  BY <1>2 DEF String, Field
<1>5. Id \in Field /\ Id.size = 1
  BY <1>1 DEF Id
<1> QED BY <1>1, <1>3, <1>4, <1>5

Section == [palette : Seq(Nat), words : Nat, sky_light : BOOLEAN]

\* A section takes the bytes that its size says, and fewer only for its palette.
LEMMA SectionBytes ==
  ASSUME NEW section \in Section
  PROVE  /\ SectionFields(section) \in Seq(Field) /\ SectionSize(section) \in Nat
         /\ FieldBytes(SectionFields(section)) <= SectionSize(section)
         /\ section.palette = <<>> => FieldBytes(SectionFields(section)) = SectionSize(section)
<1> DEFINE pal == section.palette
           m == Len(pal)
           head == <<Raw(1), Varint(m)>>
           entries == [j \in DOMAIN pal |-> Varint(pal[j])]
           body == <<Varint(section.words), Raw(section.words * 8), Raw(LightBytes)>>
           sky == IF section.sky_light THEN <<Raw(LightBytes)>> ELSE <<>>
           vm == VarintBounds(m)
           vw == VarintBounds(section.words)
           light == IF section.sky_light THEN LightBytes ELSE 0
<1>1. /\ pal \in Seq(Nat) /\ m \in Nat /\ section.words \in Nat
      /\ LightBytes \in Nat /\ section.words * 8 \in Nat
  BY BytesAssumption DEF Section
<1>2. vm \in Nat /\ vw \in Nat
  BY BoundsRange, MaxBytesAssumption
<1>3. head \in Seq(Field) /\ FieldBytes(head) = 1 + vm
  <2>1. /\ head \in Seq(Field) /\ Len(head) = 2
        /\ head[1].size = 1 /\ head[2].size = vm
    BY FieldsAre
  <2> HIDE DEF head
  <2> QED BY <2>1, BytesTwo
<1>4. body \in Seq(Field) /\ FieldBytes(body) = vw + (section.words * 8 + LightBytes)
  <2>1. Varint(section.words) \in Field /\ Raw(section.words * 8) \in Field /\ Raw(LightBytes) \in Field
    BY <1>1, FieldsAre
  <2>2. /\ body \in Seq(Field) /\ Len(body) = 3 /\ body[1] = Varint(section.words)
        /\ body[2] = Raw(section.words * 8) /\ body[3] = Raw(LightBytes)
    BY <2>1
  <2>3. /\ body[1].size = vw /\ body[2].size = section.words * 8 /\ body[3].size = LightBytes
    BY <1>1, <2>2, FieldsAre
  <2> HIDE DEF body
  <2> QED BY <2>2, <2>3, BytesThree
<1>5. sky \in Seq(Field) /\ FieldBytes(sky) = light /\ light \in Nat
  <2>1. CASE section.sky_light
    <3>1. Raw(LightBytes) \in Field /\ Raw(LightBytes).size = LightBytes
      BY <1>1, FieldsAre
    <3>2. sky \in Seq(Field) /\ Len(sky) = 1 /\ sky[1] = Raw(LightBytes)
      BY <2>1, <3>1
    <3> HIDE DEF sky
    <3>3. FieldBytes(sky) = LightBytes
      BY <3>1, <3>2, BytesOne
    <3> QED BY <1>1, <2>1, <3>2, <3>3
  <2>2. CASE ~section.sky_light
    BY <2>2, FieldBytesNone, EmptySeq
  <2> QED BY <2>1, <2>2
<1>6. /\ entries \in Seq(Field) /\ FieldBytes(entries) <= m * MaxBytes /\ FieldBytes(entries) \in Nat
      /\ pal = <<>> => FieldBytes(entries) = 0
  <2>1. /\ entries \in Seq(Field) /\ Len(entries) = m
        /\ \A j \in 1 .. m : entries[j] = Varint(pal[j])
    <3>1. DOMAIN pal = 1 .. m
      BY <1>1, LenProperties
    <3>2. entries \in [1 .. m -> Field] /\ \A j \in 1 .. m : entries[j] = Varint(pal[j])
      BY <3>1, FieldsAre
    <3> HIDE DEF entries, m
    <3>3. entries \in Seq(Field) /\ Len(entries) = m
      BY <1>1, <3>2
    <3> QED BY <3>2, <3>3
  <2> HIDE DEF entries
  <2>2. Sizes(entries) \in Seq(Nat) /\ Len(Sizes(entries)) = m
    BY <2>1, SizesAre
  <2>3. ASSUME NEW j \in 1 .. m PROVE Sizes(entries)[j] <= MaxBytes
    <3>1. Sizes(entries)[j] = VarintBounds(pal[j])
      BY <2>1, SizesAre, FieldsAre
    <3>2. VarintBounds(pal[j]) \in 1 .. MaxBytes
      BY BoundsRange
    <3> QED BY <3>1, <3>2, MaxBytesAssumption
  <2>4. FieldBytes(entries) <= m * MaxBytes
    BY <2>2, <2>3, SumAtMost, MaxBytesAssumption DEF FieldBytes
  <2>5. pal = <<>> => entries = <<>>
    BY <2>1, EmptySeq
  <2> QED BY <2>1, <2>4, <2>5, SizesAre, FieldBytesNone
<1>7. SectionFields(section) = ((head \o entries) \o body) \o sky
  BY DEF SectionFields
<1>8. SectionSize(section) = 1 + vm + m * MaxBytes + vw + section.words * 8 + LightBytes + light
  BY DEF SectionSize
<1> HIDE DEF head, entries, body, sky, vm, vw, light, pal, m
<1>9. /\ SectionFields(section) \in Seq(Field)
      /\ FieldBytes(SectionFields(section)) = ((FieldBytes(head) + FieldBytes(entries)) + FieldBytes(body)) + FieldBytes(sky)
  <2>1. head \o entries \in Seq(Field) /\ FieldBytes(head \o entries) = FieldBytes(head) + FieldBytes(entries)
    BY <1>3, <1>6, BytesConcat
  <2> DEFINE x == head \o entries
             y == x \o body
  <2> HIDE DEF x
  <2>2. y \in Seq(Field) /\ FieldBytes(y) = FieldBytes(x) + FieldBytes(body)
    BY <1>4, <2>1, BytesConcat DEF x
  <2> HIDE DEF y
  <2>3. y \o sky \in Seq(Field) /\ FieldBytes(y \o sky) = FieldBytes(y) + FieldBytes(sky)
    BY <1>5, <2>2, BytesConcat
  <2>4. SectionFields(section) = y \o sky
    BY <1>7 DEF x, y
  <2>5. FieldBytes(x) = FieldBytes(head) + FieldBytes(entries)
    BY <2>1 DEF x
  <2> QED BY <2>2, <2>3, <2>4, <2>5
<1> DEFINE pm == m * MaxBytes
           w == section.words * 8
<1>10. pm \in Nat /\ w \in Nat /\ (pal = <<>> => pm = 0)
  BY <1>1, MaxBytesAssumption DEF m
<1> HIDE DEF pm, w
<1>11. SectionSize(section) = 1 + vm + pm + vw + w + LightBytes + light
  BY <1>8 DEF pm, w
<1>12. FieldBytes(body) = vw + (w + LightBytes) /\ FieldBytes(entries) <= pm
  BY <1>4, <1>6 DEF pm, w
<1>13. SectionSize(section) \in Nat /\ FieldBytes(SectionFields(section)) <= SectionSize(section)
  BY <1>1, <1>2, <1>3, <1>5, <1>6, <1>9, <1>10, <1>11, <1>12
<1>14. pal = <<>> => FieldBytes(SectionFields(section)) = SectionSize(section)
  BY <1>1, <1>2, <1>3, <1>5, <1>6, <1>9, <1>10, <1>11, <1>12
<1> QED BY <1>9, <1>13, <1>14 DEF pal

NoPalettes(p) == \A j \in DOMAIN p.sections : p.sections[j].palette = <<>>

ChunkPackets == {p \in PlayOut : p.kind = "CHUNK_DATA"}

\* The size that a chunk's packet announces is what its sections and biomes take.
LEMMA DataBytes ==
  ASSUME NEW p \in ChunkPackets
  PROVE  LET ss == [j \in DOMAIN p.sections |-> SectionFields(p.sections[j])]
             biomes == IF p.ground_up THEN <<Raw(BiomeBytes)>> ELSE <<>>
         IN  /\ FlattenSeq(ss) \in Seq(Field) /\ biomes \in Seq(Field) /\ DataSize(p) \in Nat
             /\ FieldBytes(FlattenSeq(ss)) + FieldBytes(biomes) <= DataSize(p)
             /\ NoPalettes(p) => FieldBytes(FlattenSeq(ss)) + FieldBytes(biomes) = DataSize(p)
<1> DEFINE sec == p.sections
           l == Len(sec)
           ss == [j \in DOMAIN sec |-> SectionFields(sec[j])]
           biomes == IF p.ground_up THEN <<Raw(BiomeBytes)>> ELSE <<>>
           bio == IF p.ground_up THEN BiomeBytes ELSE 0
           z == [j \in 1 .. l |-> FieldBytes(SectionFields(sec[j]))]
           y == [j \in 1 .. l |-> SectionSize(sec[j])]
<1>1. sec \in Seq(Section) /\ p.ground_up \in BOOLEAN /\ BiomeBytes \in Nat
  <2>1. p \in [kind : {"CHUNK_DATA"}, ground_up : BOOLEAN, mask : Numbers, sections : Chunks]
    BY DEF ChunkPackets, PlayOut
  <2> QED BY <2>1, ChunksAssumption, BytesAssumption DEF Section
<1>2. l \in Nat /\ DOMAIN sec = 1 .. l /\ \A j \in 1 .. l : sec[j] \in Section
  BY <1>1, LenProperties, ElementOfSeq
<1>3. biomes \in Seq(Field) /\ FieldBytes(biomes) = bio /\ bio \in Nat
  <2>1. CASE p.ground_up
    <3>1. Raw(BiomeBytes) \in Field /\ Raw(BiomeBytes).size = BiomeBytes
      BY <1>1, FieldsAre
    <3>2. biomes \in Seq(Field) /\ Len(biomes) = 1 /\ biomes[1] = Raw(BiomeBytes)
      BY <2>1, <3>1
    <3> HIDE DEF biomes
    <3>3. FieldBytes(biomes) = BiomeBytes
      BY <3>1, <3>2, BytesOne
    <3> QED BY <1>1, <2>1, <3>2, <3>3
  <2>2. CASE ~p.ground_up
    BY <2>2, FieldBytesNone, EmptySeq
  <2> QED BY <2>1, <2>2
<1>4. DataSize(p) = bio + SumOf(y)
  BY <1>2 DEF DataSize, SumOver
<1> HIDE DEF l, sec, biomes, bio
<1>5. /\ z \in Seq(Nat) /\ Len(z) = l /\ y \in Seq(Nat) /\ Len(y) = l
      /\ \A j \in 1 .. l : z[j] <= y[j] /\ z[j] = FieldBytes(SectionFields(sec[j]))
      /\ \A j \in 1 .. l : sec[j].palette = <<>> => z[j] = y[j]
  <2>1. /\ z \in [1 .. l -> Nat] /\ y \in [1 .. l -> Nat]
        /\ \A j \in 1 .. l : z[j] <= y[j] /\ z[j] = FieldBytes(SectionFields(sec[j]))
        /\ \A j \in 1 .. l : sec[j].palette = <<>> => z[j] = y[j]
    BY <1>2, SectionBytes, SizesAre
  <2> HIDE DEF z, y
  <2>2. z \in Seq(Nat) /\ Len(z) = l /\ y \in Seq(Nat) /\ Len(y) = l
    BY <1>2, <2>1
  <2> QED BY <2>1, <2>2
<1>6. /\ ss \in Seq(Seq(Field)) /\ Len(ss) = l
      /\ \A j \in 1 .. l : ss[j] = SectionFields(sec[j])
  <2>1. ss \in [1 .. l -> Seq(Field)] /\ \A j \in 1 .. l : ss[j] = SectionFields(sec[j])
    BY <1>2, SectionBytes
  <2> HIDE DEF ss
  <2> QED BY <1>2, <2>1
<1> HIDE DEF z, y, ss
<1>7. FlattenSeq(ss) \in Seq(Field) /\ FieldBytes(FlattenSeq(ss)) = SumOf(z)
  BY <1>5, <1>6, BytesFlat
<1>8. SumOf(z) <= SumOf(y) /\ SumOf(z) \in Nat /\ SumOf(y) \in Nat
  BY <1>5, SumMonotonic, SumNat
<1>9. NoPalettes(p) => SumOf(z) = SumOf(y)
  <2>1. NoPalettes(p) => \A j \in 1 .. l : z[j] = y[j]
    BY <1>2, <1>5 DEF NoPalettes, sec
  <2>2. (\A j \in 1 .. l : z[j] = y[j]) => z = y
    BY <1>5, SeqEqual
  <2> QED BY <2>1, <2>2
<1>10. /\ FlattenSeq(ss) \in Seq(Field) /\ biomes \in Seq(Field) /\ DataSize(p) \in Nat
       /\ FieldBytes(FlattenSeq(ss)) + FieldBytes(biomes) <= DataSize(p)
       /\ NoPalettes(p) => FieldBytes(FlattenSeq(ss)) + FieldBytes(biomes) = DataSize(p)
  BY <1>3, <1>4, <1>7, <1>8, <1>9
<1> QED BY <1>10, Zenon DEF ss, biomes, sec

LEMMA ChunkBytes ==
  ASSUME NEW p \in ChunkPackets
  PROVE  LET rest == VarintBounds(p.mask) + VarintBounds(DataSize(p)) + DataSize(p) + 1
         IN  /\ ChunkFields(p) \in Seq(Field) /\ DataSize(p) \in Nat
             /\ FieldBytes(ChunkFields(p)) <= 1 + 4 + 4 + 1 + rest
             /\ NoPalettes(p) => FieldBytes(ChunkFields(p)) = 1 + 4 + 4 + 1 + rest
<1> DEFINE ss == [j \in DOMAIN p.sections |-> SectionFields(p.sections[j])]
           flat == FlattenSeq(ss)
           biomes == IF p.ground_up THEN <<Raw(BiomeBytes)>> ELSE <<>>
           head == <<Id, Raw(4), Raw(4), Raw(1), Varint(p.mask), Varint(DataSize(p))>>
           tail == <<Varint(0)>>
           vm == VarintBounds(p.mask)
           vd == VarintBounds(DataSize(p))
           size == DataSize(p)
<1>1. /\ flat \in Seq(Field) /\ biomes \in Seq(Field) /\ size \in Nat
      /\ FieldBytes(flat) + FieldBytes(biomes) <= size
      /\ NoPalettes(p) => FieldBytes(flat) + FieldBytes(biomes) = size
  BY DataBytes
<1>2. vm \in Nat /\ vd \in Nat
  BY BoundsRange, MaxBytesAssumption
<1>3. head \in Seq(Field) /\ FieldBytes(head) = 10 + vm + vd
  <2>1. /\ Id \in Field /\ Raw(4) \in Field /\ Raw(1) \in Field
        /\ Varint(p.mask) \in Field /\ Varint(DataSize(p)) \in Field
    BY FieldsAre
  <2>2. /\ head \in Seq(Field) /\ Len(head) = 6 /\ head[1] = Id
        /\ head[2] = Raw(4) /\ head[3] = Raw(4) /\ head[4] = Raw(1)
        /\ head[5] = Varint(p.mask) /\ head[6] = Varint(DataSize(p))
    BY <2>1
  <2> HIDE DEF head
  <2>3. /\ head[1].size = 1 /\ head[2].size = 4 /\ head[3].size = 4 /\ head[4].size = 1
        /\ head[5].size = vm /\ head[6].size = vd
    BY <2>2, FieldsAre
  <2>4. FieldBytes(head) = head[1].size + (head[2].size + (head[3].size
                        + (head[4].size + (head[5].size + head[6].size))))
    BY <2>2, BytesSix
  <2> HIDE DEF vm, vd
  <2> QED BY <1>2, <2>2, <2>3, <2>4
<1>4. tail \in Seq(Field) /\ FieldBytes(tail) = 1
  <2>1. /\ tail \in Seq(Field) /\ Len(tail) = 1 /\ tail[1] = Varint(0)
    BY FieldsAre
  <2> HIDE DEF tail
  <2> QED BY <2>1, BytesOne, FieldsAre, BoundsOfZero
<1>5. ChunkFields(p) = ((head \o flat) \o biomes) \o tail
  BY DEF ChunkFields
<1> HIDE DEF head, flat, biomes, tail, vm, vd, size
<1>6. /\ ChunkFields(p) \in Seq(Field)
      /\ FieldBytes(ChunkFields(p)) = ((FieldBytes(head) + FieldBytes(flat)) + FieldBytes(biomes)) + FieldBytes(tail)
  <2>1. head \o flat \in Seq(Field) /\ FieldBytes(head \o flat) = FieldBytes(head) + FieldBytes(flat)
    BY <1>1, <1>3, BytesConcat
  <2> DEFINE x == head \o flat
             y == x \o biomes
  <2> HIDE DEF x
  <2>2. y \in Seq(Field) /\ FieldBytes(y) = FieldBytes(x) + FieldBytes(biomes)
    BY <1>1, <2>1, BytesConcat DEF x
  <2> HIDE DEF y
  <2>3. y \o tail \in Seq(Field) /\ FieldBytes(y \o tail) = FieldBytes(y) + FieldBytes(tail)
    BY <1>4, <2>2, BytesConcat
  <2>4. ChunkFields(p) = y \o tail
    BY <1>5 DEF x, y
  <2>5. FieldBytes(x) = FieldBytes(head) + FieldBytes(flat)
    BY <2>1 DEF x
  <2> QED BY <2>2, <2>3, <2>4, <2>5
<1>7. FieldBytes(flat) \in Nat /\ FieldBytes(biomes) \in Nat
  BY <1>1, SizesAre
<1>8. /\ FieldBytes(ChunkFields(p)) <= 1 + 4 + 4 + 1 + (vm + vd + size + 1)
      /\ NoPalettes(p) => FieldBytes(ChunkFields(p)) = 1 + 4 + 4 + 1 + (vm + vd + size + 1)
  <2> DEFINE x == FieldBytes(flat) + FieldBytes(biomes)
             v == vm + vd
             c == FieldBytes(ChunkFields(p))
  <2>1. x \in Nat /\ x <= size /\ (NoPalettes(p) => x = size)
    BY <1>1, <1>7
  <2>2. v \in Nat
    BY <1>2
  <2>3. c = (10 + v) + x + 1
    BY <1>2, <1>3, <1>4, <1>6, <1>7
  <2>4. 1 + 4 + 4 + 1 + (vm + vd + size + 1) = (10 + v) + size + 1
    BY <1>1, <1>2
  <2> HIDE DEF x, v, c
  <2>5. c <= (10 + v) + size + 1 /\ (x = size => c = (10 + v) + size + 1)
    BY <1>1, <2>1, <2>2, <2>3
  <2> QED BY <2>1, <2>4, <2>5 DEF c
<1> QED BY <1>1, <1>6, <1>8 DEF vm, vd, size

\* The packets of a client that is not playing yet.
LEMMA EarlyBytes ==
  ASSUME NEW p \in EarlyOut
  PROVE  /\ EarlyFields(p) \in Seq(Field) /\ EarlyBounds(p) \in Nat
         /\ FieldBytes(EarlyFields(p)) <= EarlyBounds(p)
<1> DEFINE fs == EarlyFields(p)
           M == MaxBytes
<1>1. M \in 2 .. 6
  BY MarginsAssumption
<1>2. \A n : VarintBounds(n) \in Nat /\ VarintBounds(n) <= M
  BY <1>1, BoundsRange
<1> HIDE DEF M
<1>3. CASE p.kind = "PONG"
  <2>1. fs = <<Id, Raw(8)>> /\ EarlyBounds(p) = M + 8
    BY <1>3 DEF EarlyFields, EarlyBounds, M
  <2> HIDE DEF fs
  <2>2. /\ fs \in Seq(Field) /\ Len(fs) = 2 /\ fs[1].size = 1 /\ fs[2].size = 8
    BY <2>1, FieldsAre
  <2>3. FieldBytes(fs) = 9
    BY <2>2, BytesTwo
  <2> QED BY <1>1, <2>1, <2>2, <2>3 DEF fs
<1>4. CASE p.kind = "RESPONSE"
  <2>1. fs = <<Id, Varint(p.text), Raw(p.text)>> /\ EarlyBounds(p) = M + M + p.text
    BY <1>4 DEF EarlyFields, EarlyBounds, M
  <2>2. p.text \in Nat
    BY <1>4, LengthsAssumption DEF EarlyOut
  <2> HIDE DEF fs
  <2>3. /\ fs \in Seq(Field) /\ Len(fs) = 3 /\ fs[1].size = 1
        /\ fs[2].size = VarintBounds(p.text) /\ fs[3].size = p.text
    BY <2>1, <2>2, FieldsAre
  <2>4. FieldBytes(fs) = 1 + (VarintBounds(p.text) + p.text)
    BY <2>3, BytesThree
  <2> QED BY <1>1, <1>2, <2>1, <2>2, <2>3, <2>4 DEF fs
<1>5. CASE p.kind = "LG_DISCONNECT"
  <2>1. fs = <<Id, String(p.text)>> /\ EarlyBounds(p) = 10 + p.text
    BY <1>5 DEF EarlyFields, EarlyBounds
  <2>2. p.text \in Nat
    BY <1>5, LengthsAssumption DEF EarlyOut
  <2> HIDE DEF fs
  <2>3. /\ fs \in Seq(Field) /\ Len(fs) = 2 /\ fs[1].size = 1
        /\ fs[2].size = VarintBounds(p.text) + p.text
    BY <2>1, <2>2, FieldsAre
  <2>4. FieldBytes(fs) = 1 + (VarintBounds(p.text) + p.text)
    BY <2>3, BytesTwo
  <2> QED BY <1>1, <1>2, <2>1, <2>2, <2>3, <2>4 DEF fs
<1>6. CASE p.kind = "ENCRYPTION_REQUEST"
  <2>1. /\ fs = <<Id, String(p.text), Varint(p.key), Raw(p.key), Varint(p.token), Raw(p.token)>>
        /\ EarlyBounds(p) = 20 + p.text + p.key + p.token
    BY <1>6 DEF EarlyFields, EarlyBounds
  <2>2. p.text \in Nat /\ p.key \in Nat /\ p.token \in Nat
    BY <1>6, LengthsAssumption DEF EarlyOut
  <2> HIDE DEF fs
  <2> DEFINE a == VarintBounds(p.text)
             b == VarintBounds(p.key)
             c == VarintBounds(p.token)
  <2>3. /\ fs \in Seq(Field) /\ Len(fs) = 6 /\ fs[1].size = 1
        /\ fs[2].size = a + p.text /\ fs[3].size = b /\ fs[4].size = p.key
        /\ fs[5].size = c /\ fs[6].size = p.token
    BY <2>1, <2>2, FieldsAre
  <2>4. FieldBytes(fs) = 1 + ((a + p.text) + (b + (p.key + (c + p.token))))
    BY <2>3, BytesSix
  <2>5. a \in Nat /\ b \in Nat /\ c \in Nat /\ a <= M /\ b <= M /\ c <= M
    BY <1>2
  <2> DEFINE data == p.text + p.key + p.token
             widths == a + b + c
  <2>6. /\ FieldBytes(fs) = (1 + widths) + data /\ EarlyBounds(p) = 20 + data
        /\ data \in Nat /\ widths \in Nat /\ 1 + widths <= 20
    <3> HIDE DEF a, b, c
    <3> QED BY <1>1, <2>1, <2>2, <2>4, <2>5
  <2> HIDE DEF data, widths
  <2> QED BY <2>3, <2>6 DEF fs
<1>7. CASE p.kind = "LOGIN_SUCCESS"
  <2>1. fs = <<Id, String(36), String(p.text)>> /\ EarlyBounds(p) = 51 + p.text
    BY <1>7 DEF EarlyFields, EarlyBounds
  <2>2. p.text \in Nat
    BY <1>7, LengthsAssumption DEF EarlyOut
  <2> HIDE DEF fs
  <2>3. /\ fs \in Seq(Field) /\ Len(fs) = 3 /\ fs[1].size = 1
        /\ fs[2].size = VarintBounds(36) + 36 /\ fs[3].size = VarintBounds(p.text) + p.text
    BY <2>1, <2>2, FieldsAre
  <2>4. FieldBytes(fs) = 1 + ((VarintBounds(36) + 36) + (VarintBounds(p.text) + p.text))
    BY <2>3, BytesThree
  <2> QED BY <1>1, <1>2, <2>1, <2>2, <2>3, <2>4 DEF fs
<1>8. CASE p.kind = "SET_COMPRESSION"
  <2>1. fs = <<Id, Varint(p.number)>> /\ EarlyBounds(p) = 10
    BY <1>8 DEF EarlyFields, EarlyBounds
  <2> HIDE DEF fs
  <2>2. /\ fs \in Seq(Field) /\ Len(fs) = 2 /\ fs[1].size = 1
        /\ fs[2].size = VarintBounds(p.number)
    BY <2>1, FieldsAre
  <2>3. FieldBytes(fs) = 1 + VarintBounds(p.number)
    BY <2>2, BytesTwo
  <2> QED BY <1>1, <1>2, <2>1, <2>2, <2>3 DEF fs
<1> QED BY <1>3, <1>4, <1>5, <1>6, <1>7, <1>8 DEF EarlyOut

LEMMA PlayBytes ==
  ASSUME NEW p \in PlayOut \ ChunkPackets, p.kind = "JOIN_GAME" => p.text <= 11
  PROVE  /\ PlayFields(p) \in Seq(Field) /\ PlayBounds(p) \in Nat
         /\ FieldBytes(PlayFields(p)) <= PlayBounds(p)
<1> DEFINE fs == PlayFields(p)
           M == MaxBytes
<1>1. M \in 2 .. 6
  BY MarginsAssumption
<1>2. \A n : VarintBounds(n) \in Nat /\ VarintBounds(n) <= M
  BY <1>1, BoundsRange
<1> HIDE DEF M
<1>3. CASE p.kind = "DISCONNECT"
  <2>1. fs = <<Id, String(p.text)>> /\ PlayBounds(p) = 10 + p.text
    BY <1>3 DEF PlayFields, PlayBounds
  <2>2. p.text \in Nat
    BY <1>3, LengthsAssumption DEF PlayOut
  <2> HIDE DEF fs
  <2>3. /\ fs \in Seq(Field) /\ Len(fs) = 2 /\ fs[1].size = 1
        /\ fs[2].size = VarintBounds(p.text) + p.text
    BY <2>1, <2>2, FieldsAre
  <2>4. FieldBytes(fs) = 1 + (VarintBounds(p.text) + p.text)
    BY <2>3, BytesTwo
  <2> QED BY <1>1, <1>2, <2>1, <2>2, <2>3, <2>4 DEF fs
<1>4. CASE p.kind = "KEEP_ALIVE"
  <2>1. fs = <<Id, Varint(p.number)>> /\ PlayBounds(p) = 10
    BY <1>4 DEF PlayFields, PlayBounds
  <2> HIDE DEF fs
  <2>2. /\ fs \in Seq(Field) /\ Len(fs) = 2 /\ fs[1].size = 1
        /\ fs[2].size = VarintBounds(p.number)
    BY <2>1, FieldsAre
  <2>3. FieldBytes(fs) = 1 + VarintBounds(p.number)
    BY <2>2, BytesTwo
  <2> QED BY <1>1, <1>2, <2>1, <2>2, <2>3 DEF fs
<1>5. CASE p.kind = "JOIN_GAME"
  <2>1. /\ fs = <<Id, Raw(4), Raw(1), Raw(4), Raw(1), Raw(1), String(p.text), Raw(1)>>
        /\ PlayBounds(p) = 33
    BY <1>5 DEF PlayFields, PlayBounds
  <2>2. p.text \in Nat /\ p.text <= 11
    BY <1>5, LengthsAssumption DEF PlayOut
  <2> HIDE DEF fs
  <2>3. /\ fs \in Seq(Field) /\ Len(fs) = 8
        /\ fs[1] = Id /\ fs[2] = Raw(4) /\ fs[3] = Raw(1) /\ fs[4] = Raw(4)
        /\ fs[5] = Raw(1) /\ fs[6] = Raw(1) /\ fs[7] = String(p.text) /\ fs[8] = Raw(1)
    BY <2>1, <2>2, FieldsAre
  <2>4. /\ fs[1].size = 1 /\ fs[2].size = 4 /\ fs[3].size = 1 /\ fs[4].size = 4
        /\ fs[5].size = 1 /\ fs[6].size = 1 /\ fs[8].size = 1
        /\ fs[7].size = VarintBounds(p.text) + p.text
    BY <2>2, <2>3, FieldsAre
  <2>5. FieldBytes(fs) = 1 + (4 + (1 + (4 + (1 + (1 + ((VarintBounds(p.text) + p.text) + 1))))))
    BY <2>3, <2>4, BytesEight
  <2> QED BY <1>1, <1>2, <2>1, <2>2, <2>3, <2>5 DEF fs
<1>6. CASE p.kind = "PLUGIN_MESSAGE"
  <2>1. fs = <<Id, String(p.text), Raw(p.data)>> /\ PlayBounds(p) = 10 + p.text + p.data
    BY <1>6 DEF PlayFields, PlayBounds
  <2>2. p.text \in Nat /\ p.data \in Nat
    BY <1>6, LengthsAssumption DEF PlayOut
  <2> HIDE DEF fs
  <2>3. /\ fs \in Seq(Field) /\ Len(fs) = 3 /\ fs[1].size = 1
        /\ fs[2].size = VarintBounds(p.text) + p.text /\ fs[3].size = p.data
    BY <2>1, <2>2, FieldsAre
  <2>4. FieldBytes(fs) = 1 + ((VarintBounds(p.text) + p.text) + p.data)
    BY <2>3, BytesThree
  <2> QED BY <1>1, <1>2, <2>1, <2>2, <2>3, <2>4 DEF fs
<1>7. CASE p.kind = "SPAWN_POSITION"
  <2>1. fs = <<Id, Raw(8)>> /\ PlayBounds(p) = M + 8
    BY <1>7 DEF PlayFields, PlayBounds, M
  <2> HIDE DEF fs
  <2>2. /\ fs \in Seq(Field) /\ Len(fs) = 2 /\ fs[1].size = 1 /\ fs[2].size = 8
    BY <2>1, FieldsAre
  <2>3. FieldBytes(fs) = 9
    BY <2>2, BytesTwo
  <2> QED BY <1>1, <2>1, <2>2, <2>3 DEF fs
<1>8. CASE p.kind = "PLAYER_ABILITIES"
  <2>1. fs = <<Id, Raw(1), Raw(4), Raw(4)>> /\ PlayBounds(p) = M + 1 + 4 + 4
    BY <1>8 DEF PlayFields, PlayBounds, M
  <2> HIDE DEF fs
  <2>2. /\ fs \in Seq(Field) /\ Len(fs) = 4 /\ fs[1].size = 1 /\ fs[2].size = 1
        /\ fs[3].size = 4 /\ fs[4].size = 4
    BY <2>1, FieldsAre
  <2>3. FieldBytes(fs) = 10
    BY <2>2, BytesFour
  <2> QED BY <1>1, <2>1, <2>2, <2>3 DEF fs
<1>9. CASE p.kind = "PLAYER_POSITION_AND_LOOK"
  <2>1. /\ fs = <<Id, Raw(8), Raw(8), Raw(8), Raw(4), Raw(4), Raw(1), Varint(p.number)>>
        /\ PlayBounds(p) = M + 8 * 3 + 4 * 2 + 1 + M
    BY <1>9 DEF PlayFields, PlayBounds, M
  <2> HIDE DEF fs
  <2>2. /\ fs \in Seq(Field) /\ Len(fs) = 8
        /\ fs[1] = Id /\ fs[2] = Raw(8) /\ fs[3] = Raw(8) /\ fs[4] = Raw(8)
        /\ fs[5] = Raw(4) /\ fs[6] = Raw(4) /\ fs[7] = Raw(1) /\ fs[8] = Varint(p.number)
    BY <2>1, FieldsAre
  <2>3. /\ fs[1].size = 1 /\ fs[2].size = 8 /\ fs[3].size = 8 /\ fs[4].size = 8
        /\ fs[5].size = 4 /\ fs[6].size = 4 /\ fs[7].size = 1
        /\ fs[8].size = VarintBounds(p.number)
    BY <2>2, FieldsAre
  <2>4. FieldBytes(fs) = 1 + (8 + (8 + (8 + (4 + (4 + (1 + VarintBounds(p.number)))))))
    BY <2>2, <2>3, BytesEight
  <2> QED BY <1>1, <1>2, <2>1, <2>2, <2>4 DEF fs
<1> QED BY <1>3, <1>4, <1>5, <1>6, <1>7, <1>8, <1>9 DEF PlayOut, ChunkPackets

\* The packets the server sends: a join names one of the level types.
Sent == {p \in EarlyOut \cup PlayOut : p.kind = "JOIN_GAME" => p.text <= 11}

LEMMA PacketBytes ==
  ASSUME NEW p \in Sent
  PROVE  /\ PacketFields(p) \in Seq(Field) /\ PacketBounds(p) \in Nat
         /\ FieldBytes(PacketFields(p)) <= PacketBounds(p)
         /\ p.kind = "CHUNK_DATA" => p \in ChunkPackets /\ PacketFields(p) = ChunkFields(p)
<1>1. CASE p \in EarlyOut
  <2>1. p.kind # "CHUNK_DATA"
    BY <1>1 DEF EarlyOut
  <2> QED BY <1>1, <2>1, EarlyBytes DEF PacketFields, PacketBounds
<1>2. CASE p \notin EarlyOut
  <2>1. p \in PlayOut /\ (p.kind = "JOIN_GAME" => p.text <= 11)
    BY <1>2 DEF Sent
  <2>2. CASE p.kind = "CHUNK_DATA"
    <3>1. p \in ChunkPackets
      BY <2>1, <2>2 DEF ChunkPackets
    <3>2. PacketFields(p) = ChunkFields(p) /\ PacketBounds(p) = PlayBounds(p)
      BY <1>2, <2>2 DEF PacketFields, PacketBounds
    <3> DEFINE M == MaxBytes
               vm == VarintBounds(p.mask)
               vd == VarintBounds(DataSize(p))
               size == DataSize(p)
    <3>3. PlayBounds(p) = 4 + 4 + 1 + M + M + size + M
      BY <2>2 DEF PlayBounds
    <3>4. M \in 2 .. 6 /\ vm \in 1 .. M /\ vd \in 1 .. M
      BY MarginsAssumption, BoundsRange
    <3>5. /\ ChunkFields(p) \in Seq(Field) /\ size \in Nat
          /\ FieldBytes(ChunkFields(p)) <= 1 + 4 + 4 + 1 + (vm + vd + size + 1)
          /\ FieldBytes(ChunkFields(p)) \in Nat
      BY <3>1, ChunkBytes, SizesAre
    <3> HIDE DEF M, vm, vd, size
    <3>6. PlayBounds(p) \in Nat /\ FieldBytes(ChunkFields(p)) <= PlayBounds(p)
      BY <3>3, <3>4, <3>5
    <3> QED BY <3>1, <3>2, <3>5, <3>6
  <2>3. CASE p.kind # "CHUNK_DATA"
    <3>1. p \in PlayOut \ ChunkPackets
      BY <2>1, <2>3 DEF ChunkPackets
    <3>2. PacketFields(p) = PlayFields(p) /\ PacketBounds(p) = PlayBounds(p)
      BY <1>2, <2>3 DEF PacketFields, PacketBounds
    <3> QED BY <2>1, <2>3, <3>1, <3>2, PlayBytes
  <2> QED BY <2>2, <2>3
<1> QED BY <1>1, <1>2

-----------------------------------------------------------------------------
(* mcpr_connection_write_packet: what is written and what is still to be   *)
(* written are the packet.                                                 *)

FieldsPlanned ==
  encoder_at # "bounds" => bufpointer + FieldBytes(fields) = FieldBytes(PacketFields(packet))

Allocated ==
  encoder_at # "bounds" /\ ~unsized => required_size = MaxBytes + PacketBounds(packet)

EncoderInv ==
  /\ EncoderTypeOK /\ packet \in Sent /\ fields \in Seq(Field)
  /\ FieldsPlanned /\ Allocated
  /\ encoder_at = "bounds" => bufpointer = 0
  /\ encoder_at = "written" => fields = <<>>

LEMMA EncoderInvInit == EncoderInit => EncoderInv
<1> SUFFICES ASSUME EncoderInit PROVE EncoderInv
  OBVIOUS
<1>1. packet \in Sent
  BY DEF EncoderInit, Sent
<1>2. fields \in Seq(Field)
  BY EmptySeq DEF EncoderInit
<1> QED BY <1>1, <1>2 DEF EncoderInit, EncoderInv, EncoderTypeOK, FieldsPlanned, Allocated

LEMMA AskBoundsStep == ASSUME EncoderInv, AskBounds PROVE EncoderInv'
<1>1. /\ packet \in Sent /\ bufpointer = 0 /\ UNCHANGED <<packet, bufpointer>>
      /\ encoder_at' \in {"encode", "failed"}
      /\ unsized' \in BOOLEAN /\ fields' = PacketFields(packet)
      /\ required_size' = MaxBytes + IF unsized' THEN 0 ELSE PacketBounds(packet)
  BY DEF EncoderInv, AskBounds
<1>2. /\ PacketFields(packet) \in Seq(Field) /\ PacketBounds(packet) \in Nat
      /\ FieldBytes(PacketFields(packet)) \in Nat
  BY <1>1, PacketBytes, SizesAre
<1>3. required_size' \in Nat
  BY <1>1, <1>2, MaxBytesAssumption
<1>4. EncoderTypeOK'
  BY <1>1, <1>3 DEF EncoderTypeOK
<1>5. FieldsPlanned'
  BY <1>1, <1>2 DEF FieldsPlanned
<1>6. Allocated'
  BY <1>1 DEF Allocated
<1> QED BY <1>1, <1>2, <1>4, <1>5, <1>6 DEF EncoderInv

LEMMA WriteFieldStep == ASSUME EncoderInv, WriteField PROVE EncoderInv'
<1>1. /\ fields \in Seq(Field) /\ fields # <<>> /\ packet \in Sent /\ encoder_at = "encode"
      /\ bufpointer \in Nat
      /\ bufpointer' = bufpointer + Head(fields).size /\ fields' = Tail(fields)
      /\ UNCHANGED <<encoder_at, packet, unsized, required_size>>
  BY DEF EncoderInv, EncoderTypeOK, WriteField
<1>2. /\ FieldBytes(fields) = Head(fields).size + FieldBytes(Tail(fields))
      /\ Head(fields) \in Field /\ Tail(fields) \in Seq(Field) /\ FieldBytes(Tail(fields)) \in Nat
  BY <1>1, BytesHead
<1>3. Head(fields).size \in Nat
  BY <1>2 DEF Field
<1>4. bufpointer' \in Nat
  BY <1>1, <1>3
<1>5. EncoderTypeOK'
  BY <1>1, <1>4 DEF EncoderInv, EncoderTypeOK
<1>6. bufpointer' + FieldBytes(fields') = bufpointer + FieldBytes(fields)
  BY <1>1, <1>2, <1>3
<1>7. FieldsPlanned'
  BY <1>1, <1>6 DEF EncoderInv, FieldsPlanned
<1>8. Allocated'
  BY <1>1 DEF EncoderInv, Allocated
<1> QED BY <1>1, <1>2, <1>5, <1>7, <1>8 DEF EncoderInv

\* The steps that write nothing.
LEMMA EncoderQuietStep ==
  ASSUME EncoderInv, RefuseChannel \/ WriteFails \/ WritePrefix \/ UNCHANGED encoderVars
  PROVE  EncoderInv'
<1>1. /\ UNCHANGED <<packet, unsized, required_size, fields, bufpointer>>
      /\ encoder_at' \in {"bounds", "encode", "written", "failed", "aborted"}
      /\ encoder_at = "bounds" <=> encoder_at' = "bounds"
      /\ encoder_at' = "written" => fields = <<>>
  BY DEF EncoderInv, EncoderTypeOK, RefuseChannel, WriteFails, WritePrefix, encoderVars
<1>2. EncoderTypeOK' /\ FieldsPlanned' /\ Allocated'
  BY <1>1 DEF EncoderInv, EncoderTypeOK, FieldsPlanned, Allocated
<1> QED BY <1>1, <1>2 DEF EncoderInv

LEMMA EncoderInvAlways == EncoderSpec => []EncoderInv
<1>1. EncoderInv /\ [EncoderNext]_encoderVars => EncoderInv'
  BY AskBoundsStep, WriteFieldStep, EncoderQuietStep DEF EncoderNext
<1> QED BY <1>1, EncoderInvInit, PTL DEF EncoderSpec

\* For every packet the server sends, whatever the lengths of its strings and arrays, its numbers
\* and the sections of its chunk: mcpr_encode_packet writes into what mcpr_encode_packet_bounds
\* had mcpr_connection_write_packet allocate, and a chunk is announced with its size.
THEOREM FrameCorrect == EncoderSpec => []FrameExact
<1>1. EncoderInv => FrameExact
  <2> SUFFICES ASSUME EncoderInv PROVE FrameExact
    OBVIOUS
  <2> DEFINE all == FieldBytes(PacketFields(packet))
  <2>1. /\ packet \in Sent /\ fields \in Seq(Field) /\ bufpointer \in Nat
        /\ FieldBytes(fields) \in Nat /\ all \in Nat /\ PacketBounds(packet) \in Nat
        /\ all <= PacketBounds(packet)
    BY PacketBytes, SizesAre DEF EncoderInv, EncoderTypeOK
  <2>2. encoder_at # "bounds" => bufpointer + FieldBytes(fields) = all
    BY DEF EncoderInv, FieldsPlanned
  <2> HIDE DEF all
  <2>3. ASSUME ~unsized, encoder_at # "bounds" PROVE MaxBytes + bufpointer <= required_size
    <3>1. required_size = MaxBytes + PacketBounds(packet)
      BY <2>3 DEF EncoderInv, Allocated
    <3>2. bufpointer <= PacketBounds(packet)
      BY <2>1, <2>2, <2>3
    <3> QED BY <2>1, <3>1, <3>2, MaxBytesAssumption
  <2>4. ASSUME encoder_at = "written", packet.kind = "CHUNK_DATA",
               \A j \in DOMAIN packet.sections : packet.sections[j].palette = <<>>
        PROVE  bufpointer = 1 + 4 + 4 + 1 + VarintBounds(packet.mask)
                 + VarintBounds(DataSize(packet)) + DataSize(packet) + 1
    <3>1. packet \in ChunkPackets /\ PacketFields(packet) = ChunkFields(packet)
      BY <2>1, <2>4, PacketBytes
    <3>2. NoPalettes(packet)
      BY <2>4 DEF NoPalettes
    <3> DEFINE vm == VarintBounds(packet.mask)
               vd == VarintBounds(DataSize(packet))
               size == DataSize(packet)
    <3>3. all = 1 + 4 + 4 + 1 + (vm + vd + size + 1) /\ size \in Nat
      BY <3>1, <3>2, ChunkBytes DEF all
    <3>4. vm \in Nat /\ vd \in Nat
      BY BoundsRange, MaxBytesAssumption
    <3>5. bufpointer = all
      <4>1. FieldBytes(fields) = 0
        BY <2>4, FieldBytesNone DEF EncoderInv
      <4> QED BY <2>1, <2>2, <2>4, <4>1
    <3> HIDE DEF vm, vd, size
    <3>6. bufpointer = 1 + 4 + 4 + 1 + vm + vd + size + 1
      BY <3>3, <3>4, <3>5
    <3> QED BY <3>6 DEF vm, vd, size
  <2> QED BY <2>3, <2>4 DEF FrameExact
<1> QED BY <1>1, EncoderInvAlways, PTL

-----------------------------------------------------------------------------
(* mcpr_decode_packet: the fields of a client's packet, and the bytes they *)
(* take.                                                                   *)

InField ==
  [op : {"fixed", "number", "counted", "choice", "remainder"}, width : Nat, length : Nat,
   fails : {"freed", "zero"}]

Takes(fs) == SumOf([j \in DOMAIN fs |-> fs[j].width + fs[j].length])

LEMMA TakesNone == Takes(<<>>) = 0
<1>1. [j \in DOMAIN <<>> |-> <<>>[j].width + <<>>[j].length] = <<>>
  OBVIOUS
<1> QED BY <1>1, SumEmpty DEF Takes

LEMMA TakesHead ==
  ASSUME NEW fs \in Seq(InField), fs # <<>>
  PROVE  /\ Head(fs) \in InField /\ Head(fs) = fs[1] /\ Head(fs).width \in Nat /\ Head(fs).length \in Nat
         /\ Tail(fs) \in Seq(InField) /\ Len(Tail(fs)) = Len(fs) - 1 /\ Len(fs) \in Nat \ {0}
         /\ \A j \in 1 .. Len(fs) - 1 : Tail(fs)[j] = fs[j + 1]
         /\ Takes(fs) = (Head(fs).width + Head(fs).length) + Takes(Tail(fs))
         /\ Takes(Tail(fs)) \in Nat
<1> DEFINE t == Tail(fs)
           l == Len(fs)
           z == [j \in DOMAIN fs |-> fs[j].width + fs[j].length]
           y == [j \in DOMAIN t |-> t[j].width + t[j].length]
<1>1. l \in Nat \ {0} /\ DOMAIN fs = 1 .. l /\ \A j \in 1 .. l : fs[j] \in InField
  BY EmptySeq, LenProperties, ElementOfSeq
<1>2. /\ t \in Seq(InField) /\ Len(t) = l - 1 /\ DOMAIN t = 1 .. l - 1
      /\ \A j \in 1 .. l - 1 : t[j] = fs[j + 1]
  BY HeadTailProperties, LenProperties
<1>3. Head(fs) \in InField /\ Head(fs) = fs[1]
  BY HeadTailProperties
<1>4. \A j \in 1 .. l : fs[j].width \in Nat /\ fs[j].length \in Nat
  BY <1>1 DEF InField
<1> HIDE DEF t, l
<1>5. /\ z \in Seq(Nat) /\ Len(z) = l
      /\ \A j \in 1 .. l : z[j] = fs[j].width + fs[j].length
  <2>1. /\ z \in [1 .. l -> Nat]
        /\ \A j \in 1 .. l : z[j] = fs[j].width + fs[j].length
    BY <1>1, <1>4
  <2> HIDE DEF z
  <2> QED BY <1>1, <2>1
<1>6. /\ y \in Seq(Nat) /\ Len(y) = l - 1
      /\ \A j \in 1 .. l - 1 : y[j] = fs[j + 1].width + fs[j + 1].length
  <2>1. /\ y \in [1 .. l - 1 -> Nat] /\ l - 1 \in Nat
        /\ \A j \in 1 .. l - 1 : y[j] = fs[j + 1].width + fs[j + 1].length
    BY <1>1, <1>2, <1>4
  <2> HIDE DEF y
  <2> QED BY <2>1
<1> HIDE DEF z, y
<1>7. z # <<>> /\ Head(z) = z[1] /\ Tail(z) = y
  <2>1. z # <<>>
    BY <1>1, <1>5, EmptySeq
  <2>2. Tail(z) \in Seq(Nat) /\ Len(Tail(z)) = l - 1 /\ \A j \in 1 .. l - 1 : Tail(z)[j] = z[j + 1]
    BY <1>5, <2>1, HeadTailProperties
  <2>3. \A j \in 1 .. l - 1 : Tail(z)[j] = y[j]
    BY <1>1, <1>5, <1>6, <2>2
  <2> QED BY <1>6, <2>1, <2>2, <2>3, SeqEqual
<1>8. SumOf(z) = z[1] + SumOf(y) /\ SumOf(y) \in Nat
  BY <1>5, <1>7, SumHead
<1>9. z[1] = fs[1].width + fs[1].length /\ fs[1].width \in Nat /\ fs[1].length \in Nat
  BY <1>1, <1>4, <1>5
<1>10. Takes(fs) = SumOf(z) /\ Takes(t) = SumOf(y)
  BY Zenon DEF Takes, z, y
<1> QED BY <1>1, <1>2, <1>3, <1>8, <1>9, <1>10 DEF t, l

LEMMA TakesNat == ASSUME NEW fs \in Seq(InField) PROVE Takes(fs) \in Nat
<1>1. CASE fs = <<>>
  BY <1>1, TakesNone
<1>2. CASE fs # <<>>
  <2>1. /\ Head(fs).width \in Nat /\ Head(fs).length \in Nat /\ Takes(Tail(fs)) \in Nat
        /\ Takes(fs) = (Head(fs).width + Head(fs).length) + Takes(Tail(fs))
    BY <1>2, TakesHead
  <2> QED BY <2>1
<1> QED BY <1>1, <1>2

LEMMA InFieldsAre ==
  /\ \A n \in Nat : Fixed(n) \in InField /\ Fixed(n).op = "fixed"
  /\ \A n : Number(n) \in InField /\ Number(n).op = "number"
  /\ \A n \in Nat : /\ Counted(n) \in InField /\ Counted(n).op = "counted"
                    /\ Counted(n).width = VarintBounds(n) /\ Counted(n).length = n
  /\ Choice \in InField /\ Choice.op = "choice"
  /\ \A n \in Nat : Remainder(n) \in InField
  /\ [Fixed(2) EXCEPT !.fails = "zero"] \in InField
  /\ [Fixed(2) EXCEPT !.fails = "zero"].op = "fixed"
  /\ [Choice EXCEPT !.fails = "zero"] \in InField
  /\ [Choice EXCEPT !.fails = "zero"].op = "choice"
<1>1. \A n : VarintBounds(n) \in Nat
  BY BoundsRange, MaxBytesAssumption
<1>2. \A n \in Nat : Fixed(n) \in InField /\ Fixed(n).op = "fixed"
  BY DEF Fixed, InField
<1>3. \A n : Number(n) \in InField /\ Number(n).op = "number"
  BY <1>1 DEF Number, InField
<1>4. \A n \in Nat : /\ Counted(n) \in InField /\ Counted(n).op = "counted"
                     /\ Counted(n).width = VarintBounds(n) /\ Counted(n).length = n
  BY <1>1 DEF Counted, InField
<1>5. Choice \in InField /\ Choice.op = "choice"
  BY DEF Choice, InField
<1>6. \A n \in Nat : Remainder(n) \in InField
  BY DEF Remainder, InField
<1>7. /\ [Fixed(2) EXCEPT !.fails = "zero"] \in InField
      /\ [Fixed(2) EXCEPT !.fails = "zero"].op = "fixed"
  BY DEF Fixed, InField
<1>8. /\ [Choice EXCEPT !.fails = "zero"] \in InField
      /\ [Choice EXCEPT !.fails = "zero"].op = "choice"
  BY DEF Choice, InField
<1> QED BY <1>2, <1>3, <1>4, <1>5, <1>6, <1>7, <1>8

\* The rest of a frame can only be its last field, and a secret comes with a token.
WellMade(p, fs) ==
  /\ fs \in Seq(InField)
  /\ \A j \in 1 .. Len(fs) : fs[j].op = "remainder" => j = Len(fs)
  /\ p.kind = "ENCRYPTION_RESPONSE" => Len(fs) = 2 /\ fs[2] = Counted(p.token)

EarlyKinds == {"REQUEST", "PING", "HANDSHAKE", "LOGIN_START", "ENCRYPTION_RESPONSE"}

LEMMA EarlyInMade ==
  ASSUME NEW p \in EarlyIn
  PROVE  WellMade(p, IncomingFields(p)) /\ p.kind \in EarlyKinds
<1>2. p.kind \in EarlyKinds
  BY DEF EarlyIn, EarlyKinds
<1>1. IncomingFields(p) = EarlyInFields(p)
  BY <1>2 DEF IncomingFields, EarlyKinds
<1>3. p.kind \in {"HANDSHAKE", "LOGIN_START"} => p.text \in Nat
  BY InLengthsAssumption DEF EarlyIn
<1>4. p.kind = "ENCRYPTION_RESPONSE" => p.secret \in Nat /\ p.token \in Nat
  BY InLengthsAssumption DEF EarlyIn
<1>5. CASE p.kind = "HANDSHAKE"
  <2> DEFINE a == Number(p.number)
             b == Counted(p.text)
             c == [Fixed(2) EXCEPT !.fails = "zero"]
             d == [Choice EXCEPT !.fails = "zero"]
  <2>1. EarlyInFields(p) = <<a, b, c, d>>
    BY <1>5 DEF EarlyInFields
  <2>2. /\ a \in InField /\ b \in InField /\ c \in InField /\ d \in InField
        /\ a.op # "remainder" /\ b.op # "remainder" /\ c.op # "remainder" /\ d.op # "remainder"
    <3>1. /\ a \in InField /\ b \in InField /\ c \in InField /\ d \in InField
          /\ a.op = "number" /\ b.op = "counted" /\ c.op = "fixed" /\ d.op = "choice"
      BY <1>3, <1>5, InFieldsAre
    <3> HIDE DEF a, b, c, d
    <3> QED BY <3>1
  <2> HIDE DEF a, b, c, d
  <2> QED BY <1>1, <1>2, <1>5, <2>1, <2>2 DEF WellMade
<1>6. CASE p.kind = "LOGIN_START"
  <2> DEFINE a == Counted(p.text)
  <2>1. EarlyInFields(p) = <<a>>
    BY <1>6 DEF EarlyInFields
  <2>2. a \in InField
    BY <1>3, <1>6, InFieldsAre
  <2> HIDE DEF a
  <2> QED BY <1>1, <1>2, <1>6, <2>1, <2>2 DEF WellMade
<1>7. CASE p.kind = "ENCRYPTION_RESPONSE"
  <2> DEFINE a == Counted(p.secret)
             b == Counted(p.token)
  <2>1. EarlyInFields(p) = <<a, b>>
    BY <1>7 DEF EarlyInFields
  <2>2. a \in InField /\ b \in InField /\ a.op = "counted" /\ b.op = "counted"
    BY <1>4, <1>7, InFieldsAre
  <2>3. b = Counted(p.token)
    OBVIOUS
  <2> HIDE DEF a, b
  <2> QED BY <1>1, <1>2, <2>1, <2>2, <2>3 DEF WellMade
<1>8. CASE p.kind = "PING"
  <2> DEFINE a == Fixed(8)
  <2>1. EarlyInFields(p) = <<a>>
    BY <1>8 DEF EarlyInFields
  <2>2. a \in InField
    BY InFieldsAre
  <2> HIDE DEF a
  <2> QED BY <1>1, <1>2, <1>8, <2>1, <2>2 DEF WellMade
<1>9. CASE p.kind = "REQUEST"
  <2>1. EarlyInFields(p) = <<>>
    BY <1>9 DEF EarlyInFields
  <2> QED BY <1>1, <1>2, <1>9, <2>1 DEF WellMade
<1> QED BY <1>2, <1>5, <1>6, <1>7, <1>8, <1>9 DEF EarlyKinds

PlayKinds ==
  {"UNKNOWN", "UNDECODED", "POSITION", "POSITION_AND_LOOK", "LOOK", "HELD_ITEM", "CHAT",
   "CLIENT_SETTINGS", "KEEP_ALIVE", "TELEPORT_CONFIRM", "PLUGIN_MESSAGE"}

\* Fields that say how long they are, all of them.
Plain(fs) == fs \in Seq(InField) /\ \A j \in 1 .. Len(fs) : fs[j].op # "remainder"

LEMMA PlayFieldsMade ==
  /\ \A n \in Nat : Plain(<<Counted(n)>>)
  /\ \A n : Plain(<<Number(n)>>)
  /\ \A n \in Nat : Plain(<<Counted(n), Fixed(1), Choice, Fixed(1), Fixed(1), Choice>>)
  /\ Plain(<<Fixed(8), Fixed(8), Fixed(8), Fixed(1)>>)
  /\ Plain(<<Fixed(8), Fixed(8), Fixed(8), Fixed(4), Fixed(4), Fixed(1)>>)
  /\ Plain(<<Fixed(4), Fixed(4), Fixed(1)>>)
  /\ Plain(<<Fixed(2)>>)
  /\ Plain(<<>>)
<1> DEFINE Told == {f \in InField : f.op # "remainder"}
<1>1. ASSUME NEW fs \in Seq(Told) PROVE Plain(fs)
  <2>1. \A j \in 1 .. Len(fs) : fs[j] \in Told
    BY ElementOfSeq
  <2>2. fs \in Seq(InField)
    BY <2>1, LenProperties
  <2> QED BY <2>1, <2>2 DEF Plain
<1>2. /\ \A n \in Nat : Counted(n) \in Told
      /\ \A n : Number(n) \in Told
      /\ Fixed(1) \in Told /\ Fixed(2) \in Told /\ Fixed(4) \in Told /\ Fixed(8) \in Told
      /\ Choice \in Told
  <2>1. \A n \in Nat : Counted(n) \in Told
    BY InFieldsAre
  <2>2. \A n : Number(n) \in Told
    BY InFieldsAre
  <2>3. \A n \in Nat : Fixed(n) \in Told
    BY InFieldsAre
  <2>4. Choice \in Told
    BY InFieldsAre
  <2> HIDE DEF Told
  <2> QED BY <2>1, <2>2, <2>3, <2>4
<1> HIDE DEF Told
<1>3. \A n \in Nat : <<Counted(n)>> \in Seq(Told)
  BY <1>2
<1>4. \A n : <<Number(n)>> \in Seq(Told)
  BY <1>2
<1>5. ASSUME NEW n \in Nat
      PROVE  <<Counted(n), Fixed(1), Choice, Fixed(1), Fixed(1), Choice>> \in Seq(Told)
  BY <1>2
<1>6. /\ <<Fixed(8), Fixed(8), Fixed(8), Fixed(1)>> \in Seq(Told)
      /\ <<Fixed(8), Fixed(8), Fixed(8), Fixed(4), Fixed(4), Fixed(1)>> \in Seq(Told)
      /\ <<Fixed(4), Fixed(4), Fixed(1)>> \in Seq(Told)
      /\ <<Fixed(2)>> \in Seq(Told)
      /\ <<>> \in Seq(Told)
  BY <1>2
<1> QED BY <1>1, <1>3, <1>4, <1>5, <1>6

LEMMA PlayInMade ==
  ASSUME NEW p \in PlayIn
  PROVE  WellMade(p, IncomingFields(p))
<1>1. p.kind \in PlayKinds
  BY DEF PlayIn, PlayKinds
<1>2. p \notin EarlyIn
  BY <1>1, EarlyInMade DEF PlayKinds, EarlyKinds
<1>3. p.kind \in {"CHAT", "CLIENT_SETTINGS", "PLUGIN_MESSAGE"} => p.text \in Nat
  BY InLengthsAssumption DEF PlayIn
<1>4. p.kind = "PLUGIN_MESSAGE" => p.data \in Nat
  BY InLengthsAssumption DEF PlayIn
<1>5. ASSUME Plain(IncomingFields(p)) PROVE WellMade(p, IncomingFields(p))
  BY <1>1, <1>5 DEF Plain, WellMade, PlayKinds
<1>6. CASE p.kind = "CHAT"
  <2>1. IncomingFields(p) = <<Counted(p.text)>>
    BY <1>2, <1>6 DEF IncomingFields
  <2> QED BY <1>3, <1>5, <1>6, <2>1, PlayFieldsMade
<1>7. CASE p.kind = "CLIENT_SETTINGS"
  <2>1. IncomingFields(p) = SettingsFields(p)
    BY <1>2, <1>7 DEF IncomingFields
  <2> QED BY <1>3, <1>5, <1>7, <2>1, PlayFieldsMade DEF SettingsFields
<1>8. CASE p.kind = "PLUGIN_MESSAGE"
  <2> DEFINE a == Counted(p.text)
             b == Remainder(p.data)
  <2>1. IncomingFields(p) = <<a, b>>
    BY <1>2, <1>8 DEF IncomingFields
  <2>2. a \in InField /\ b \in InField /\ a.op = "counted"
    BY <1>3, <1>4, <1>8, InFieldsAre
  <2> HIDE DEF a, b
  <2> QED BY <1>8, <2>1, <2>2 DEF WellMade
<1>9. CASE p.kind = "KEEP_ALIVE"
  <2>1. IncomingFields(p) = <<Number(p.number)>>
    BY <1>2, <1>9 DEF IncomingFields
  <2> QED BY <1>5, <2>1, PlayFieldsMade
<1>10. CASE p.kind \in {"UNKNOWN", "UNDECODED"}
  <2>1. IncomingFields(p) = <<>>
    BY <1>2, <1>10 DEF IncomingFields
  <2> QED BY <1>5, <2>1, PlayFieldsMade
<1>11. CASE p.kind \in {"POSITION", "POSITION_AND_LOOK", "LOOK", "HELD_ITEM", "TELEPORT_CONFIRM"}
  <2>1. IncomingFields(p) = MoveFields(p)
    BY <1>2, <1>11 DEF IncomingFields
  <2>2. Plain(MoveFields(p))
    <3>1. CASE p.kind = "POSITION"
      BY <3>1, PlayFieldsMade DEF MoveFields
    <3>2. CASE p.kind = "POSITION_AND_LOOK"
      BY <3>2, PlayFieldsMade DEF MoveFields
    <3>3. CASE p.kind = "LOOK"
      BY <3>3, PlayFieldsMade DEF MoveFields
    <3>4. CASE p.kind = "HELD_ITEM"
      BY <3>4, PlayFieldsMade DEF MoveFields
    <3>5. CASE p.kind = "TELEPORT_CONFIRM"
      BY <3>5, PlayFieldsMade DEF MoveFields
    <3> QED BY <1>11, <3>1, <3>2, <3>3, <3>4, <3>5
  <2> QED BY <1>5, <2>1, <2>2
<1> QED BY <1>1, <1>6, <1>7, <1>8, <1>9, <1>10, <1>11 DEF PlayKinds

LEMMA FieldsMade ==
  ASSUME NEW p \in Incoming
  PROVE  /\ WellMade(p, IncomingFields(p)) /\ IncomingFields(p) \in Seq(InField)
         /\ FieldsSize(p) = 1 + Takes(IncomingFields(p))
<1>1. WellMade(p, IncomingFields(p))
  BY EarlyInMade, PlayInMade DEF Incoming
<1>2. FieldsSize(p) = 1 + Takes(IncomingFields(p))
  BY DEF FieldsSize, Takes
<1> QED BY <1>1, <1>2 DEF WellMade

-----------------------------------------------------------------------------
(* What is still to be read is the end of the packet's fields; and while   *)
(* the frame is as the protocol has it, exactly what they take is left.    *)

FieldsLeft ==
  LET all == IncomingFields(incoming) IN
  /\ todo \in Seq(InField)
  /\ Len(todo) <= Len(all)
  /\ \A j \in 1 .. Len(todo) : todo[j] = all[Len(all) - Len(todo) + j]

FrameLeft ==
  /\ ptr + len_left = maxlen
  /\ decoder_at = "id" => todo = IncomingFields(incoming) /\ ptr = 0 /\ touched = 0
  /\ decoder_at = "decoded" => todo = <<>>

HonestLeft ==
  Honest =>
    /\ ptr + Takes(todo) + (IF decoder_at = "id" THEN 1 ELSE 0) = maxlen
    /\ touched <= maxlen
    /\ decoder_at # "zero"

DecoderInv == DecoderTypeOK /\ FieldsLeft /\ FrameLeft /\ HonestLeft

\* The next field is the packet's field at its place.
LEMMA NextField ==
  ASSUME DecoderInv, todo # <<>>
  PROVE  /\ Head(todo) \in InField /\ Head(todo).width \in Nat /\ Head(todo).length \in Nat
         /\ Tail(todo) \in Seq(InField)
         /\ Takes(todo) = (Head(todo).width + Head(todo).length) + Takes(Tail(todo))
         /\ Takes(Tail(todo)) \in Nat
         /\ todo' = Tail(todo) /\ incoming' = incoming => FieldsLeft'
         /\ Head(todo).op = "remainder" => Tail(todo) = <<>>
         /\ Len(todo) = 1 /\ incoming.kind = "ENCRYPTION_RESPONSE" =>
              Head(todo) = Counted(incoming.token) /\ incoming.token \in Nat
<1> DEFINE all == IncomingFields(incoming)
           l == Len(todo)
           h == Head(todo)
           t == Tail(todo)
<1>1. /\ todo \in Seq(InField) /\ l <= Len(all) /\ \A j \in 1 .. l : todo[j] = all[Len(all) - l + j]
      /\ incoming \in Incoming
  BY DEF DecoderInv, FieldsLeft, DecoderTypeOK
<1>2. /\ all \in Seq(InField) /\ Len(all) \in Nat
      /\ \A j \in 1 .. Len(all) : all[j].op = "remainder" => j = Len(all)
      /\ incoming.kind = "ENCRYPTION_RESPONSE" => Len(all) = 2 /\ all[2] = Counted(incoming.token)
  BY <1>1, FieldsMade, LenProperties DEF WellMade
<1>3. /\ h \in InField /\ h = todo[1] /\ h.width \in Nat /\ h.length \in Nat
      /\ t \in Seq(InField) /\ Len(t) = l - 1 /\ l \in Nat \ {0}
      /\ \A j \in 1 .. l - 1 : t[j] = todo[j + 1]
      /\ Takes(todo) = (h.width + h.length) + Takes(t)
      /\ Takes(t) \in Nat
  BY <1>1, TakesHead
<1>4. h = all[Len(all) - l + 1]
  <2>1. 1 \in 1 .. l
    BY <1>3
  <2> QED BY <1>1, <1>3, <2>1
<1>5. ASSUME todo' = t, incoming' = incoming PROVE FieldsLeft'
  <2>1. IncomingFields(incoming)' = all
    BY <1>5
  <2>2. ASSUME NEW j \in 1 .. l - 1 PROVE t[j] = all[Len(all) - (l - 1) + j]
    <3> DEFINE n == Len(all)
    <3>1. t[j] = todo[j + 1] /\ j + 1 \in 1 .. l
      BY <1>3
    <3>2. todo[j + 1] = all[n - l + (j + 1)]
      BY <1>1, <3>1
    <3>3. n \in Nat /\ l \in Nat /\ j \in Nat
      BY <1>2, <1>3
    <3> HIDE DEF n, l, t
    <3>4. n - l + (j + 1) = n - (l - 1) + j
      BY <3>3
    <3> QED BY <3>1, <3>2, <3>4 DEF n
  <2>3. t \in Seq(InField) /\ Len(t) = l - 1 /\ l - 1 <= Len(all)
    BY <1>1, <1>2, <1>3
  <2>4. /\ todo' \in Seq(InField) /\ Len(todo') <= Len(all)
        /\ \A j \in 1 .. Len(todo') : todo'[j] = all[Len(all) - Len(todo') + j]
    BY <1>5, <2>2, <2>3
  <2> HIDE DEF all, l, t, h
  <2> QED BY <2>1, <2>4 DEF FieldsLeft
<1>6. ASSUME h.op = "remainder" PROVE t = <<>>
  <2>1. Len(all) - l + 1 \in 1 .. Len(all)
    BY <1>1, <1>2, <1>3
  <2>2. Len(all) - l + 1 = Len(all)
    BY <1>2, <1>4, <1>6, <2>1
  <2>3. Len(t) = 0
    BY <1>2, <1>3, <2>2
  <2> QED BY <1>3, <2>3, EmptySeq
<1>7. ASSUME l = 1, incoming.kind = "ENCRYPTION_RESPONSE"
      PROVE  h = Counted(incoming.token) /\ incoming.token \in Nat
  <2>1. Len(all) = 2 /\ all[2] = Counted(incoming.token)
    BY <1>2, <1>7
  <2>2. Len(all) - l + 1 = 2
    BY <1>7, <2>1
  <2>3. incoming.token \in Nat
    BY <1>1, <1>7, InLengthsAssumption DEF Incoming, EarlyIn, PlayIn
  <2> QED BY <1>4, <2>1, <2>2, <2>3
<1> QED BY <1>3, <1>5, <1>6, <1>7

LEMMA DecoderInvInit == DecoderInit => DecoderInv
<1> SUFFICES ASSUME DecoderInit PROVE DecoderInv
  OBVIOUS
<1> DEFINE all == IncomingFields(incoming)
<1>1. /\ incoming \in Incoming /\ todo = all /\ maxlen \in Nat \ {0}
      /\ decoder_at = "id" /\ ptr = 0 /\ len_left = maxlen /\ touched = 0
  BY DEF DecoderInit
<1>2. all \in Seq(InField) /\ FieldsSize(incoming) = 1 + Takes(all)
  BY <1>1, FieldsMade
<1>3. DecoderTypeOK
  BY <1>1 DEF DecoderTypeOK
<1>4. FieldsLeft
  <2>1. Len(all) \in Nat /\ \A j \in 1 .. Len(all) : Len(all) - Len(all) + j = j
    BY <1>2, LenProperties
  <2> HIDE DEF all
  <2>2. /\ todo \in Seq(InField) /\ Len(todo) <= Len(all)
        /\ \A j \in 1 .. Len(todo) : todo[j] = all[Len(all) - Len(todo) + j]
    BY <1>1, <1>2, <2>1
  <2> QED BY <2>2 DEF FieldsLeft, all
<1>5. FrameLeft
  BY <1>1 DEF FrameLeft
<1>6. HonestLeft
  <2>1. Takes(all) \in Nat
    BY <1>2, TakesNat
  <2>2. Honest => maxlen = 1 + Takes(all)
    BY <1>2 DEF Honest
  <2> QED BY <1>1, <2>1, <2>2 DEF HonestLeft
<1> QED BY <1>3, <1>4, <1>5, <1>6 DEF DecoderInv

LEMMA DecodeIdStep == ASSUME DecoderInv, DecodeId PROVE DecoderInv'
<1>1. /\ decoder_at = "id" /\ decoder_at' \in {"refused", "fields"}
      /\ ptr' = 1 /\ len_left' = len_left - 1 /\ touched' = 1
      /\ incoming' = incoming /\ maxlen' = maxlen /\ todo' = todo
  BY DEF DecodeId
<1>2. /\ DecoderTypeOK /\ FieldsLeft /\ ptr = 0 /\ ptr + len_left = maxlen
      /\ todo \in Seq(InField)
  BY <1>1 DEF DecoderInv, FrameLeft, FieldsLeft
<1>3. DecoderTypeOK'
  BY <1>1, <1>2 DEF DecoderTypeOK
<1>4. FieldsLeft'
  BY <1>1, <1>2 DEF FieldsLeft
<1>5. FrameLeft'
  BY <1>1, <1>2 DEF FrameLeft, DecoderTypeOK
<1>6. HonestLeft'
  <2>1. Honest' <=> Honest
    BY <1>1 DEF Honest
  <2>2. Takes(todo)' = Takes(todo) /\ Takes(todo) \in Nat
    BY <1>1, <1>2, TakesNat
  <2>3. Honest => 0 + Takes(todo) + 1 = maxlen
    BY <1>1, <1>2 DEF DecoderInv, HonestLeft
  <2> QED BY <1>1, <2>1, <2>2, <2>3 DEF HonestLeft
<1> QED BY <1>3, <1>4, <1>5, <1>6 DEF DecoderInv

LEMMA DecodeFieldStep == ASSUME DecoderInv, DecodeField PROVE DecoderInv'
<1> DEFINE f == Head(todo)
           take == Taken(f)
           w == f.width
           n == f.length
           rest == Takes(Tail(todo))
<1>1. /\ decoder_at = "fields" /\ decoder_at' = "fields" /\ todo # <<>>
      /\ f.op = "remainder" => len_left >= 0
      /\ ptr' = ptr + take /\ len_left' = len_left - take
      /\ touched' = (IF ptr + take > touched THEN ptr + take ELSE touched)
      /\ todo' = Tail(todo) /\ incoming' = incoming /\ maxlen' = maxlen
  BY DEF DecodeField
<1>2. /\ f \in InField /\ w \in Nat /\ n \in Nat /\ rest \in Nat
      /\ Takes(todo) = (w + n) + rest /\ FieldsLeft'
  BY <1>1, NextField
<1>3. /\ ptr \in Nat /\ len_left \in Int /\ touched \in Nat /\ maxlen \in Nat
      /\ ptr + len_left = maxlen /\ incoming \in Incoming
  BY DEF DecoderInv, FrameLeft, DecoderTypeOK
<1>4. take \in Nat
  <2>1. VarintBounds(incoming.secret) \in Nat
    BY BoundsRange, MaxBytesAssumption
  <2>2. take \in {len_left, VarintBounds(incoming.secret) + n, w + n}
    BY DEF Taken
  <2>3. f.op # "remainder" => take \in {VarintBounds(incoming.secret) + n, w + n}
    BY DEF Taken
  <2> HIDE DEF take, w, n
  <2> QED BY <1>1, <1>2, <1>3, <2>1, <2>2, <2>3
<1>5. ASSUME Honest
      PROVE  ptr + ((w + n) + rest) = maxlen /\ touched <= maxlen /\ take = w + n
  <2>1. ptr + ((w + n) + rest) = maxlen /\ touched <= maxlen
    BY <1>1, <1>2, <1>3, <1>5 DEF DecoderInv, HonestLeft
  <2>2. CASE f.op = "remainder"
    <3>1. rest = 0
      BY <1>1, <2>2, NextField, TakesNone
    <3>2. take = len_left
      BY <2>2 DEF Taken
    <3> HIDE DEF take, w, n, rest
    <3> QED BY <1>2, <1>3, <2>1, <3>1, <3>2
  <2>3. CASE f.op # "remainder" /\ incoming.kind = "ENCRYPTION_RESPONSE" /\ Len(todo) = 1
    <3>1. f = Counted(incoming.token) /\ incoming.token \in Nat
      BY <1>1, <2>3, NextField
    <3>2. w = VarintBounds(incoming.token)
      BY <3>1, InFieldsAre
    <3>3. incoming.secret = incoming.token
      BY <1>5, <2>3 DEF Honest
    <3>4. take = VarintBounds(incoming.secret) + n
      BY <2>3 DEF Taken
    <3> QED BY <2>1, <3>2, <3>3, <3>4
  <2>4. CASE f.op # "remainder" /\ ~ (incoming.kind = "ENCRYPTION_RESPONSE" /\ Len(todo) = 1)
    BY <2>1, <2>4 DEF Taken
  <2> QED BY <2>2, <2>3, <2>4
<1>6. Honest' <=> Honest
  BY <1>1 DEF Honest
<1>7. Takes(todo)' = rest
  BY <1>1
<1> HIDE DEF take, w, n, rest, f
<1>8. DecoderTypeOK'
  BY <1>1, <1>3, <1>4 DEF DecoderTypeOK
<1>9. FrameLeft'
  BY <1>1, <1>3, <1>4 DEF FrameLeft
<1>10. HonestLeft'
  <2>1. ASSUME Honest
        PROVE  ptr' + rest + 0 = maxlen' /\ touched' <= maxlen'
    BY <1>1, <1>2, <1>3, <1>4, <1>5, <2>1
  <2> QED BY <1>1, <1>6, <1>7, <2>1 DEF HonestLeft
<1> QED BY <1>2, <1>8, <1>9, <1>10 DEF DecoderInv

\* A frame as the protocol has it has room for every one of its fields.
LEMMA FieldCutStep == ASSUME DecoderInv, FieldCut PROVE DecoderInv'
<1> DEFINE f == Head(todo)
           w == f.width
           n == f.length
           rest == Takes(Tail(todo))
<1>1. /\ decoder_at = "fields" /\ todo # <<>> /\ ~FieldFits(f)
      /\ decoder_at' \in {"freed", f.fails}
      /\ touched' \in {ptr + len_left + 1, touched}
      /\ incoming' = incoming /\ maxlen' = maxlen /\ todo' = todo
      /\ ptr' = ptr /\ len_left' = len_left
  BY DEF FieldCut
<1>2. /\ f \in InField /\ w \in Nat /\ n \in Nat /\ rest \in Nat
      /\ Takes(todo) = (w + n) + rest
  BY <1>1, NextField
<1>3. /\ ptr \in Nat /\ len_left \in Int /\ touched \in Nat /\ maxlen \in Nat
      /\ ptr + len_left = maxlen /\ incoming \in Incoming
  BY DEF DecoderInv, FrameLeft, DecoderTypeOK
<1>4. decoder_at' \in {"freed", "zero"}
  BY <1>1, <1>2 DEF InField
<1>5. ~Honest
  <2> SUFFICES ASSUME Honest PROVE FALSE
    OBVIOUS
  <2>1. ptr + ((w + n) + rest) = maxlen
    BY <1>1, <1>2, <1>3 DEF DecoderInv, HonestLeft
  <2> HIDE DEF rest
  <2>2. len_left >= w /\ len_left >= n
    <3> HIDE DEF w, n, f
    <3> QED BY <1>2, <1>3, <2>1
  <2> QED BY <1>1, <2>2 DEF FieldFits, Fits
<1>6. Honest' <=> Honest
  BY <1>1 DEF Honest
<1> HIDE DEF f, w, n, rest
<1>7. DecoderTypeOK'
  BY <1>1, <1>3, <1>4 DEF DecoderTypeOK
<1>8. FieldsLeft'
  BY <1>1 DEF DecoderInv, FieldsLeft
<1>9. FrameLeft'
  BY <1>1, <1>3, <1>4 DEF FrameLeft
<1>10. HonestLeft'
  BY <1>5, <1>6 DEF HonestLeft
<1> QED BY <1>7, <1>8, <1>9, <1>10 DEF DecoderInv

LEMMA FieldRefusedStep ==
  ASSUME DecoderInv, FieldRejected \/ FieldNoMemory \/ DecodeEnds
  PROVE  DecoderInv'
<1>1. /\ decoder_at = "fields"
      /\ incoming' = incoming /\ maxlen' = maxlen /\ todo' = todo
      /\ ptr' = ptr /\ len_left' = len_left /\ touched' = touched
  BY DEF FieldRejected, FieldNoMemory, DecodeEnds
<1>2. /\ decoder_at' \in {"freed", "zero", "decoded"}
      /\ decoder_at' = "zero" => ~incoming.valid
      /\ decoder_at' = "decoded" => todo = <<>>
  <2>1. CASE FieldRejected
    <3>1. Head(todo) \in InField
      BY <2>1, NextField DEF FieldRejected
    <3> QED BY <2>1, <3>1 DEF FieldRejected, InField
  <2>2. CASE FieldNoMemory
    BY <2>2 DEF FieldNoMemory
  <2>3. CASE DecodeEnds
    BY <2>3 DEF DecodeEnds
  <2> QED BY <2>1, <2>2, <2>3
<1>3. DecoderTypeOK'
  BY <1>1, <1>2 DEF DecoderInv, DecoderTypeOK
<1>4. FieldsLeft'
  BY <1>1 DEF DecoderInv, FieldsLeft
<1>5. FrameLeft'
  BY <1>1, <1>2 DEF DecoderInv, FrameLeft
<1>6. HonestLeft'
  <2>1. Honest' <=> Honest
    BY <1>1 DEF Honest
  <2>2. Honest => incoming.valid
    BY DEF Honest
  <2>3. Honest => ptr + Takes(todo) + 0 = maxlen /\ touched <= maxlen
    BY <1>1 DEF DecoderInv, HonestLeft
  <2>4. Takes(todo)' = Takes(todo)
    BY <1>1
  <2> QED BY <1>1, <1>2, <2>1, <2>2, <2>3, <2>4 DEF HonestLeft
<1> QED BY <1>3, <1>4, <1>5, <1>6 DEF DecoderInv

LEMMA DecoderInvAlways == DecoderSpec => []DecoderInv
<1>1. ASSUME DecoderInv, UNCHANGED decoderVars PROVE DecoderInv'
  BY <1>1 DEF decoderVars, DecoderInv, DecoderTypeOK, FieldsLeft, FrameLeft, HonestLeft, Honest
<1>2. DecoderInv /\ [DecoderNext]_decoderVars => DecoderInv'
  BY <1>1, DecodeIdStep, DecodeFieldStep, FieldCutStep, FieldRefusedStep DEF DecoderNext
<1> QED BY <1>2, DecoderInvInit, PTL DEF DecoderSpec

\* Whatever the packet, the lengths it says and the numbers in it: mcpr_decode_packet reads what
\* an honest client sent to exactly the end of its frame, looks at nothing behind it, and never
\* returns 0 for it.
THEOREM ConsumesCorrect == DecoderSpec => []ConsumesFrame
<1>1. DecoderInv => ConsumesFrame
  <2> SUFFICES ASSUME DecoderInv, Honest
               PROVE  /\ touched <= maxlen /\ decoder_at # "zero"
                      /\ decoder_at = "decoded" => ptr = maxlen
    BY DEF ConsumesFrame
  <2>1. touched <= maxlen /\ decoder_at # "zero"
    BY DEF DecoderInv, HonestLeft
  <2>2. ASSUME decoder_at = "decoded" PROVE ptr = maxlen
    <3>1. Takes(todo) = 0
      BY <2>2, TakesNone DEF DecoderInv, FrameLeft
    <3>2. ptr + Takes(todo) + 0 = maxlen /\ ptr \in Nat
      BY <2>2 DEF DecoderInv, HonestLeft, DecoderTypeOK
    <3> QED BY <3>1, <3>2
  <2> QED BY <2>1, <2>2
<1> QED BY <1>1, DecoderInvAlways, PTL

\* The decoder stays within its states, and what is left of a frame is a number even where it
\* has gone below zero.
THEOREM DecoderTypeCorrect == DecoderSpec => []DecoderTypeOK
BY DecoderInvAlways, PTL DEF DecoderInv

\* The encoder stays within its states.
THEOREM EncoderTypeCorrect == EncoderSpec => []EncoderTypeOK
BY EncoderInvAlways, PTL DEF EncoderInv

\* The bytes of a number are bytes, and the decoder's i stays where it may index the buffer.
THEOREM CodecTypeCorrect == CodecSpec => []CodecTypeOK
BY CodecInvAlways, PTL DEF CodecInv
=============================================================================
