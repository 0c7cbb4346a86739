-------------------------- MODULE PacketReaderProofs --------------------------
(***************************************************************************)
(* The receiving half of a connection, for packets of any number and       *)
(* lengths, any size of a length and any chunk; and, with CodecProofs, all *)
(* that is between a packet and the wire.                                  *)
(***************************************************************************)
EXTENDS MCPackets, CodecProofs

-----------------------------------------------------------------------------
(* Where frames end.  What a recursive function is for every argument      *)
(* needs induction, which is done by the smallest counterexample.          *)
\* The end of frame k, from the end of the one before.
EndStep(f, k) == IF k = 0 THEN 0 ELSE f[k - 1] + HeaderSize + Bodies[k]

\* f is End as far as frame n.
EndUpto(f, n) == f = [k \in 0 .. n |-> EndStep(f, k)]

LEMMA EndUptoAt ==
  ASSUME NEW n \in Nat, NEW f, EndUpto(f, n), NEW k \in 0 .. n
  PROVE  f[k] = EndStep(f, k)
<1>1. PICK h : h = [j \in 0 .. n |-> EndStep(f, j)]
  OBVIOUS
<1>2. h[k] = EndStep(f, k)
  BY <1>1
<1>3. f = h
  BY <1>1 DEF EndUpto
<1> QED BY <1>2, <1>3

LEMMA EndsExist ==
  ASSUME NEW n \in Nat
  PROVE  \E f : EndUpto(f, n)
<1> DEFINE T == {m \in Nat : ~ \E f : EndUpto(f, m)}
<1> SUFFICES ASSUME T # {} PROVE FALSE
  OBVIOUS
<1>1. PICK m \in T : \A y \in T : m <= y
  BY SmallestOf
<1>2. m # 0
  <2>1. EndUpto([k \in 0 .. 0 |-> 0], 0)
    BY DEF EndUpto, EndStep
  <2> QED BY <2>1
<1>3. m - 1 \in Nat /\ m - 1 \notin T
  BY <1>1, <1>2
<1>4. PICK g : EndUpto(g, m - 1)
  BY <1>3
<1> DEFINE h == [k \in 0 .. m |-> IF k = m THEN g[m - 1] + HeaderSize + Bodies[m] ELSE g[k]]
<1>5. ASSUME NEW k \in 0 .. m PROVE h[k] = EndStep(h, k)
  <2>1. CASE k = m
    BY <1>2, <1>3, <2>1 DEF EndStep
  <2>2. CASE k # m
    <3>1. k \in 0 .. m - 1 /\ (k # 0 => k - 1 \in 0 .. m /\ k - 1 # m)
      BY <1>3, <2>2
    <3>2. g[k] = EndStep(g, k)
      BY <1>3, <1>4, <3>1, EndUptoAt
    <3>3. k # 0 => h[k - 1] = g[k - 1]
      BY <3>1
    <3> QED BY <2>2, <3>2, <3>3 DEF EndStep
  <2> QED BY <2>1, <2>2
<1>6. EndUpto(h, m)
  <2>1. h = [k \in 0 .. m |-> h[k]]
    OBVIOUS
  <2> HIDE DEF h
  <2> QED BY <1>5, <2>1 DEF EndUpto
<1> QED BY <1>6

LEMMA EndsAgree ==
  ASSUME NEW n \in Nat, NEW m \in Nat, NEW f, NEW g, EndUpto(f, n), EndUpto(g, m),
         NEW k \in Nat, k <= n, k <= m
  PROVE  f[k] = g[k]
<1> DEFINE T == {j \in Nat : j <= n /\ j <= m /\ f[j] # g[j]}
<1> SUFFICES ASSUME T # {} PROVE FALSE
  OBVIOUS
<1>1. PICK j \in T : \A y \in T : j <= y
  BY SmallestOf
<1>2. f[j] = EndStep(f, j) /\ g[j] = EndStep(g, j)
  <2>1. j \in 0 .. n /\ j \in 0 .. m
    BY <1>1
  <2> QED BY <2>1, EndUptoAt
<1>3. j # 0
  BY <1>1, <1>2 DEF EndStep
<1>4. j - 1 \in Nat /\ j - 1 <= n /\ j - 1 <= m /\ j - 1 \notin T
  BY <1>1, <1>3
<1>5. f[j - 1] = g[j - 1]
  BY <1>4
<1> QED BY <1>1, <1>2, <1>3, <1>5 DEF EndStep

LEMMA EndDefined == End = [k \in Nat |-> EndStep(End, k)]
<1> DEFINE u == [n \in Nat |-> CHOOSE f : EndUpto(f, n)]
           e == [k \in Nat |-> u[k][k]]
<1>1. \A n \in Nat : EndUpto(u[n], n)
  BY EndsExist
<1> HIDE DEF u
<1>2. ASSUME NEW k \in Nat PROVE e[k] = EndStep(e, k)
  <2>1. u[k][k] = EndStep(u[k], k)
    BY <1>1, EndUptoAt
  <2>2. k # 0 => u[k][k - 1] = u[k - 1][k - 1]
    BY <1>1, EndsAgree
  <2>3. k # 0 => e[k - 1] = u[k - 1][k - 1]
    OBVIOUS
  <2> QED BY <2>1, <2>2, <2>3 DEF EndStep
<1>3. e = [k \in Nat |-> EndStep(e, k)]
  <2>1. e = [k \in Nat |-> e[k]]
    OBVIOUS
  <2> HIDE DEF e
  <2> QED BY <1>2, <2>1
<1>4. \E f : f = [k \in Nat |-> EndStep(f, k)]
  BY <1>3
<1> QED BY <1>4 DEF End, EndStep

\* How many frames there are, and how much longer each makes what is sent.
LEMMA FrameFacts ==
  /\ Len(Bodies) \in Nat /\ Frames = 1 .. Len(Bodies)
  /\ \A k \in Frames : Bodies[k] \in Nat /\ Bodies[k] > 0
  /\ HeaderSize \in Nat /\ HeaderSize > 0 /\ Chunk \in Nat /\ Chunk > 0
<1>1. Len(Bodies) \in Nat /\ Frames = 1 .. Len(Bodies)
  BY BodiesAssumption, LenProperties DEF Frames
<1>2. \A k \in 1 .. Len(Bodies) : Bodies[k] \in Nat \ {0}
  BY BodiesAssumption, ElementOfSeq
<1> QED BY <1>1, <1>2, SizesAssumption

LEMMA EndValues ==
  /\ End[0] = 0
  /\ \A k \in Frames : End[k] = End[k - 1] + HeaderSize + Bodies[k]
<1>1. PICK h : h = [k \in Nat |-> EndStep(End, k)]
  OBVIOUS
<1>2. End = h
  BY <1>1, EndDefined
<1>3. h[0] = 0
  BY <1>1 DEF EndStep
<1>4. ASSUME NEW k \in Frames PROVE h[k] = h[k - 1] + HeaderSize + Bodies[k]
  <2>1. k \in Nat /\ k # 0
    BY FrameFacts
  <2>2. h[k] = EndStep(End, k)
    BY <1>1, <2>1
  <2> QED BY <1>2, <2>1, <2>2 DEF EndStep
<1> QED BY <1>2, <1>3, <1>4

LEMMA EndTypes == \A k \in 0 .. Len(Bodies) : End[k] \in Nat
<1> DEFINE T == {k \in Nat : k <= Len(Bodies) /\ End[k] \notin Nat}
<1>1. T = {}
  <2> SUFFICES ASSUME T # {} PROVE FALSE
    OBVIOUS
  <2>1. PICK k \in T : \A y \in T : k <= y
    BY SmallestOf
  <2>2. k # 0
    BY <2>1, EndValues
  <2>3. k \in Frames /\ k - 1 \in Nat /\ k - 1 <= Len(Bodies) /\ k - 1 \notin T
    BY <2>1, <2>2, FrameFacts
  <2>4. End[k - 1] \in Nat
    BY <2>3
  <2>5. End[k] = End[k - 1] + HeaderSize + Bodies[k] /\ Bodies[k] \in Nat
    BY <2>3, EndValues, FrameFacts
  <2> QED BY <2>1, <2>4, <2>5, FrameFacts
<1> QED BY <1>1, FrameFacts

LEMMA EndGrows ==
  ASSUME NEW j \in 0 .. Len(Bodies), NEW k \in 0 .. Len(Bodies), j < k
  PROVE  End[j] < End[k]
<1> DEFINE T == {m \in Nat : j < m /\ m <= Len(Bodies) /\ ~ (End[j] < End[m])}
<1>1. T = {}
  <2> SUFFICES ASSUME T # {} PROVE FALSE
    OBVIOUS
  <2>1. PICK m \in T : \A y \in T : m <= y
    BY SmallestOf
  <2>2. m \in Frames /\ m - 1 \in Nat /\ m - 1 <= Len(Bodies) /\ m - 1 \notin T /\ j <= m - 1
    BY <2>1, FrameFacts
  <2>3. j = m - 1 \/ End[j] < End[m - 1]
    BY <2>2, FrameFacts
  <2>4. End[m] = End[m - 1] + HeaderSize + Bodies[m] /\ Bodies[m] \in Nat /\ Bodies[m] > 0
    BY <2>2, EndValues, FrameFacts
  <2>5. End[m] \in Nat /\ End[m - 1] \in Nat /\ End[j] \in Nat
    BY <2>1, <2>2, EndTypes, FrameFacts
  <2>6. End[m - 1] < End[m]
    BY <2>4, <2>5, FrameFacts
  <2>7. ~ (End[j] < End[m])
    BY <2>1
  <2> QED BY <2>3, <2>5, <2>6, <2>7
<1> QED BY <1>1, FrameFacts

\* A frame's end says which it is.
LEMMA EndInjective ==
  ASSUME NEW j \in 0 .. Len(Bodies), NEW k \in 0 .. Len(Bodies), End[j] = End[k]
  PROVE  j = k
<1>1. End[j] \in Nat /\ End[k] \in Nat
  BY EndTypes
<1>2. CASE j < k
  BY <1>1, <1>2, EndGrows
<1>3. CASE k < j
  BY <1>1, <1>3, EndGrows
<1> QED BY <1>2, <1>3, FrameFacts

LEMMA TotalNat == Total \in Nat
BY EndTypes, FrameFacts DEF Total

-----------------------------------------------------------------------------
(* What the reader has taken out of the stream.                            *)

\* The first d packets are delivered and the buffer begins with the next one.
InOrder(d) ==
  /\ delivered = [i \in 1 .. d |-> i]
  /\ End[d] <= taken
  /\ content = Bytes(End[d], taken - End[d])

StreamSound == use_encryption => \E d \in 0 .. Len(Bodies) : InOrder(d)

ReaderInv == TypeOK /\ BufferFits /\ StreamSound

LEMMA BytesIn ==
  ASSUME NEW a \in Nat, NEW n \in Nat, a + n <= Total
  PROVE  /\ Bytes(a, n) \in Seq(0 .. Total) /\ Len(Bytes(a, n)) = n
         /\ \A j \in 1 .. n : Bytes(a, n)[j] = a + j
<1>1. \A j \in 1 .. n : a + j \in 0 .. Total
  BY TotalNat
<1> QED BY <1>1 DEF Bytes

LEMMA BytesAre ==
  ASSUME NEW s \in Seq(0 .. Total), NEW a \in Nat, NEW n \in Nat, a + n <= Total,
         Len(s) = n, \A j \in 1 .. n : s[j] = a + j
  PROVE  s = Bytes(a, n)
<1>1. /\ Bytes(a, n) \in Seq(0 .. Total) /\ Len(Bytes(a, n)) = n
      /\ \A j \in 1 .. n : Bytes(a, n)[j] = a + j
  BY BytesIn
<1> QED BY <1>1, SeqEqual

LEMMA DropProperties ==
  ASSUME NEW S, NEW s \in Seq(S), NEW n \in 0 .. Len(s)
  PROVE  /\ Drop(s, n) \in Seq(S) /\ Len(Drop(s, n)) = Len(s) - n
         /\ \A j \in 1 .. Len(s) - n : Drop(s, n)[j] = s[n + j]
<1>1. PICK m \in Nat : m = Len(s)
  BY LenProperties
<1>2. n + 1 \in Int /\ m \in Int /\ \A k \in n + 1 .. m : s[k] \in S
  BY <1>1, ElementOfSeq
<1>3. /\ SubSeq(s, n + 1, m) \in Seq(S)
      /\ Len(SubSeq(s, n + 1, m)) = IF n + 1 <= m THEN m - (n + 1) + 1 ELSE 0
      /\ \A k \in 1 .. m - (n + 1) + 1 : SubSeq(s, n + 1, m)[k] = s[n + 1 + k - 1]
  BY <1>2, SubSeqProperties
<1> QED BY <1>1, <1>3 DEF Drop

LEMMA PartProperties ==
  ASSUME NEW S, NEW s \in Seq(S), NEW a \in Nat, NEW m \in Nat, a + m <= Len(s)
  PROVE  /\ SubSeq(s, a + 1, a + m) \in Seq(S) /\ Len(SubSeq(s, a + 1, a + m)) = m
         /\ \A j \in 1 .. m : SubSeq(s, a + 1, a + m)[j] = s[a + j]
<1>1. a + 1 \in Int /\ a + m \in Int /\ \A k \in a + 1 .. a + m : s[k] \in S
  <2>1. Len(s) \in Nat /\ \A k \in 1 .. Len(s) : s[k] \in S
    BY LenProperties, ElementOfSeq
  <2>2. \A k \in a + 1 .. a + m : k \in 1 .. Len(s)
    BY <2>1
  <2> QED BY <2>1, <2>2
<1>2. /\ SubSeq(s, a + 1, a + m) \in Seq(S)
      /\ Len(SubSeq(s, a + 1, a + m)) = IF a + 1 <= a + m THEN a + m - (a + 1) + 1 ELSE 0
      /\ \A k \in 1 .. a + m - (a + 1) + 1 : SubSeq(s, a + 1, a + m)[k] = s[a + 1 + k - 1]
  BY <1>1, SubSeqProperties
<1>3. a + m - (a + 1) + 1 = m /\ (a + 1 <= a + m <=> m > 0) /\ \A k \in 1 .. m : a + 1 + k - 1 = a + k
  OBVIOUS
<1>4. \A k \in 1 .. m : SubSeq(s, a + 1, a + m)[k] = s[a + 1 + k - 1]
  BY <1>2, <1>3
<1> QED BY <1>2, <1>3, <1>4

\* What a buffer that is in order begins with.
LEMMA ContentOf ==
  ASSUME TypeOK, NEW d \in 0 .. Len(Bodies), InOrder(d)
  PROVE  /\ End[d] \in Nat /\ taken - End[d] \in Nat /\ taken \in Nat /\ taken <= Total
         /\ Len(content) = taken - End[d]
         /\ \A j \in 1 .. taken - End[d] : content[j] = End[d] + j
<1>1. End[d] \in Nat /\ taken \in Nat /\ taken <= Total /\ taken - End[d] \in Nat
  BY EndTypes, TotalNat DEF TypeOK, InOrder
<1>2. End[d] + (taken - End[d]) <= Total
  BY <1>1, TotalNat
<1> QED BY <1>1, <1>2, BytesIn DEF InOrder

\* A frame at the front of the buffer is the next one.
LEMMA FrontIsNext ==
  ASSUME TypeOK, NEW d \in 0 .. Len(Bodies), InOrder(d), NEW k \in Frames, FrontFrame(k)
  PROVE  k = d + 1
<1>1. Len(content) >= HeaderSize /\ SubSeq(content, 1, HeaderSize) = Bytes(End[k - 1], HeaderSize)
  BY DEF FrontFrame
<1>2. Len(content) \in Nat /\ 1 \in 1 .. HeaderSize /\ 1 \in 1 .. Len(content)
  BY <1>1, LenProperties, FrameFacts DEF TypeOK
<1>3. SubSeq(content, 1, HeaderSize)[1] = content[1]
  <2>1. \A j \in 1 .. HeaderSize : content[j] \in 0 .. Total
    <3>1. \A j \in 1 .. HeaderSize : j \in 1 .. Len(content)
      BY <1>1, <1>2, FrameFacts
    <3>2. \A j \in 1 .. Len(content) : content[j] \in 0 .. Total
      BY ElementOfSeq DEF TypeOK
    <3> QED BY <3>1, <3>2
  <2>2. 1 \in Int /\ HeaderSize \in Int /\ 1 \in 1 .. HeaderSize - 1 + 1 /\ 1 + 1 - 1 = 1
    BY FrameFacts
  <2> QED BY <2>1, <2>2, SubSeqProperties
<1>4. Bytes(End[k - 1], HeaderSize)[1] = End[k - 1] + 1
  BY <1>2 DEF Bytes
<1>5. content[1] = End[d] + 1
  BY <1>2, ContentOf
<1>6. k - 1 \in 0 .. Len(Bodies) /\ End[k - 1] \in Nat /\ End[d] \in Nat
  BY EndTypes, FrameFacts
<1>7. End[k - 1] = End[d]
  <2>1. SubSeq(content, 1, HeaderSize)[1] = Bytes(End[k - 1], HeaderSize)[1]
    BY <1>1
  <2>2. End[k - 1] + 1 = End[d] + 1
    BY <1>3, <1>4, <1>5, <2>1
  <2> QED BY <1>6, <2>2
<1>8. k - 1 = d
  BY <1>6, <1>7, EndInjective
<1> QED BY <1>8, FrameFacts

\* While there is anything in the buffer, there is a frame it begins with.
LEMMA NextExists ==
  ASSUME TypeOK, NEW d \in 0 .. Len(Bodies), InOrder(d), Len(content) > 0
  PROVE  d + 1 \in Frames
<1>1. End[d] < Total
  BY ContentOf, TotalNat
<1>2. d # Len(Bodies)
  BY <1>1, EndTypes DEF Total
<1> QED BY <1>2, FrameFacts

\* No part of it passes for junk.
LEMMA NoJunk ==
  ASSUME TypeOK, NEW d \in 0 .. Len(Bodies), InOrder(d), Len(content) > 0, ~HeaderCut
  PROVE  FrontFrame(d + 1) /\ (Complete(d + 1) => Intact(d + 1))
<1>1. d + 1 \in Frames /\ d + 1 - 1 = d /\ Bodies[d + 1] \in Nat
  BY NextExists, FrameFacts
<1>2. PICK n \in Nat : n = taken - End[d]
  BY ContentOf
<1>3. /\ End[d] \in Nat /\ taken \in Nat /\ Len(content) = n /\ End[d] + n <= Total /\ n > 0
      /\ \A j \in 1 .. n : content[j] = End[d] + j
  BY <1>2, ContentOf, TotalNat
<1>4. n >= HeaderSize
  <2>1. ASSUME ~ (n >= HeaderSize) PROVE FALSE
    <3>1. n \in 1 .. HeaderSize - 1
      BY <1>3, <2>1, FrameFacts
    <3>2. Head(content) = content[1] /\ content[1] # 0
      <4>1. content # <<>>
        BY <1>3, EmptySeq DEF TypeOK
      <4> QED BY <1>3, <4>1, HeadTailProperties DEF TypeOK
    <3> QED BY <1>3, <3>1, <3>2 DEF HeaderCut
  <2> QED BY <2>1
<1>5. ASSUME NEW a \in Nat, NEW m \in Nat, a + m <= n
      PROVE  SubSeq(content, a + 1, a + m) = Bytes(End[d] + a, m)
  <2>1. PICK t : t = SubSeq(content, a + 1, a + m)
    OBVIOUS
  <2>2. t \in Seq(0 .. Total) /\ Len(t) = m /\ \A j \in 1 .. m : t[j] = content[a + j]
    <3>1. PICK S : S = 0 .. Total
      OBVIOUS
    <3>2. content \in Seq(S) /\ a + m <= Len(content)
      BY <1>3, <1>5, <3>1 DEF TypeOK
    <3>3. /\ SubSeq(content, a + 1, a + m) \in Seq(S)
          /\ Len(SubSeq(content, a + 1, a + m)) = m
          /\ \A j \in 1 .. m : SubSeq(content, a + 1, a + m)[j] = content[a + j]
      BY <1>5, <3>2, PartProperties
    <3> QED BY <2>1, <3>1, <3>3
  <2>3. \A j \in 1 .. m : t[j] = End[d] + a + j
    <3>1. \A j \in 1 .. m : a + j \in 1 .. n
      BY <1>3, <1>5
    <3>2. \A j \in 1 .. m : content[a + j] = End[d] + (a + j)
      BY <1>3, <3>1
    <3>3. \A j \in 1 .. m : End[d] + (a + j) = End[d] + a + j
      BY <1>3, <1>5
    <3> QED BY <2>2, <3>2, <3>3
  <2>4. End[d] + a \in Nat /\ End[d] + a + m <= Total
    BY <1>3, <1>5, TotalNat
  <2> QED BY <2>1, <2>2, <2>3, <2>4, BytesAre
<1>6. FrontFrame(d + 1)
  <2>1. SubSeq(content, 0 + 1, 0 + HeaderSize) = Bytes(End[d] + 0, HeaderSize)
    BY <1>4, <1>5, FrameFacts
  <2>2. 0 + 1 = 1 /\ 0 + HeaderSize = HeaderSize /\ End[d] + 0 = End[d]
    BY <1>3, FrameFacts
  <2> QED BY <1>1, <1>3, <1>4, <2>1, <2>2 DEF FrontFrame
<1>7. Complete(d + 1) => Intact(d + 1)
  <2> SUFFICES ASSUME Complete(d + 1) PROVE Intact(d + 1)
    OBVIOUS
  <2>1. HeaderSize + Bodies[d + 1] <= n
    BY <1>1, <1>3, FrameFacts DEF Complete
  <2>2. SubSeq(content, HeaderSize + 1, HeaderSize + Bodies[d + 1])
          = Bytes(End[d] + HeaderSize, Bodies[d + 1])
    BY <1>1, <1>5, <2>1, FrameFacts
  <2> QED BY <1>1, <2>2 DEF Intact
<1> QED BY <1>6, <1>7

-----------------------------------------------------------------------------
(* The steps.                                                              *)

\* Nothing is read from the socket or taken from the buffer.
LEMMA StillStep ==
  ASSUME ReaderInv, UNCHANGED <<use_encryption, taken, content, delivered>>,
         sent' \in taken .. Total, max_size' \in Nat, max_size' >= max_size,
         pc' \in {"idle", "fill", "parse"}, is_closed' \in BOOLEAN
  PROVE  ReaderInv'
<1>1. TypeOK'
  BY TotalNat DEF ReaderInv, TypeOK
<1>2. BufferFits'
  BY LenProperties DEF ReaderInv, TypeOK, BufferFits
<1>3. StreamSound'
  BY DEF ReaderInv, StreamSound, InOrder
<1> QED BY <1>1, <1>2, <1>3 DEF ReaderInv

LEMMA GrownIs ==
  ASSUME TypeOK
  PROVE  /\ Grown \in Nat /\ Grown >= max_size
         /\ Len(content) <= max_size => Len(content) + 1 <= Grown
BY FrameFacts, LenProperties DEF Grown, TypeOK

LEMMA EncryptedStep ==
  ASSUME ReaderInv, FillEncrypted
  PROVE  ReaderInv'
<1>1. TypeOK /\ BufferFits /\ StreamSound
  BY DEF ReaderInv
<1>2. /\ use_encryption /\ taken < sent /\ max_size' = Grown
      /\ content' = Append(content, taken + 1) /\ taken' = taken + 1
      /\ UNCHANGED <<use_encryption, sent, pc, delivered, is_closed>>
  BY DEF FillEncrypted
<1>3. taken \in Nat /\ sent \in Nat /\ sent <= Total /\ taken + 1 \in 0 .. Total
  BY <1>1, <1>2, TotalNat DEF TypeOK
<1>4. PICK n : n = Len(content)
  OBVIOUS
<1>5. /\ n \in Nat /\ content' \in Seq(0 .. Total) /\ Len(content') = n + 1
      /\ \A j \in 1 .. n : content'[j] = content[j]
      /\ content'[n + 1] = taken + 1
  BY <1>1, <1>2, <1>3, <1>4, AppendProperties, LenProperties DEF TypeOK
<1>6. Grown \in Nat /\ Len(content') <= Grown
  BY <1>1, <1>2, <1>4, <1>5, GrownIs DEF BufferFits
<1>7. TypeOK'
  BY <1>1, <1>2, <1>3, <1>5, <1>6 DEF TypeOK
<1>8. BufferFits'
  BY <1>2, <1>6 DEF BufferFits
<1>9. StreamSound'
  <2>1. PICK d \in 0 .. Len(Bodies) : InOrder(d)
    BY <1>1, <1>2 DEF StreamSound
  <2>2. PICK a \in Nat : a = End[d]
    BY <2>1, EndTypes
  <2>3. n = taken - a /\ \A j \in 1 .. n : content[j] = a + j
    BY <1>1, <1>4, <2>1, <2>2, ContentOf
  <2>4. \A j \in 1 .. n + 1 : content'[j] = a + j
    <3>1. \A j \in 1 .. n + 1 : j \in 1 .. n \/ j = n + 1
      BY <1>5
    <3>2. taken + 1 = a + (n + 1)
      BY <1>3, <1>5, <2>2, <2>3
    <3> QED BY <1>5, <2>3, <3>1, <3>2
  <2>5. n \in Nat /\ taken \in Nat /\ a + (n + 1) <= Total /\ n + 1 = taken + 1 - a
    <3>1. n \in Nat /\ taken \in Nat /\ n = taken - a /\ taken + 1 <= Total /\ Total \in Nat
      BY <1>3, <1>5, <2>3, TotalNat
    <3> QED BY <3>1
  <2>6. content' = Bytes(a, n + 1)
    BY <1>5, <2>4, <2>5, BytesAre
  <2>7. End[d] <= taken'
    BY <1>2, <1>3, <1>5, <2>2, <2>3
  <2>8. InOrder(d)'
    <3>1. taken' - a = n + 1
      <4>1. taken' = taken + 1
        BY <1>2
      <4> QED BY <2>5, <4>1
    <3>2. content' = Bytes(End[d], taken' - End[d])
      BY <2>2, <2>6, <3>1
    <3> QED BY <1>2, <2>1, <2>7, <3>2 DEF InOrder, Bytes
  <2> QED BY <2>8 DEF StreamSound
<1> QED BY <1>7, <1>8, <1>9 DEF ReaderInv

LEMMA PlainStep ==
  ASSUME ReaderInv, FillPlain
  PROVE  ReaderInv'
<1>1. TypeOK
  BY DEF ReaderInv
<1>2. PICK n : n = IF sent - taken < Chunk THEN sent - taken ELSE Chunk
  OBVIOUS
<1>3. /\ ~use_encryption /\ n > 0 /\ max_size' = Grown /\ pc = "fill"
      /\ \/ pc' = "overrun" /\ UNCHANGED <<content, taken>>
         \/ /\ content' = content \o Bytes(taken, n) \o Junk(n * Chunk - n)
            /\ taken' = taken + n
            /\ UNCHANGED pc
      /\ UNCHANGED <<use_encryption, sent, delivered, is_closed>>
  BY <1>2 DEF FillPlain
<1>4. Grown \in Nat
  BY <1>1, GrownIs
<1>5. n \in Nat /\ taken + n <= sent /\ taken \in Nat /\ sent \in Nat /\ sent <= Total
  BY <1>1, <1>2, <1>3, FrameFacts, TotalNat DEF TypeOK
<1>6. content' \in Seq(0 .. Total) /\ taken' \in 0 .. sent
  <2>1. CASE UNCHANGED <<content, taken>>
    BY <1>1, <2>1 DEF TypeOK
  <2>2. CASE /\ content' = content \o Bytes(taken, n) \o Junk(n * Chunk - n)
             /\ taken' = taken + n
    <3>1. taken + n <= Total
      BY <1>5, TotalNat
    <3>2. Bytes(taken, n) \in Seq(0 .. Total)
      BY <1>5, <3>1, BytesIn
    <3>3. n * Chunk - n \in Nat
      <4>1. PICK c \in Nat : Chunk = c + 1
        <5>1. Chunk - 1 \in Nat /\ Chunk = (Chunk - 1) + 1
          BY FrameFacts
        <5> QED BY <5>1
      <4>2. n * c \in Nat /\ n * (c + 1) = n * c + n
        BY <1>5
      <4> QED BY <1>5, <4>1, <4>2
    <3>4. PICK m \in Nat : m = n * Chunk - n
      BY <3>3
    <3>5. Junk(m) \in Seq(0 .. Total)
      BY TotalNat DEF Junk
    <3>6. content \o Bytes(taken, n) \in Seq(0 .. Total)
      BY <1>1, <3>2, ConcatProperties DEF TypeOK
    <3>7. content \o Bytes(taken, n) \o Junk(m) \in Seq(0 .. Total)
      BY <3>5, <3>6, ConcatProperties
    <3> QED BY <1>5, <2>2, <3>4, <3>7
  <2> QED BY <1>3, <2>1, <2>2
<1>7. TypeOK'
  BY <1>1, <1>3, <1>4, <1>6 DEF TypeOK
<1> QED BY <1>3, <1>7 DEF ReaderInv, BufferFits, StreamSound

\* What a step that takes packets or bytes off the buffer leaves.
LEMMA DropStep ==
  ASSUME TypeOK, BufferFits, NEW n \in 0 .. Len(content), content' = Drop(content, n),
         delivered' \in Seq(Frames \cup {0}), pc' = "idle",
         UNCHANGED <<use_encryption, sent, taken, max_size, is_closed>>
  PROVE  TypeOK' /\ BufferFits'
<1>1. content \in Seq(0 .. Total) /\ Len(content) \in Nat
  BY LenProperties DEF TypeOK
<1>2. content' \in Seq(0 .. Total) /\ Len(content') = Len(content) - n
  BY <1>1, DropProperties
<1>3. TypeOK'
  BY <1>2 DEF TypeOK
<1>4. BufferFits'
  BY <1>1, <1>2 DEF BufferFits, TypeOK
<1> QED BY <1>3, <1>4

LEMMA PacketStep ==
  ASSUME ReaderInv, ParsePacket
  PROVE  ReaderInv'
<1>1. TypeOK /\ BufferFits /\ StreamSound
  BY DEF ReaderInv
<1>2. PICK k \in Frames : /\ FrontFrame(k) /\ Complete(k)
                          /\ delivered' = Append(delivered, k)
                          /\ content' = Drop(content, HeaderSize + Bodies[k])
  BY DEF ParsePacket
<1>3. pc' = "idle" /\ UNCHANGED <<use_encryption, sent, taken, max_size, is_closed>>
  BY DEF ParsePacket
<1>4. PICK b \in Nat : b = HeaderSize + Bodies[k]
  BY FrameFacts
<1>5. Len(content) \in Nat /\ b \in 0 .. Len(content)
  BY <1>1, <1>2, <1>4, FrameFacts, LenProperties DEF Complete, TypeOK
<1>6. delivered' \in Seq(Frames \cup {0})
  BY <1>1, <1>2, AppendProperties DEF TypeOK
<1>7. TypeOK' /\ BufferFits'
  BY <1>1, <1>2, <1>3, <1>4, <1>5, <1>6, DropStep
<1>8. StreamSound'
  <2> SUFFICES ASSUME use_encryption PROVE \E d \in 0 .. Len(Bodies) : InOrder(d)'
    BY <1>3 DEF StreamSound
  <2>1. PICK d \in 0 .. Len(Bodies) : InOrder(d)
    BY <1>1 DEF StreamSound
  <2>2. k = d + 1
    BY <1>1, <1>2, <2>1, FrontIsNext
  <2>3. /\ End[d] \in Nat /\ taken \in Nat /\ taken <= Total /\ Len(content) = taken - End[d]
        /\ \A j \in 1 .. taken - End[d] : content[j] = End[d] + j
    BY <1>1, <2>1, ContentOf
  <2>4. PICK a \in Nat : a = End[d]
    BY <2>3
  <2>5. End[k] = a + b
    BY <1>2, <1>4, <2>2, <2>4, EndValues, FrameFacts
  <2>6. a + b <= taken
    BY <1>5, <2>3, <2>4
  <2>7. PICK m \in Nat : m = taken - (a + b)
    BY <2>3, <2>6
  <2>8. content' = Bytes(a + b, m)
    <3>1. Len(content) - b = m
      BY <1>5, <2>3, <2>4, <2>7
    <3>2. /\ content' \in Seq(0 .. Total) /\ Len(content') = m
          /\ \A j \in 1 .. m : content'[j] = content[b + j]
      BY <1>1, <1>2, <1>4, <1>5, <3>1, DropProperties DEF TypeOK
    <3>3. \A j \in 1 .. m : content[b + j] = a + b + j
      <4>1. \A j \in 1 .. m : b + j \in 1 .. taken - a
        BY <2>3, <2>6, <2>7
      <4>2. \A j \in 1 .. m : content[b + j] = a + (b + j)
        BY <2>3, <2>4, <4>1
      <4>3. \A j \in 1 .. m : a + (b + j) = a + b + j
        OBVIOUS
      <4> QED BY <4>2, <4>3
    <3>4. a + b + m <= Total
      BY <2>3, <2>7, TotalNat
    <3>5. a + b \in Nat
      OBVIOUS
    <3> QED BY <3>2, <3>3, <3>4, <3>5, BytesAre
  <2>9. delivered' = [i \in 1 .. k |-> i]
    <3>1. d \in Nat /\ delivered = [i \in 1 .. d |-> i]
      BY <2>1, FrameFacts DEF InOrder
    <3>2. delivered' = Append([i \in 1 .. d |-> i], d + 1)
      BY <1>2, <2>2, <3>1
    <3>3. Append([i \in 1 .. d |-> i], d + 1) = [i \in 1 .. d + 1 |-> i]
      BY <3>1
    <3> QED BY <2>2, <3>2, <3>3
  <2>10. InOrder(k)'
    BY <1>3, <2>5, <2>6, <2>7, <2>8, <2>9 DEF InOrder
  <2>11. k \in 0 .. Len(Bodies)
    BY FrameFacts
  <2> QED BY <2>10, <2>11
<1> QED BY <1>7, <1>8 DEF ReaderInv

LEMMA JunkStep ==
  ASSUME ReaderInv, ParseJunk
  PROVE  ReaderInv'
<1>1. TypeOK /\ BufferFits /\ StreamSound
  BY DEF ReaderInv
<1>2. Len(content) \in Nat /\ Len(content) > 0
  BY <1>1, EmptySeq, LenProperties DEF ParseJunk, TypeOK
<1>3. ~use_encryption
  <2> SUFFICES ASSUME use_encryption PROVE FALSE
    OBVIOUS
  <2>1. PICK d \in 0 .. Len(Bodies) : InOrder(d)
    BY <1>1 DEF StreamSound
  <2>2. d + 1 \in Frames
    BY <1>1, <1>2, <2>1, NextExists
  <2>3. FrontFrame(d + 1) /\ (Complete(d + 1) => Intact(d + 1))
    BY <1>1, <1>2, <2>1, NoJunk DEF ParseJunk
  <2> QED BY <2>2, <2>3 DEF ParseJunk
<1>4. pc' = "idle" /\ UNCHANGED <<use_encryption, sent, taken, max_size>>
  BY DEF ParseJunk
<1>5. TypeOK'
  <2>1. CASE UNCHANGED <<content, delivered>> /\ is_closed' \in BOOLEAN
    BY <1>1, <1>4, <2>1 DEF TypeOK
  <2>2. CASE /\ \E n \in 1 .. Len(content) : content' = Drop(content, n)
             /\ delivered' = Append(delivered, 0)
             /\ UNCHANGED is_closed
    <3>1. delivered' \in Seq(Frames \cup {0})
      BY <1>1, <2>2, AppendProperties DEF TypeOK
    <3>2. PICK n \in 1 .. Len(content) : content' = Drop(content, n)
      BY <2>2
    <3>3. n \in 0 .. Len(content)
      BY <1>2
    <3> QED BY <1>1, <1>4, <2>2, <3>1, <3>2, <3>3, DropStep
  <2> QED BY <1>1, <2>1, <2>2 DEF ParseJunk, TypeOK
<1> QED BY <1>3, <1>4, <1>5 DEF ReaderInv, BufferFits, StreamSound

LEMMA ReaderNext ==
  ASSUME ReaderInv, [Next]_vars
  PROVE  ReaderInv'
<1>1. TypeOK
  BY DEF ReaderInv
<1>2. /\ sent \in Nat /\ taken \in Nat /\ taken <= sent /\ sent <= Total /\ Total \in Nat
      /\ sent \in taken .. Total
      /\ max_size \in Nat /\ max_size >= max_size /\ is_closed \in BOOLEAN
      /\ Grown \in Nat /\ Grown >= max_size
  BY <1>1, TotalNat, GrownIs DEF TypeOK
<1>3. CASE Send
  <2>1. sent' \in taken .. Total
    BY <1>2, <1>3 DEF Send
  <2>2. pc \in {"idle", "fill", "parse"} \/ pc = "overrun"
    BY <1>1 DEF TypeOK
  <2>3. UNCHANGED <<use_encryption, taken, content, max_size, pc, delivered, is_closed>>
    BY <1>3 DEF Send
  <2> QED BY <1>1, <1>2, <2>1, <2>3 DEF ReaderInv, TypeOK, BufferFits, StreamSound, InOrder
<1>4. CASE ReadPacket \/ GrowFails \/ FillEnds \/ FillFails \/ ParseNothing \/ ParseFails
  <2>1. /\ UNCHANGED <<use_encryption, sent, taken, content, delivered>>
        /\ max_size' \in {max_size, Grown} /\ pc' \in {"idle", "fill", "parse"}
        /\ is_closed' \in BOOLEAN
    BY <1>2, <1>4 DEF ReadPacket, GrowFails, FillEnds, FillFails, ParseNothing, ParseFails
  <2> QED BY <1>2, <2>1, StillStep
<1>5. CASE UNCHANGED vars
  BY <1>5 DEF vars, ReaderInv, TypeOK, BufferFits, StreamSound, InOrder
<1> QED BY <1>3, <1>4, <1>5, EncryptedStep, PlainStep, PacketStep, JunkStep DEF Next, Reader

LEMMA ReaderInit ==
  ASSUME Init
  PROVE  ReaderInv
<1>1. TypeOK
  <2>1. <<>> \in Seq(0 .. Total) /\ <<>> \in Seq(Frames \cup {0})
    OBVIOUS
  <2>2. sent \in 0 .. Total /\ taken \in 0 .. sent /\ max_size \in Nat
    BY TotalNat, FrameFacts DEF Init
  <2> QED BY <2>1, <2>2 DEF Init, TypeOK
<1>2. BufferFits
  BY FrameFacts DEF Init, BufferFits
<1>3. InOrder(0)
  BY EndValues DEF Init, InOrder, Bytes
<1>4. 0 \in 0 .. Len(Bodies)
  BY FrameFacts
<1> QED BY <1>1, <1>2, <1>3, <1>4 DEF ReaderInv, StreamSound

LEMMA ReaderCorrect == Spec => []ReaderInv
<1>1. Init => ReaderInv
  BY ReaderInit
<1>2. ReaderInv /\ [Next]_vars => ReaderInv'
  BY ReaderNext
<1> QED BY <1>1, <1>2, PTL DEF Spec

-----------------------------------------------------------------------------

\* Packets come out whole and in order however they are cut, whatever their lengths: the buffer
\* of an encrypted connection holds exactly the bytes behind the last of them
\* (connection.c:265-356).
THEOREM NothingLostCorrect == Spec => []NothingLost
<1>1. ReaderInv => NothingLost
  <2> SUFFICES ASSUME ReaderInv, use_encryption
               PROVE  /\ delivered = [i \in 1 .. Len(delivered) |-> i]
                      /\ content = Bytes(End[Len(delivered)], taken - End[Len(delivered)])
    BY DEF NothingLost
  <2>1. PICK d \in 0 .. Len(Bodies) : InOrder(d)
    BY DEF ReaderInv, StreamSound
  <2>2. Len(delivered) = d
    <3>1. d \in Nat /\ delivered = [i \in 1 .. d |-> i]
      BY <2>1, FrameFacts DEF InOrder
    <3>2. Len([i \in 1 .. d |-> i]) = d
      BY <3>1
    <3> QED BY <3>1, <3>2
  <2> QED BY <2>1, <2>2 DEF InOrder
<1> QED BY <1>1, ReaderCorrect, PTL

\* The receiving buffer of an encrypted connection never holds more than was allocated
\* (connection.c:182-256).
THEOREM BufferCorrect == Spec => []BufferFits
<1>1. ReaderInv => BufferFits
  BY DEF ReaderInv
<1> QED BY <1>1, ReaderCorrect, PTL

\* The reader keeps to its types, encrypted or not: nothing is read that was not sent
\* (connection.c:182-356).
THEOREM TypeCorrect == Spec => []TypeOK
<1>1. ReaderInv => TypeOK
  BY DEF ReaderInv
<1> QED BY <1>1, ReaderCorrect, PTL

-----------------------------------------------------------------------------
(* The components of MCPackets.                                             *)

\* Each component does what its own specification says, whichever of them is the subject.
LEMMA PacketsComponents == PacketsSpec => Spec /\ CodecSpec /\ EncoderSpec /\ DecoderSpec
<1>1. PacketsInit => Init /\ CodecInit /\ EncoderInit /\ DecoderInit
  BY DEF PacketsInit, ReaderIdle, CodecIdle, EncoderIdle, DecoderIdle
<1>2. [PacketsNext]_<<subject, vars, codecVars, encoderVars, decoderVars>>
        => [Next]_vars /\ [CodecNext]_codecVars /\ [EncoderNext]_encoderVars
             /\ [DecoderNext]_decoderVars
  BY DEF PacketsNext
<1> QED BY <1>1, <1>2, PTL DEF PacketsSpec, Spec, CodecSpec, EncoderSpec, DecoderSpec

\* Every component keeps to its types (mcpr/connection.c, mcpr/codec.c, mcpr/packet.c).
THEOREM PacketsTypeCorrect == PacketsSpec => []PacketsTypeOK
<1>1. PacketsSpec => []TypeOK /\ []CodecTypeOK /\ []EncoderTypeOK /\ []DecoderTypeOK
  BY PacketsComponents, TypeCorrect, CodecTypeCorrect, EncoderTypeCorrect, DecoderTypeCorrect
<1>2. TypeOK /\ CodecTypeOK /\ EncoderTypeOK /\ DecoderTypeOK => PacketsTypeOK
  BY DEF PacketsTypeOK
<1> QED BY <1>1, <1>2, PTL

\* What holds of the components holds of them together: packets come out whole and in order, no
\* part of a number passes for one, an encoder stays in its room and a decoder ends with its
\* frame (mcpr/connection.c, mcpr/codec.c, mcpr/packet.c).
THEOREM PacketsSafe ==
  PacketsSpec => [](NothingLost /\ BufferFits /\ RoundTrip /\ CutRefused /\ FrameExact /\ ConsumesFrame)
BY PacketsComponents, NothingLostCorrect, BufferCorrect, RoundTripCorrect, CutCorrect, FrameCorrect,
   ConsumesCorrect, PTL
=============================================================================
