----------------------------- MODULE PacketReader -----------------------------
(***************************************************************************)
(* mcpr/connection.c, the receiving half of a connection: one read of the  *)
(* packet stream fills the receiving buffer with whatever the socket has,  *)
(* then takes at most one packet from its front.                           *)
(*                                                                         *)
(* A byte is named by its position in what the client sends, and 0 is a    *)
(* byte of the buffer nobody has written.  The client sends frames: the    *)
(* length of the packet in HeaderSize bytes, then the packet.  BLOCK_SIZE  *)
(* is 1 (AES-128-CFB8).                                                    *)
(***************************************************************************)
EXTENDS Integers, Sequences, FiniteSets

CONSTANTS
  Bodies,       \* the lengths of the packets the client sends
  Malformed,    \* the packets among them that do not decode
  HeaderSize,   \* bytes of a packet's length
  Chunk         \* the 256 of update_receiving_buffer

ASSUME BodiesAssumption == Bodies \in Seq(Nat \ {0})
ASSUME MalformedAssumption == Malformed \subseteq DOMAIN Bodies
ASSUME SizesAssumption == HeaderSize \in Nat \ {0} /\ Chunk \in Nat \ {0}

VARIABLES
  use_encryption,
  sent,           \* bytes the client has sent
  taken,          \* bytes read from the socket
  content,        \* receiving_buf.content; its length is receiving_buf.size
  max_size,       \* receiving_buf.max_size
  pc,             \* where the reading thread is
  delivered,      \* the packets handed to packet_handler; 0 for one that was never sent
  is_closed

vars == <<use_encryption, sent, taken, content, max_size, pc, delivered, is_closed>>

Frames == DOMAIN Bodies

\* The bytes of the first k frames.
End[k \in Nat] == IF k = 0 THEN 0 ELSE End[k - 1] + HeaderSize + Bodies[k]

Total == End[Len(Bodies)]

Bytes(from, n) == [j \in 1 .. n |-> from + j]

Junk(n) == [j \in 1 .. n |-> 0]

Drop(s, n) == SubSeq(s, n + 1, Len(s))

-----------------------------------------------------------------------------
\* mcpr_connection_set_use_encryption is called, if at all, before the first byte.
Init ==
  /\ use_encryption \in BOOLEAN
  /\ sent = 0 /\ taken = 0
  /\ content = <<>>
  /\ max_size = Chunk
  /\ pc = "idle"
  /\ delivered = <<>>
  /\ is_closed = FALSE

Send ==
  /\ sent < Total
  /\ sent' = sent + 1
  /\ UNCHANGED <<use_encryption, taken, content, max_size, pc, delivered, is_closed>>

\* update_client reads from the packet stream.
ReadPacket ==
  /\ pc = "idle"
  /\ pc' = "fill"
  /\ UNCHANGED <<use_encryption, sent, taken, content, max_size, delivered, is_closed>>

-----------------------------------------------------------------------------
(* update_receiving_buffer.  Its result is not looked at.                  *)

\* Variant: room for what is there, not for the next block.
Grown_NoBlock == IF max_size < Len(content) THEN max_size + Chunk ELSE max_size

\* The buffer's size after it has been made large enough for the next block.
Grown == IF max_size < Len(content) + 1 THEN max_size + Chunk ELSE max_size

\* realloc fails.
GrowFails ==
  /\ pc = "fill"
  /\ Grown # max_size
  /\ pc' = "parse"
  /\ UNCHANGED <<use_encryption, sent, taken, content, max_size, delivered, is_closed>>

\* Variant: a read that returns nothing counts as a block.
FillEncrypted_NoCheck ==
  /\ pc = "fill" /\ use_encryption
  /\ taken < Total
  /\ max_size' = Grown
  /\ content' = Append(content, taken + 1)
  /\ taken' = taken + 1
  /\ UNCHANGED <<use_encryption, sent, pc, delivered, is_closed>>

\* One block is read and decrypted (which is taken to succeed); the loop reads the next one.
FillEncrypted ==
  /\ pc = "fill" /\ use_encryption
  /\ taken < sent
  /\ max_size' = Grown
  /\ content' = Append(content, taken + 1)
  /\ taken' = taken + 1
  /\ UNCHANGED <<use_encryption, sent, pc, delivered, is_closed>>

\* Up to Chunk bytes are read and each is counted Chunk times, which leaves the rest as it
\* is; past the end of the buffer the program's behaviour is undefined.
FillPlain ==
  LET n == IF sent - taken < Chunk THEN sent - taken ELSE Chunk IN
  /\ pc = "fill" /\ ~use_encryption
  /\ n > 0
  /\ max_size' = Grown
  /\ IF Len(content) + n > Grown
       THEN pc' = "overrun" /\ UNCHANGED <<content, taken>>
       ELSE /\ content' = content \o Bytes(taken, n) \o Junk(n * Chunk - n)
            /\ taken' = taken + n
            /\ UNCHANGED pc
  /\ UNCHANGED <<use_encryption, sent, delivered, is_closed>>

\* The socket has nothing more for now, or malloc fails (after realloc did not).
FillEnds ==
  /\ pc = "fill"
  /\ max_size' = Grown
  /\ pc' = "parse"
  /\ taken = sent \/ use_encryption
  /\ UNCHANGED <<use_encryption, sent, taken, content, delivered, is_closed>>

\* The connection is gone: mcpr_connection_close (ClientService has what that does).
FillFails ==
  /\ pc = "fill"
  /\ max_size' = Grown
  /\ is_closed' = TRUE
  /\ pc' = "parse"
  /\ UNCHANGED <<use_encryption, sent, taken, content, delivered>>

-----------------------------------------------------------------------------
(* mcpr_connection_read_packet, once the buffer is filled.                 *)

\* The frame that begins at the front of the buffer, if its length can be read.
FrontFrame(k) ==
  /\ k \in Frames
  /\ Len(content) >= HeaderSize
  /\ SubSeq(content, 1, HeaderSize) = Bytes(End[k - 1], HeaderSize)

\* Variant: strictly more than the packet's length is waited for.
Complete_Strict(k) == Len(content) - HeaderSize > Bodies[k]

Complete(k) == Len(content) - HeaderSize >= Bodies[k]

Intact(k) == SubSeq(content, HeaderSize + 1, HeaderSize + Bodies[k])
               = Bytes(End[k - 1] + HeaderSize, Bodies[k])

\* Part of a length.
HeaderCut == Len(content) \in 1 .. HeaderSize - 1 /\ Head(content) # 0

\* No length, or not all of the packet yet.
ParseNothing ==
  /\ pc = "parse"
  /\ \/ content = <<>>
     \/ HeaderCut
     \/ \E k \in Frames : FrontFrame(k) /\ ~Complete(k)
  /\ pc' = "idle"
  /\ UNCHANGED <<use_encryption, sent, taken, content, max_size, delivered, is_closed>>

\* Variant: the length stays in the buffer.
ParsePacket_KeepHeader ==
  /\ pc = "parse"
  /\ \E k \in Frames :
       /\ FrontFrame(k) /\ Complete(k) /\ Intact(k) /\ k \notin Malformed
       /\ delivered' = Append(delivered, k)
       /\ content' = Drop(content, Bodies[k])
  /\ pc' = "idle"
  /\ UNCHANGED <<use_encryption, sent, taken, max_size, is_closed>>

ParsePacket ==
  /\ pc = "parse"
  /\ \E k \in Frames :
       /\ FrontFrame(k) /\ Complete(k) /\ Intact(k) /\ k \notin Malformed
       /\ delivered' = Append(delivered, k)
       /\ content' = Drop(content, HeaderSize + Bodies[k])
  /\ pc' = "idle"
  /\ UNCHANGED <<use_encryption, sent, taken, max_size, is_closed>>

\* mcpr_decode_packet reports an error; the packet stays where it is.
ParseFails ==
  /\ pc = "parse"
  /\ \E k \in Frames : FrontFrame(k) /\ Complete(k) /\ Intact(k) /\ k \in Malformed
  /\ is_closed' = TRUE
  /\ pc' = "idle"
  /\ UNCHANGED <<use_encryption, sent, taken, content, max_size, delivered>>

\* The front of the buffer is not what the client sent: it may pass for no packet, for a
\* packet of any length, or for one that does not decode.
ParseJunk ==
  /\ pc = "parse"
  /\ content # <<>>
  /\ ~HeaderCut
  /\ \A k \in Frames : ~ (FrontFrame(k) /\ (Complete(k) => Intact(k)))
  /\ pc' = "idle"
  /\ \/ UNCHANGED <<content, delivered, is_closed>>
     \/ /\ \E n \in 1 .. Len(content) : content' = Drop(content, n)
        /\ delivered' = Append(delivered, 0)
        /\ UNCHANGED is_closed
     \/ /\ is_closed' = TRUE
        /\ UNCHANGED <<content, delivered>>
  /\ UNCHANGED <<use_encryption, sent, taken, max_size>>

-----------------------------------------------------------------------------
Reader == \/ ReadPacket
          \/ GrowFails \/ FillEncrypted \/ FillPlain \/ FillEnds \/ FillFails
          \/ ParseNothing \/ ParsePacket \/ ParseFails \/ ParseJunk

Next == Send \/ Reader

Spec == Init /\ [][Next]_vars

(* update_client reads from every connection in every tick, and memory is  *)
(* not short for ever.                                                     *)
FairSpec == Spec /\ WF_vars(Reader) /\ SF_vars(FillEncrypted)

-----------------------------------------------------------------------------
TypeOK ==
  /\ use_encryption \in BOOLEAN
  /\ sent \in 0 .. Total /\ taken \in 0 .. sent
  /\ content \in Seq(0 .. Total)
  /\ max_size \in Nat
  /\ pc \in {"idle", "fill", "parse", "overrun"}
  /\ delivered \in Seq(Frames \cup {0})
  /\ is_closed \in BOOLEAN

\* On an encrypted connection the packets come out whole and in the order they were sent, and
\* the buffer holds exactly the bytes behind them: however they are cut on the way, no byte is
\* lost, doubled or taken for another (mcpr_connection_read_packet's memmove).
NothingLost ==
  use_encryption =>
    /\ delivered = [i \in 1 .. Len(delivered) |-> i]
    /\ content = Bytes(End[Len(delivered)], taken - End[Len(delivered)])

\* The receiving buffer of an encrypted connection never holds more than was allocated
\* (connection.c:190, "Ensure the buffer is large enough.").
BufferFits == use_encryption => Len(content) <= max_size

\* A packet that was sent whole, behind packets that decode, is delivered some time, unless
\* the connection is closed before.
PacketsArrive ==
  \A k \in Frames : use_encryption /\ sent >= End[k] ~> Len(delivered) >= k \/ is_closed

\* No connection writes past its receiving buffer (connection.c:190).
NeverOverruns == pc # "overrun"
=============================================================================
