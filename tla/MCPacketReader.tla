--------------------------- MODULE MCPacketReader ---------------------------
(* PacketReader on three short packets, the last of them malformed.        *)
EXTENDS PacketReader

ShortBodies == <<1, 2, 1>>
=============================================================================
