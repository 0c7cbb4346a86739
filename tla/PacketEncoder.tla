---------------------------- MODULE PacketEncoder ----------------------------
(***************************************************************************)
(* mcpr_connection_write_packet and mcpr/packet.c's two passes over an     *)
(* outgoing packet: mcpr_encode_packet_bounds says how much to allocate,   *)
(* mcpr_encode_packet writes the fields one after another with no end to   *)
(* compare with, and the packet's length goes in front of them.            *)
(*                                                                         *)
(* Of a packet the model keeps what its size depends on: the lengths of    *)
(* its strings and byte arrays, the numbers written as varints and the     *)
(* sections of a chunk.  The kinds are those the server sends; packets of  *)
(* clients abort in mcpr_packet_type_to_byte, and chat never gets here     *)
(* (chat.c aborts before).  Every packet id is below 128, one byte.        *)
(***************************************************************************)
EXTENDS Codec, SequencesExt

CONSTANTS
  Lengths,      \* of strings and byte arrays
  Numbers,      \* of what is written as a varint
  Chunks,       \* the sections of chunks: [palette, words, sky_light]
  LightBytes,   \* 2048, half a byte per block
  BiomeBytes    \* 256

ASSUME LengthsAssumption == Lengths \subseteq Nat /\ Numbers \subseteq 0 .. Width - 1
ASSUME ChunksAssumption ==
  Chunks \subseteq Seq([palette : Seq(Nat), words : Nat, sky_light : BOOLEAN])
\* What mcpr_encode_packet_bounds adds for a packet's numbers is written with five bytes a number
\* in mind; it is enough for these.
ASSUME MarginsAssumption == MaxBytes \in 2 .. 6
ASSUME BytesAssumption == LightBytes \in Nat /\ BiomeBytes \in Nat

VARIABLES
  encoder_at,     \* "bounds", "encode", "written", "failed" or "aborted"
  packet,
  unsized,        \* the status text could not be built when its size was asked for
  required_size,  \* bytes allocated
  fields,         \* the fields still to be written
  bufpointer      \* where the next one goes, from the packet's first byte

encoderVars == <<encoder_at, packet, unsized, required_size, fields, bufpointer>>

EarlyOut ==
  [kind : {"RESPONSE", "LG_DISCONNECT", "LOGIN_SUCCESS"}, text : Lengths]
    \cup [kind : {"PONG"}] \cup [kind : {"SET_COMPRESSION"}, number : Numbers]
    \cup [kind : {"ENCRYPTION_REQUEST"}, text : Lengths, key : Lengths, token : Lengths]

PlayOut ==
  [kind : {"DISCONNECT", "JOIN_GAME"}, text : Lengths]
    \cup [kind : {"SPAWN_POSITION", "PLAYER_ABILITIES"}]
    \cup [kind : {"KEEP_ALIVE", "PLAYER_POSITION_AND_LOOK"}, number : Numbers]
    \cup [kind : {"PLUGIN_MESSAGE"}, text : Lengths, data : Lengths]
    \cup [kind : {"CHUNK_DATA"}, ground_up : BOOLEAN, mask : Numbers, sections : Chunks]

-----------------------------------------------------------------------------
(* The fields.  Writing a string allocates, which may fail.                *)

Raw(n) == [size |-> n, text |-> FALSE]
Varint(n) == Raw(VarintBounds(n))
String(n) == [size |-> VarintBounds(n) + n, text |-> TRUE]
Id == Raw(1)

SumOver(s, Size(_)) == SumOf([j \in DOMAIN s |-> Size(s[j])])

SectionSize(section) ==
  1 + VarintBounds(Len(section.palette)) + Len(section.palette) * MaxBytes
    + VarintBounds(section.words) + section.words * 8
    + LightBytes + (IF section.sky_light THEN LightBytes ELSE 0)

\* Variant: the sky light is not counted.
DataSize_NoSky(p) ==
  (IF p.ground_up THEN BiomeBytes ELSE 0)
    + SumOver(p.sections, LAMBDA s : SectionSize([s EXCEPT !.sky_light = FALSE]))

\* The size a chunk's packet announces for its sections and biomes, computed by both passes.
DataSize(p) ==
  (IF p.ground_up THEN BiomeBytes ELSE 0) + SumOver(p.sections, SectionSize)

SectionFields(section) ==
  <<Raw(1), Varint(Len(section.palette))>>
    \o [j \in DOMAIN section.palette |-> Varint(section.palette[j])]
    \o <<Varint(section.words), Raw(section.words * 8), Raw(LightBytes)>>
    \o IF section.sky_light THEN <<Raw(LightBytes)>> ELSE <<>>

\* mcpr_encode_packet_bounds.
EarlyBounds(p) ==
  CASE p.kind = "PONG" -> MaxBytes + 8
    [] p.kind = "RESPONSE" -> MaxBytes + MaxBytes + p.text
    [] p.kind = "LG_DISCONNECT" -> 10 + p.text
    [] p.kind = "ENCRYPTION_REQUEST" -> 20 + p.text + p.key + p.token
    [] p.kind = "LOGIN_SUCCESS" -> 51 + p.text
    [] p.kind = "SET_COMPRESSION" -> 10

PlayBounds(p) ==
  CASE p.kind = "DISCONNECT" -> 10 + p.text
    [] p.kind = "KEEP_ALIVE" -> 10
    [] p.kind = "JOIN_GAME" -> 33
    [] p.kind = "PLUGIN_MESSAGE" -> 10 + p.text + p.data
    [] p.kind = "SPAWN_POSITION" -> MaxBytes + 8
    [] p.kind = "PLAYER_ABILITIES" -> MaxBytes + 1 + 4 + 4
    [] p.kind = "PLAYER_POSITION_AND_LOOK" -> MaxBytes + 8 * 3 + 4 * 2 + 1 + MaxBytes
    [] p.kind = "CHUNK_DATA" -> 4 + 4 + 1 + MaxBytes + MaxBytes + DataSize(p) + MaxBytes

PacketBounds(p) == IF p \in EarlyOut THEN EarlyBounds(p) ELSE PlayBounds(p)

\* mcpr_encode_packet.  A uuid is written as a string of 36 letters.
EarlyFields(p) ==
  CASE p.kind = "PONG" -> <<Id, Raw(8)>>
    [] p.kind = "RESPONSE" -> <<Id, Varint(p.text), Raw(p.text)>>
    [] p.kind = "LG_DISCONNECT" -> <<Id, String(p.text)>>
    [] p.kind = "ENCRYPTION_REQUEST" ->
         <<Id, String(p.text), Varint(p.key), Raw(p.key), Varint(p.token), Raw(p.token)>>
    [] p.kind = "LOGIN_SUCCESS" -> <<Id, String(36), String(p.text)>>
    [] p.kind = "SET_COMPRESSION" -> <<Id, Varint(p.number)>>

\* A join names one of the level types, of at most eleven letters.
PlayFields(p) ==
  CASE p.kind = "DISCONNECT" -> <<Id, String(p.text)>>
    [] p.kind = "KEEP_ALIVE" -> <<Id, Varint(p.number)>>
    [] p.kind = "JOIN_GAME" ->
         <<Id, Raw(4), Raw(1), Raw(4), Raw(1), Raw(1), String(p.text), Raw(1)>>
    [] p.kind = "PLUGIN_MESSAGE" -> <<Id, String(p.text), Raw(p.data)>>
    [] p.kind = "SPAWN_POSITION" -> <<Id, Raw(8)>>
    [] p.kind = "PLAYER_ABILITIES" -> <<Id, Raw(1), Raw(4), Raw(4)>>
    [] p.kind = "PLAYER_POSITION_AND_LOOK" ->
         <<Id, Raw(8), Raw(8), Raw(8), Raw(4), Raw(4), Raw(1), Varint(p.number)>>

\* No chunk has block entities.
ChunkFields(p) ==
  <<Id, Raw(4), Raw(4), Raw(1), Varint(p.mask), Varint(DataSize(p))>>
    \o FlattenSeq([i \in DOMAIN p.sections |-> SectionFields(p.sections[i])])
    \o (IF p.ground_up THEN <<Raw(BiomeBytes)>> ELSE <<>>)
    \o <<Varint(0)>>

PacketFields(p) ==
  IF p \in EarlyOut THEN EarlyFields(p)
  ELSE IF p.kind = "CHUNK_DATA" THEN ChunkFields(p) ELSE PlayFields(p)

-----------------------------------------------------------------------------
(* mcpr_connection_write_packet                                            *)

EncoderInit ==
  /\ encoder_at = "bounds"
  /\ packet \in {p \in EarlyOut \cup PlayOut : p.kind = "JOIN_GAME" => p.text <= 11}
  /\ unsized = FALSE /\ required_size = 0
  /\ fields = <<>> /\ bufpointer = 0

\* Whether a packet's text can be built: the status is composed anew each time it is asked for,
\* which may fail.
TextBuilt(p) == {TRUE, p.kind # "RESPONSE"}

\* The status text is built to be measured; without it the size is taken to be 0.
AskBounds ==
  /\ encoder_at = "bounds"
  /\ unsized' \in {~built : built \in TextBuilt(packet)}
  /\ required_size' = MaxBytes + IF unsized' THEN 0 ELSE PacketBounds(packet)
  /\ encoder_at' \in {"encode", "failed"}
  /\ fields' = PacketFields(packet)
  /\ UNCHANGED <<packet, bufpointer>>

\* A channel's name of more than twenty letters.
RefuseChannel ==
  /\ encoder_at = "encode" /\ bufpointer = 0
  /\ packet.kind = "PLUGIN_MESSAGE" /\ packet.text > 20
  /\ encoder_at' = "aborted"
  /\ UNCHANGED <<packet, unsized, required_size, fields, bufpointer>>

WriteField ==
  /\ encoder_at = "encode" /\ fields # <<>>
  /\ ~ (packet.kind = "PLUGIN_MESSAGE" /\ packet.text > 20)
  /\ bufpointer' = bufpointer + Head(fields).size
  /\ fields' = Tail(fields)
  /\ UNCHANGED <<encoder_at, packet, unsized, required_size>>

\* No memory for a string's copy, or for the status text the second time.
WriteFails ==
  /\ encoder_at = "encode" /\ fields # <<>>
  /\ Head(fields).text \/ (FALSE \in TextBuilt(packet) /\ bufpointer = 0)
  /\ encoder_at' = "failed"
  /\ UNCHANGED <<packet, unsized, required_size, fields, bufpointer>>

\* The length is written so that it ends where the packet begins, and both are sent.
WritePrefix ==
  /\ encoder_at = "encode" /\ fields = <<>>
  /\ encoder_at' = IF bufpointer > Width \div 2 - 1 THEN "failed" ELSE "written"
  /\ UNCHANGED <<packet, unsized, required_size, fields, bufpointer>>

EncoderNext == AskBounds \/ RefuseChannel \/ WriteField \/ WriteFails \/ WritePrefix

EncoderSpec == EncoderInit /\ [][EncoderNext]_encoderVars

-----------------------------------------------------------------------------
EncoderTypeOK ==
  /\ encoder_at \in {"bounds", "encode", "written", "failed", "aborted"}
  /\ unsized \in BOOLEAN
  /\ required_size \in Nat /\ bufpointer \in Nat

\* What the encoder writes stays inside what the bounds had allocated, for every kind of packet
\* and every width its numbers take, though the bounds forget the id of a chunk's packet; the
\* exception is a status text that could be built the second time only.  And the size a chunk
\* announces is the size of its sections and biomes, or the client would read on in the wrong
\* place (a palette, which the server never sends, is counted with five bytes an entry).
FrameExact ==
  /\ ~unsized => MaxBytes + bufpointer <= required_size \/ encoder_at = "bounds"
  /\ encoder_at = "written" /\ packet.kind = "CHUNK_DATA"
       /\ (\A i \in DOMAIN packet.sections : packet.sections[i].palette = <<>>)
     => bufpointer = 1 + 4 + 4 + 1 + VarintBounds(packet.mask) + VarintBounds(DataSize(packet))
                       + DataSize(packet) + 1
=============================================================================
