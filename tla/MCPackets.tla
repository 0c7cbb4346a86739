------------------------------- MODULE MCPackets -------------------------------
(* What is between a packet and the bytes on the wire: the reader of frames, *)
(* the varints of its lengths, the encoder and the decoder.  A behaviour is  *)
(* one of a single component, the subject; the others stay where they begin. *)
(* Numbers have nine bits in groups of two, so that five groups, as in the   *)
(* code, are not all full.                                                   *)
EXTENDS MCPacketReader, PacketEncoder, PacketDecoder

VARIABLE subject

Powers == [k \in 0 .. 5 |-> 4 ^ k]
EdgeLengths == {0, 1, 3, 4, 11, 15, 16, 20, 21, 63, 64}
EdgeNumbers == {0, 3, 4, 63, 64, 511}
Sections == [palette : {<<>>, <<0, 300>>}, words : {2}, sky_light : BOOLEAN]
SmallChunks == {<<>>} \cup {<<s>> : s \in Sections} \cup {<<s, t>> : s, t \in Sections}
ShortLengths == {0, 1, 3, 4, 63, 64}
AroundTheEnd == -3 .. 2

\* Where a component begins, for the behaviours of the others.
ReaderIdle == use_encryption = TRUE /\ Init
CodecIdle == number = 0 /\ CodecInit
EncoderIdle == packet = [kind |-> "PONG"] /\ EncoderInit
DecoderIdle == /\ incoming = [kind |-> "REQUEST", valid |-> TRUE]
               /\ maxlen = FieldsSize(incoming)
               /\ DecoderInit

PacketsInit ==
  \/ subject = "reader" /\ Init /\ CodecIdle /\ EncoderIdle /\ DecoderIdle
  \/ subject = "codec" /\ CodecInit /\ ReaderIdle /\ EncoderIdle /\ DecoderIdle
  \/ subject = "encoder" /\ EncoderInit /\ ReaderIdle /\ CodecIdle /\ DecoderIdle
  \/ subject = "decoder" /\ DecoderInit /\ ReaderIdle /\ CodecIdle /\ EncoderIdle

PacketsNext ==
  /\ UNCHANGED subject
  /\ \/ subject = "reader" /\ Next /\ UNCHANGED <<codecVars, encoderVars, decoderVars>>
     \/ subject = "codec" /\ CodecNext /\ UNCHANGED <<vars, encoderVars, decoderVars>>
     \/ subject = "encoder" /\ EncoderNext /\ UNCHANGED <<vars, codecVars, decoderVars>>
     \/ subject = "decoder" /\ DecoderNext /\ UNCHANGED <<vars, codecVars, encoderVars>>

PacketsSpec ==
  /\ PacketsInit /\ [][PacketsNext]_<<subject, vars, codecVars, encoderVars, decoderVars>>
  /\ WF_vars(subject = "reader" /\ Reader) /\ SF_vars(subject = "reader" /\ FillEncrypted)

PacketsTypeOK == TypeOK /\ CodecTypeOK /\ EncoderTypeOK /\ DecoderTypeOK
=============================================================================
