---------------------------- MODULE PacketDecoder ----------------------------
(***************************************************************************)
(* mcpr_decode_packet of mcpr/packet.c: the fields of a client's packet,   *)
(* read one after another from a frame of maxlen bytes.  The caller        *)
(* (mcpr_connection_read_packet) takes the bytes it returns off the        *)
(* receiving buffer, so that a packet misread spoils every later one.      *)
(*                                                                         *)
(* A field is `width' bytes of a varint (none for 0), which a length may   *)
(* be, then `length' bytes.  What a frame's fields say and how long it is  *)
(* are independent: an honest client makes them agree.                     *)
(***************************************************************************)
EXTENDS Codec

CONSTANTS
  InLengths,    \* what lengths of strings and byte arrays say
  InNumbers,    \* what other varints say
  Slack         \* how much longer a frame is than its fields

ASSUME InLengthsAssumption == InLengths \subseteq Nat /\ InNumbers \subseteq 0 .. Width - 1
ASSUME SlackAssumption == Slack \subseteq Int

VARIABLES
  decoder_at,   \* "id", "fields", "decoded", "refused" (-1), "freed" (-1, with the caller's
                \* packet freed) or "zero" (0, and freed too)
  incoming,
  maxlen,       \* bytes of the frame
  todo,         \* the fields still to be read
  ptr,          \* bytes read
  len_left,     \* a size_t: below zero it has wrapped round and is larger than anything
  touched       \* the end of the furthest byte looked at

decoderVars == <<decoder_at, incoming, maxlen, todo, ptr, len_left, touched>>

EarlyIn ==
  [kind : {"REQUEST", "PING"}, valid : {TRUE}]
    \cup [kind : {"HANDSHAKE"}, text : InLengths, number : InNumbers, valid : BOOLEAN]
    \cup [kind : {"LOGIN_START"}, text : InLengths, valid : BOOLEAN]
    \cup [kind : {"ENCRYPTION_RESPONSE"}, secret : InLengths, token : InLengths, valid : BOOLEAN]

\* UNKNOWN stands for ids that are none, UNDECODED for the twenty or so (the packet a client
\* sends every tick among them) that are known and have no decoder.
PlayIn ==
  [kind : {"UNKNOWN", "UNDECODED", "POSITION", "POSITION_AND_LOOK", "LOOK", "HELD_ITEM"},
   valid : {TRUE}]
    \cup [kind : {"CHAT", "CLIENT_SETTINGS"}, text : InLengths, valid : BOOLEAN]
    \cup [kind : {"KEEP_ALIVE", "TELEPORT_CONFIRM"}, number : InNumbers, valid : {TRUE}]
    \cup [kind : {"PLUGIN_MESSAGE"}, text : InLengths, data : InLengths, valid : BOOLEAN]

Incoming == EarlyIn \cup PlayIn

-----------------------------------------------------------------------------
(* The fields.  `fails' is what a field that does not fit, or says what it *)
(* must not, comes to.                                                     *)

Fixed(n) == [op |-> "fixed", width |-> 0, length |-> n, fails |-> "freed"]
Number(n) == [op |-> "number", width |-> VarintBounds(n), length |-> 0, fails |-> "freed"]
Counted(n) == [op |-> "counted", width |-> VarintBounds(n), length |-> n, fails |-> "freed"]
Choice == [op |-> "choice", width |-> 1, length |-> 0, fails |-> "freed"]
Remainder(n) == [op |-> "remainder", width |-> 0, length |-> n, fails |-> "freed"]

EarlyInFields(p) ==
  CASE p.kind = "HANDSHAKE" ->
         <<Number(p.number), Counted(p.text), [Fixed(2) EXCEPT !.fails = "zero"],
           [Choice EXCEPT !.fails = "zero"]>>
    [] p.kind = "LOGIN_START" -> <<Counted(p.text)>>
    [] p.kind = "ENCRYPTION_RESPONSE" -> <<Counted(p.secret), Counted(p.token)>>
    [] p.kind = "PING" -> <<Fixed(8)>>
    [] p.kind = "REQUEST" -> <<>>

SettingsFields(p) == <<Counted(p.text), Fixed(1), Choice, Fixed(1), Fixed(1), Choice>>

MoveFields(p) ==
  CASE p.kind = "POSITION" -> <<Fixed(8), Fixed(8), Fixed(8), Fixed(1)>>
    [] p.kind = "POSITION_AND_LOOK" ->
         <<Fixed(8), Fixed(8), Fixed(8), Fixed(4), Fixed(4), Fixed(1)>>
    [] p.kind = "LOOK" -> <<Fixed(4), Fixed(4), Fixed(1)>>
    [] p.kind = "HELD_ITEM" -> <<Fixed(2)>>
    [] p.kind = "TELEPORT_CONFIRM" -> <<Number(p.number)>>

IncomingFields(p) ==
  CASE p \in EarlyIn -> EarlyInFields(p)
    [] p.kind = "CHAT" -> <<Counted(p.text)>>
    [] p.kind = "CLIENT_SETTINGS" -> SettingsFields(p)
    [] p.kind = "PLUGIN_MESSAGE" -> <<Counted(p.text), Remainder(p.data)>>
    [] p.kind = "KEEP_ALIVE" -> <<Number(p.number)>>
    [] p.kind \in {"UNKNOWN", "UNDECODED"} -> <<>>
    [] OTHER -> MoveFields(p)

\* What the fields and the id, one byte, take.
FieldsSize(p) ==
  LET fs == IncomingFields(p) IN 1 + SumOf([j \in DOMAIN fs |-> fs[j].width + fs[j].length])

\* A frame as the protocol has it.  The secret and the token are encrypted with one key: as
\* numbers of one size.
Honest ==
  /\ incoming.valid /\ maxlen = FieldsSize(incoming)
  /\ incoming.kind = "ENCRYPTION_RESPONSE" => incoming.secret = incoming.token

-----------------------------------------------------------------------------
DecoderInit ==
  /\ decoder_at = "id"
  /\ incoming \in Incoming
  /\ maxlen \in {FieldsSize(incoming) + d : d \in Slack} \cap (Nat \ {0})
  /\ todo = IncomingFields(incoming)
  /\ ptr = 0 /\ len_left = maxlen /\ touched = 0

DecodeId ==
  /\ decoder_at = "id"
  /\ decoder_at' = IF incoming.kind \in {"UNKNOWN", "UNDECODED"} THEN "refused" ELSE "fields"
  /\ ptr' = 1 /\ len_left' = len_left - 1 /\ touched' = 1
  /\ UNCHANGED <<incoming, maxlen, todo>>

\* len_left is compared as a size_t.
Fits(n) == len_left >= n \/ len_left < 0

\* The varint has to end in what is left; of a count's bytes nobody asks whether they do.
FieldFits(f) == Fits(f.width) /\ (f.op = "fixed" => Fits(f.length))

\* Variant: the pointer moves by the bytes of a string and not by its length's.
Taken_NoWidth(f) ==
  IF f.op = "remainder" THEN len_left
  ELSE IF f.op = "counted" THEN f.length ELSE f.width + f.length

\* What a field moves the pointer by: the rest of the frame for the data of a plugin message;
\* and by the width of the secret's length once more where the token's is meant.
Taken(f) ==
  IF f.op = "remainder" THEN len_left
  ELSE IF incoming.kind = "ENCRYPTION_RESPONSE" /\ Len(todo) = 1
    THEN VarintBounds(incoming.secret) + f.length
  ELSE f.width + f.length

DecodeField ==
  LET f == Head(todo) IN
  /\ decoder_at = "fields" /\ todo # <<>>
  /\ FieldFits(f)
  /\ f.op = "remainder" => len_left >= 0
  /\ ptr' = ptr + Taken(f)
  /\ len_left' = len_left - Taken(f)
  /\ touched' = IF ptr + Taken(f) > touched THEN ptr + Taken(f) ELSE touched
  /\ todo' = Tail(todo)
  /\ UNCHANGED <<decoder_at, incoming, maxlen>>

\* A field does not fit; its varint has been looked for one byte too far.
FieldCut ==
  LET f == Head(todo) IN
  /\ decoder_at = "fields" /\ todo # <<>>
  /\ ~FieldFits(f)
  /\ decoder_at' = IF f.op = "choice" THEN "freed" ELSE f.fails
  /\ touched' = IF f.width > 0 THEN ptr + len_left + 1 ELSE touched
  /\ UNCHANGED <<incoming, maxlen, todo, ptr, len_left>>

\* A length below zero or above the limit, or a number with no meaning.
FieldRejected ==
  /\ decoder_at = "fields" /\ todo # <<>>
  /\ Head(todo).op \in {"counted", "choice"} /\ FieldFits(Head(todo))
  /\ ~incoming.valid
  /\ decoder_at' = Head(todo).fails
  /\ UNCHANGED <<incoming, maxlen, todo, ptr, len_left, touched>>

\* malloc fails (of a size that has wrapped round, always).
FieldNoMemory ==
  /\ decoder_at = "fields" /\ todo # <<>>
  /\ Head(todo).op \in {"counted", "remainder"} /\ FieldFits(Head(todo))
  /\ decoder_at' = "freed"
  /\ UNCHANGED <<incoming, maxlen, todo, ptr, len_left, touched>>

DecodeEnds ==
  /\ decoder_at = "fields" /\ todo = <<>>
  /\ decoder_at' = "decoded"
  /\ UNCHANGED <<incoming, maxlen, todo, ptr, len_left, touched>>

DecoderNext ==
  DecodeId \/ DecodeField \/ FieldCut \/ FieldRejected \/ FieldNoMemory \/ DecodeEnds

DecoderSpec == DecoderInit /\ [][DecoderNext]_decoderVars

-----------------------------------------------------------------------------
DecoderTypeOK ==
  /\ decoder_at \in {"id", "fields", "decoded", "refused", "freed", "zero"}
  /\ incoming \in Incoming /\ maxlen \in Nat
  /\ ptr \in Nat /\ len_left \in Int /\ touched \in Nat

\* A packet of an honest client is read to exactly the end of its frame, so that the next frame
\* begins where the receiving buffer then does, and nothing behind it is looked at on the way;
\* none is taken for one that must not be, and 0 is never returned for it.
ConsumesFrame ==
  Honest =>
    /\ touched <= maxlen
    /\ decoder_at = "decoded" => ptr = maxlen
    /\ decoder_at # "zero"
=============================================================================
