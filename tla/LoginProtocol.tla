--------------------------- MODULE LoginProtocol ---------------------------
(***************************************************************************)
(* What the server promises about one connection: it moves forward through *)
(* handshake, status or login, and play; it plays only with a client that  *)
(* answered a challenge, under the name of the last login start; and from  *)
(* anywhere it may be over.                                                *)
(***************************************************************************)
CONSTANTS
  Names,   \* user names
  NoName   \* no user name

VARIABLES
  phase,      \* handshake, status, login, play, or over
  challenge,  \* the name whose client has been sent an encryption request
  player      \* the name of the connection's player

protocolVars == <<phase, challenge, player>>

Init == phase = "handshake" /\ challenge = NoName /\ player = NoName

Shake ==
  /\ phase = "handshake"
  /\ phase' \in {"status", "login"}
  /\ UNCHANGED <<challenge, player>>

Challenge(n) ==
  /\ phase = "login"
  /\ challenge' = n
  /\ UNCHANGED <<phase, player>>

Join ==
  /\ phase = "login"
  /\ challenge # NoName
  /\ phase' = "play"
  /\ player' = challenge
  /\ challenge' = NoName

End ==
  /\ phase # "over"
  /\ phase' = "over"
  /\ challenge' = NoName
  /\ player' = NoName

Next == Shake \/ (\E n \in Names : Challenge(n)) \/ Join \/ End

Spec == Init /\ [][Next]_protocolVars
=============================================================================
