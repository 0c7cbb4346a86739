------------------------------ MODULE Session ------------------------------
(***************************************************************************)
(* src/network/packethandlers/ and the clocks of update_client: the life   *)
(* of one connection, from its first packet to its end.  One tick visits   *)
(* the connection once (ClientService); during the visit it may be sent a  *)
(* keep alive, its packets are handled one after the other, and at the end *)
(* it may be timed out.                                                    *)
(*                                                                         *)
(* Two clocks: the internal one stands still during a visit and advances   *)
(* with the tick; the wall clock passes at any time.  Both are kept as     *)
(* ages, up to just past the limit they are compared with.                 *)
(***************************************************************************)
EXTENDS Integers

CONSTANTS
  Names, NoName,    \* user names
  KeepAliveAfter,   \* ticks between two keep alives (10 s)
  KeepAliveLimit,   \* ticks without an answer until a player is timed out (30 s)
  ConnectLimit,     \* wall time a connection may be without a player (60 s)
  Patience,         \* ticks a punctual client takes to answer a keep alive, at most
  WritesReported,   \* fwrite on a packet stream may report success
  MaxTeleportId     \* bound on last_teleport_id

ASSUME NameAssumption == NoName \notin Names
ASSUME TimeAssumption ==
  /\ KeepAliveAfter \in Nat \ {0} /\ KeepAliveLimit \in Nat
  /\ ConnectLimit \in Nat /\ Patience \in Nat
  /\ KeepAliveAfter + Patience < KeepAliveLimit
ASSUME BoundAssumption == MaxTeleportId \in Nat /\ WritesReported \in BOOLEAN

VARIABLES
  place,             \* where the server is with the connection
  process,           \* "running", or how the process died
  state,             \* protocol state
  is_closed,         \* mcpr has marked its connection closed
  tmp_present,       \* conn->tmp has been filled in
  username,          \* the name conn->tmp.username points to
  player_name,       \* the name of conn->player, if any
  owned,             \* the pointers that point to an allocation of their own
  had_player,        \* update_client's copy of conn->player is not NULL
  last_teleport_id,  \* Garbage until it is first set
  sent_age,          \* ticks since last_keepalive_sent
  received_age,      \* ticks since last_keepalive_received
  waited,            \* wall time since connected_at
  echoes,            \* positions sent to confirm one, since the client settings
  pending,           \* age of the oldest keep alive the client has not answered
  late,              \* the client has once taken longer than Patience
  fault,             \* the server has once failed to send a keep alive in time
  joined_in_time     \* the player joined within ConnectLimit

protocolVars == <<state, is_closed>>
loginVars == <<tmp_present, username, player_name, owned>>
teleportVars == <<last_teleport_id, echoes>>
keepaliveVars == <<sent_age, received_age, pending, late, fault>>
waitVars == <<waited, joined_in_time>>
dataVars == <<protocolVars, loginVars, teleportVars, keepaliveVars, waitVars, had_player>>
vars == <<place, process, dataVars>>

Places == {"idle", "update", "read", "timeout", "gone"}
Deaths == {"recursion", "segfault", "abort", "badfree", "wild"}
Pointers == {"server_address", "rsa", "verify_token", "username", "player", "name"}
LoginPointers == {"rsa", "verify_token", "username"}
PlayerPointers == {"player", "name"}
Garbage == -1
Nothing == -1   \* pending, when no keep alive is

Over == place = "gone" \/ process # "running"
HasPlayer == "player" \in owned
At(p) == process = "running" /\ place = p
Receives(s) == At("read") /\ state = s
Older(age, limit) == IF age < limit THEN age + 1 ELSE limit

\* packet_handler and do_timeout: connection_close, which a protocol state s with a disconnect
\* packet does not survive (McprClose of ClientService).
Close(s) == IF is_closed \/ s \in {"handshake", "status"}
            THEN place' = "gone" /\ UNCHANGED process
            ELSE process' = "recursion" /\ UNCHANGED place

Dies(how) == process' = how /\ UNCHANGED place
Stays == UNCHANGED <<place, process>>

-----------------------------------------------------------------------------
\* accept_incoming_connections.
Init ==
  /\ place = "idle" /\ process = "running"
  /\ state = "handshake" /\ is_closed = FALSE
  /\ tmp_present = FALSE /\ username = NoName /\ player_name = NoName /\ owned = {}
  /\ had_player = FALSE
  /\ last_teleport_id = Garbage /\ echoes = 0
  /\ sent_age = 0 /\ received_age = 0 /\ waited = 0
  /\ pending = Nothing /\ late = FALSE /\ fault = FALSE /\ joined_in_time = FALSE

-----------------------------------------------------------------------------
(* Time                                                                    *)

\* The internal clock advances by a tick, and the next visit is due.
Tick ==
  /\ At("idle")
  /\ place' = "update"
  /\ sent_age' = Older(sent_age, KeepAliveAfter + 1)
  /\ received_age' = Older(received_age, KeepAliveLimit)
  /\ pending' = IF pending = Nothing THEN Nothing ELSE Older(pending, Patience + 1)
  /\ late' = (late \/ pending' = Patience + 1)
  /\ UNCHANGED <<process, protocolVars, loginVars, teleportVars, waitVars, had_player, fault>>

\* A second of wall time passes: reading sleeps, the session server takes its time.
WallClock ==
  /\ ~Over /\ waited <= ConnectLimit
  /\ waited' = waited + 1
  /\ UNCHANGED <<place, process, protocolVars, loginVars, teleportVars, keepaliveVars,
                 had_player, joined_in_time>>

-----------------------------------------------------------------------------
(* update_client                                                           *)

\* The batch could not be allocated: nobody visits the connection in this tick.
BatchLost ==
  /\ At("update")
  /\ place' = "idle"
  /\ fault' = (fault \/ HasPlayer)
  /\ UNCHANGED <<process, protocolVars, loginVars, teleportVars, sent_age, received_age, pending,
                 late, waitVars, had_player>>

\* Variant: the comparison is off by one.
KeepAliveDue_Later == HasPlayer /\ sent_age > KeepAliveAfter

KeepAliveDue == HasPlayer /\ sent_age >= KeepAliveAfter

BeginUpdate ==
  /\ At("update")
  /\ ~KeepAliveDue
  /\ place' = "read"
  /\ had_player' = HasPlayer
  /\ UNCHANGED <<process, protocolVars, loginVars, teleportVars, keepaliveVars, waitVars>>

KeepAliveSent ==
  /\ At("update")
  /\ KeepAliveDue
  /\ WritesReported
  /\ place' = "read"
  /\ had_player' = TRUE
  /\ sent_age' = 0
  /\ pending' = IF pending = Nothing THEN 0 ELSE pending
  /\ UNCHANGED <<process, protocolVars, loginVars, teleportVars, received_age, late, fault,
                 waitVars>>

\* The last error is looked at without asking whether there is one.
KeepAliveUnsent ==
  /\ At("update")
  /\ KeepAliveDue
  /\ had_player' = TRUE
  /\ fault' = TRUE
  /\ \/ place' = "read" /\ UNCHANGED process
     \/ Close(state)
     \/ Dies("segfault")
  /\ UNCHANGED <<protocolVars, loginVars, teleportVars, sent_age, received_age, pending, late,
                 waitVars>>

\* The client has sent nothing (more).
ReadNothing ==
  /\ At("read")
  /\ place' = "timeout"
  /\ UNCHANGED <<process, dataVars>>

\* The socket is gone, or the packet does not decode: mcpr closes its connection and tells
\* nobody, or has freed a packet on the stack.
ReadFails ==
  /\ At("read")
  /\ \/ /\ is_closed \/ state \in {"handshake", "status"}
        /\ is_closed' = TRUE
        /\ place' = "timeout" /\ UNCHANGED process
     \/ /\ ~is_closed /\ state \in {"login", "play"}
        /\ Dies("recursion") /\ UNCHANGED is_closed
     \/ Dies("badfree") /\ UNCHANGED is_closed
  /\ UNCHANGED <<state, loginVars, teleportVars, keepaliveVars, waitVars, had_player>>

\* Variant: players are judged by the keep alives they were sent.
TimedOut_Sent == IF had_player THEN sent_age >= KeepAliveLimit ELSE waited > ConnectLimit

\* Variant: nobody looks at connections without a player.
TimedOut_Players == had_player /\ received_age >= KeepAliveLimit

TimedOut == IF had_player THEN received_age >= KeepAliveLimit ELSE waited > ConnectLimit

EndUpdate ==
  /\ At("timeout")
  /\ IF TimedOut THEN Close(state) ELSE place' = "idle" /\ UNCHANGED process
  /\ UNCHANGED dataVars

-----------------------------------------------------------------------------
(* HANDSHAKE and STATUS                                                    *)

\* Variant: the next state is not checked.
NextStates_Any == {"status", "login", "play", "unknown"}

NextStates == {"status", "login"}

\* handle_hs_handshake: a client that wants to log in with another protocol version is refused;
\* so is one whose server address cannot be kept.
Handshake ==
  /\ Receives("handshake")
  /\ state' \in NextStates
  /\ \/ owned' = owned \cup {"server_address"} /\ Stays
     \/ Close(state') /\ UNCHANGED owned
  /\ UNCHANGED <<is_closed, tmp_present, username, player_name, teleportVars, keepaliveVars,
                 waitVars, had_player>>

\* handle_st_request, handle_st_ping: a ping is answered by closing.
Status ==
  /\ Receives("status")
  /\ Stays \/ Close(state)
  /\ UNCHANGED dataVars

-----------------------------------------------------------------------------
(* LOGIN                                                                   *)

\* handle_lg_login_start: the name is stored before all else, over that of an earlier login
\* start; the key and the token of this one are given back, or lost.
LoginStartFails(n) ==
  /\ Receives("login")
  /\ username' = n
  /\ Close(state)
  /\ UNCHANGED <<protocolVars, tmp_present, player_name, owned, teleportVars, keepaliveVars,
                 waitVars, had_player>>

\* The client is sent an encryption request.  What an earlier login start left is overwritten.
LoginStart(n) ==
  /\ Receives("login")
  /\ WritesReported
  /\ tmp_present' = TRUE
  /\ username' = n
  /\ owned' = owned \cup LoginPointers
  /\ Stays
  /\ UNCHANGED <<protocolVars, player_name, teleportVars, keepaliveVars, waitVars, had_player>>

\* handle_lg_encryption_response, without a login start before it.
ResponseUnasked ==
  /\ Receives("login")
  /\ ~tmp_present
  /\ Close(state)
  /\ UNCHANGED dataVars

ResponseAsked == Receives("login") /\ tmp_present

\* Labels err and closed.  The response does not decrypt, the session server does not know the
\* client, or memory is short; there is no memory for the player; or a packet after the login
\* success cannot be written, and the player is freed with its name.
LoginFails ==
  /\ ResponseAsked
  /\ \/ UNCHANGED state
     \/ WritesReported /\ state' = "play"
  /\ owned' = owned \ LoginPointers
  /\ tmp_present' = FALSE
  /\ IF LoginPointers \subseteq owned THEN Close(state') ELSE Dies("wild")
  /\ UNCHANGED <<is_closed, username, player_name, teleportVars, keepaliveVars, waitVars,
                 had_player>>

\* The login success is not written and there is no last error.
LoginDies ==
  /\ ResponseAsked
  /\ Dies("segfault")
  /\ UNCHANGED dataVars

\* Variant: the label cleanup_only frees what err does.
LoginSucceeds_FreeName ==
  /\ ResponseAsked
  /\ WritesReported
  /\ state' = "play"
  /\ tmp_present' = FALSE
  /\ owned' = (owned \ LoginPointers) \cup {"player"}
  /\ player_name' = username
  /\ last_teleport_id' = Garbage
  /\ sent_age' = 0 /\ received_age' = 0
  /\ joined_in_time' = (waited <= ConnectLimit)
  /\ Stays
  /\ UNCHANGED <<is_closed, username, echoes, pending, late, fault, waited, had_player>>

\* create_player, send_post_login_sequence and the label cleanup_only: the name goes over to
\* the player.
LoginSucceeds ==
  /\ ResponseAsked
  /\ WritesReported
  /\ state' = "play"
  /\ tmp_present' = FALSE
  /\ owned' = (owned \ LoginPointers) \cup PlayerPointers
  /\ player_name' = username
  /\ last_teleport_id' = Garbage
  /\ sent_age' = 0 /\ received_age' = 0
  /\ joined_in_time' = (waited <= ConnectLimit)
  /\ IF LoginPointers \subseteq owned THEN Stays ELSE Dies("wild")
  /\ UNCHANGED <<is_closed, username, echoes, pending, late, fault, waited, had_player>>

-----------------------------------------------------------------------------
(* PLAY                                                                    *)

\* handle_pl_keep_alive: whatever its id.
KeepAlive ==
  /\ Receives("play")
  /\ received_age' = 0
  /\ pending' = Nothing
  /\ IF HasPlayer THEN Stays ELSE Dies("wild")
  /\ UNCHANGED <<protocolVars, loginVars, teleportVars, sent_age, late, fault, waitVars,
                 had_player>>

\* handle_pl_client_settings, once the chunks are sent (which is never said to have failed).
ClientSettings ==
  /\ Receives("play")
  /\ WritesReported
  /\ last_teleport_id' = 0
  /\ echoes' = 0
  /\ IF HasPlayer THEN Stays ELSE Dies("wild")
  /\ UNCHANGED <<protocolVars, loginVars, keepaliveVars, waitVars, had_player>>

\* The position is not written.  The error's message, not its type, is compared, and may be NULL.
ClientSettingsFail ==
  /\ Receives("play")
  /\ Close(state) \/ Dies("segfault")
  /\ UNCHANGED dataVars

\* Variant: the id is raised only where the position is not sent.
TeleportConfirm_Again ==
  /\ Receives("play")
  /\ last_teleport_id < MaxTeleportId
  /\ \/ /\ last_teleport_id \in {0, Garbage} /\ WritesReported
        /\ echoes' = IF last_teleport_id = 0 THEN echoes + 1 ELSE echoes
        /\ UNCHANGED last_teleport_id
     \/ /\ last_teleport_id # 0 /\ UNCHANGED echoes
        /\ last_teleport_id' = IF last_teleport_id = Garbage THEN Garbage ELSE last_teleport_id + 1
  /\ Stays
  /\ UNCHANGED <<protocolVars, loginVars, keepaliveVars, waitVars, had_player>>

\* handle_pl_teleport_confirm.  Before the client settings the id is whatever the memory holds.
TeleportConfirm ==
  /\ Receives("play")
  /\ last_teleport_id < MaxTeleportId
  /\ \/ /\ last_teleport_id \in {0, Garbage} /\ WritesReported
        /\ echoes' = IF last_teleport_id = 0 THEN echoes + 1 ELSE echoes
     \/ last_teleport_id # 0 /\ UNCHANGED echoes
  /\ last_teleport_id' = IF last_teleport_id = Garbage THEN Garbage ELSE last_teleport_id + 1
  /\ IF HasPlayer THEN Stays ELSE Dies("wild")
  /\ UNCHANGED <<protocolVars, loginVars, keepaliveVars, waitVars, had_player>>

TeleportConfirmFails ==
  /\ Receives("play")
  /\ last_teleport_id \in {0, Garbage}
  /\ Close(state)
  /\ UNCHANGED dataVars

\* handle_pl_chat_message.
Chat ==
  /\ Receives("play")
  /\ Dies("abort")
  /\ UNCHANGED dataVars

\* The other handlers keep what nobody reads (the client's brand, the held item) or nothing.
Unanswered ==
  /\ Receives("play")
  /\ UNCHANGED vars

-----------------------------------------------------------------------------
Packet ==
  \/ Handshake \/ Status
  \/ \E n \in Names : LoginStart(n) \/ LoginStartFails(n)
  \/ ResponseUnasked \/ LoginFails \/ LoginDies \/ LoginSucceeds
  \/ KeepAlive \/ ClientSettings \/ ClientSettingsFail
  \/ TeleportConfirm \/ TeleportConfirmFails \/ Chat \/ Unanswered

Visit ==
  \/ BatchLost \/ BeginUpdate \/ KeepAliveSent \/ KeepAliveUnsent
  \/ Packet \/ ReadNothing \/ ReadFails \/ EndUpdate

Next == Tick \/ WallClock \/ Visit

Spec == Init /\ [][Next]_vars

(* The tick goes on; batches are not lost for ever.  That a client pauses  *)
(* is an assumption about clients, as in ClientService.                    *)
FairSpec ==
  /\ Spec
  /\ WF_vars(Tick) /\ WF_vars(EndUpdate)
  /\ SF_vars(BeginUpdate \/ KeepAliveSent \/ KeepAliveUnsent)
  /\ SF_vars(ReadNothing)

-----------------------------------------------------------------------------
ControlTypes ==
  /\ place \in Places /\ process \in {"running"} \cup Deaths
  /\ state \in {"handshake", "status", "login", "play"} /\ is_closed \in BOOLEAN
  /\ tmp_present \in BOOLEAN /\ had_player \in BOOLEAN
  /\ username \in Names \cup {NoName} /\ player_name \in Names \cup {NoName}
  /\ owned \subseteq Pointers
  /\ late \in BOOLEAN /\ fault \in BOOLEAN /\ joined_in_time \in BOOLEAN

CountTypes ==
  /\ last_teleport_id \in {Garbage} \cup 0 .. MaxTeleportId /\ echoes \in Nat
  /\ sent_age \in 0 .. KeepAliveAfter + 1 /\ received_age \in 0 .. KeepAliveLimit
  /\ waited \in 0 .. ConnectLimit + 1
  /\ pending \in {Nothing} \cup 0 .. Patience + 1

TypeOK == ControlTypes /\ CountTypes

\* Between two packets: what a login has so far can be freed by the label err, exactly while
\* tmp_present says so; in PLAY there is a player and its name is its own; the server address is
\* there when mapi_minecraft_has_joined is given it; and no handler has used a bad pointer.
Owning ==
  /\ process # "wild"
  /\ ~Over /\ tmp_present => LoginPointers \subseteq owned /\ username # NoName
  /\ ~Over /\ state = "play" => PlayerPointers \subseteq owned /\ ~tmp_present
  /\ ~Over /\ state # "handshake" => "server_address" \in owned

\* After client settings the confirmed position is sent once: for the first confirmation.
EchoedOnce == ~Over /\ last_teleport_id # Garbage => echoes = IF last_teleport_id = 0 THEN 0 ELSE 1

\* A player whose client answers each keep alive within Patience, and to whom none failed to be
\* sent, is not timed out.
PunctualKept == place = "timeout" /\ had_player /\ ~late /\ ~fault => ~TimedOut

\* A connection is over when its client has not become a player in time, and a player is when
\* its client has fallen silent.
Unfinished == ~Over /\ ~HasPlayer /\ waited > ConnectLimit
Silent == ~Over /\ HasPlayer /\ received_age = KeepAliveLimit
UnfinishedDropped == Unfinished ~> ~Unfinished
SilentDropped == Silent ~> ~Silent

\* The connection does what the protocol allows: nobody plays without having answered an
\* encryption request, and under the name of the last login start.
Protocol == INSTANCE LoginProtocol WITH
  phase <- IF Over THEN "over" ELSE state,
  challenge <- IF ~Over /\ tmp_present THEN username ELSE NoName,
  player <- IF Over THEN NoName ELSE player_name
ImplementsProtocol == Protocol!Spec

\* A client that is refused or leaves while it logs in or plays does not take the server down:
\* it is to be told why (handshake.c:45).
RefusalSurvives == process # "recursion"

\* Who has completed the initial connection procedure in time is not timed out for not having
\* done so (network.c:501).
CompletedKept ==
  place = "timeout" /\ joined_in_time /\ TimedOut => had_player
=============================================================================
