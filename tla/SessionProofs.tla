--------------------------- MODULE SessionProofs ---------------------------
(***************************************************************************)
(* Proofs about Session: for any names and any times with                  *)
(* KeepAliveAfter + Patience < KeepAliveLimit.                             *)
(***************************************************************************)
EXTENDS Session, TLAPS

USE DEF Garbage, Nothing

\* A connection that is closed stays at its place and the process dies, or it is gone.
LEMMA CloseTypes ==
  ASSUME ControlTypes, NEW s, Close(s)
  PROVE  place' \in Places /\ process' \in {"running"} \cup Deaths
BY DEF Close, ControlTypes, Places, Deaths

LEMMA TypeInit == Init => TypeOK
<1>1. Init => ControlTypes
  BY DEF Init, ControlTypes, Places, Deaths, Pointers
<1>2. Init => CountTypes
  BY TimeAssumption, BoundAssumption DEF Init, CountTypes
<1> QED
  BY <1>1, <1>2 DEF TypeOK

\* Places, deaths, states, names, pointers and marks stay within their sets.
LEMMA ControlStep == ControlTypes /\ [Next]_vars => ControlTypes'
<1> SUFFICES ASSUME ControlTypes, [Next]_vars PROVE ControlTypes'
  OBVIOUS
<1> USE DEF ControlTypes, Places, Deaths, Pointers, LoginPointers, PlayerPointers
<1> USE DEF protocolVars, loginVars, teleportVars, keepaliveVars, waitVars, dataVars
<1>1. CASE UNCHANGED vars
  BY <1>1 DEF vars
<1>2. CASE Tick
  BY <1>2 DEF Tick, Older
<1>3. CASE WallClock
  BY <1>3 DEF WallClock
<1>4. CASE BatchLost
  BY <1>4 DEF BatchLost
<1>5. CASE BeginUpdate
  BY <1>5 DEF BeginUpdate, HasPlayer
<1>6. CASE KeepAliveSent
  BY <1>6 DEF KeepAliveSent
<1>7. CASE KeepAliveUnsent
  BY <1>7 DEF KeepAliveUnsent, Close, Dies
<1>8. CASE ReadNothing
  BY <1>8 DEF ReadNothing
<1>9. CASE ReadFails
  <2>1. place' \in Places /\ process' \in {"running"} \cup Deaths
    BY <1>9 DEF ReadFails, Dies
  <2>2. is_closed' \in BOOLEAN
    BY <1>9 DEF ReadFails
  <2> QED
    BY <1>9, <2>1, <2>2 DEF ReadFails
<1>10. CASE EndUpdate
  BY <1>10 DEF EndUpdate, Close
<1>11. CASE Handshake
  <2>1. CASE owned' = owned \cup {"server_address"} /\ Stays
    BY <1>11, <2>1 DEF Handshake, NextStates, Stays
  <2>2. CASE Close(state') /\ UNCHANGED owned
    BY <1>11, <2>2, CloseTypes DEF Handshake, NextStates
  <2> QED
    BY <1>11, <2>1, <2>2 DEF Handshake
<1>12. CASE Status
  BY <1>12 DEF Status, Close, Stays
<1>13. ASSUME NEW n \in Names, LoginStart(n) PROVE ControlTypes'
  BY <1>13 DEF LoginStart, Stays
<1>14. ASSUME NEW n \in Names, LoginStartFails(n) PROVE ControlTypes'
  BY <1>14 DEF LoginStartFails, Close
<1>15. CASE ResponseUnasked
  BY <1>15 DEF ResponseUnasked, Close
<1>16. CASE LoginFails
  <2>1. state' \in {"handshake", "status", "login", "play"} /\ owned' \subseteq Pointers
    BY <1>16 DEF LoginFails
  <2>2. place' \in Places /\ process' \in {"running"} \cup Deaths
    BY <1>16, CloseTypes DEF LoginFails, Dies
  <2> QED
    BY <1>16, <2>1, <2>2 DEF LoginFails
<1>17. CASE LoginDies
  BY <1>17 DEF LoginDies, Dies
<1>18. CASE LoginSucceeds
  <2>1. owned' \subseteq Pointers /\ state' = "play" /\ tmp_present' = FALSE
    BY <1>18 DEF LoginSucceeds
  <2>2. player_name' = username /\ joined_in_time' \in BOOLEAN
    BY <1>18 DEF LoginSucceeds
  <2>3. place' \in Places /\ process' \in {"running"} \cup Deaths
    BY <1>18 DEF LoginSucceeds, Stays, Dies
  <2> QED
    BY <1>18, <2>1, <2>2, <2>3 DEF LoginSucceeds
<1>19. CASE KeepAlive
  BY <1>19 DEF KeepAlive, Stays, Dies
<1>20. CASE ClientSettings
  BY <1>20 DEF ClientSettings, Stays, Dies
<1>21. CASE ClientSettingsFail
  BY <1>21 DEF ClientSettingsFail, Close, Dies
<1>22. CASE TeleportConfirm
  BY <1>22 DEF TeleportConfirm, Stays, Dies
<1>23. CASE TeleportConfirmFails
  BY <1>23 DEF TeleportConfirmFails, Close
<1>24. CASE Chat
  BY <1>24 DEF Chat, Dies
<1>25. CASE Unanswered
  BY <1>25 DEF Unanswered, vars
<1> QED
  BY <1>1, <1>2, <1>3, <1>4, <1>5, <1>6, <1>7, <1>8, <1>9, <1>10, <1>11, <1>12, <1>13, <1>14,
     <1>15, <1>16, <1>17, <1>18, <1>19, <1>20, <1>21, <1>22, <1>23, <1>24, <1>25
  DEF Next, Visit, Packet

\* The teleport id and the ages stay within their bounds.
LEMMA CountStep == CountTypes /\ [Next]_vars => CountTypes'
<1> SUFFICES ASSUME CountTypes, [Next]_vars PROVE CountTypes'
  OBVIOUS
<1> USE TimeAssumption, BoundAssumption DEF CountTypes
<1> USE DEF protocolVars, loginVars, teleportVars, keepaliveVars, waitVars, dataVars
<1>1. CASE UNCHANGED vars
  BY <1>1 DEF vars
<1>2. CASE Tick
  BY <1>2 DEF Tick, Older
<1>3. CASE WallClock
  BY <1>3 DEF WallClock
<1>4. CASE BatchLost
  BY <1>4 DEF BatchLost
<1>5. CASE BeginUpdate
  BY <1>5 DEF BeginUpdate, HasPlayer
<1>6. CASE KeepAliveSent
  BY <1>6 DEF KeepAliveSent
<1>7. CASE KeepAliveUnsent
  BY <1>7 DEF KeepAliveUnsent, Close, Dies
<1>8. CASE ReadNothing
  BY <1>8 DEF ReadNothing
<1>9. CASE ReadFails
  BY <1>9 DEF ReadFails, Dies
<1>10. CASE EndUpdate
  BY <1>10 DEF EndUpdate, Close
<1>11. CASE Handshake
  BY <1>11 DEF Handshake, NextStates, Close, Stays
<1>12. CASE Status
  BY <1>12 DEF Status, Close, Stays
<1>13. ASSUME NEW n \in Names, LoginStart(n) PROVE CountTypes'
  BY <1>13 DEF LoginStart, Stays
<1>14. ASSUME NEW n \in Names, LoginStartFails(n) PROVE CountTypes'
  BY <1>14 DEF LoginStartFails, Close
<1>15. CASE ResponseUnasked
  BY <1>15 DEF ResponseUnasked, Close
<1>16. CASE LoginFails
  BY <1>16 DEF LoginFails, ResponseAsked, Close, Dies
<1>17. CASE LoginDies
  BY <1>17 DEF LoginDies, Dies
<1>18. CASE LoginSucceeds
  BY <1>18 DEF LoginSucceeds, ResponseAsked, Stays, Dies
<1>19. CASE KeepAlive
  BY <1>19 DEF KeepAlive, Stays, Dies
<1>20. CASE ClientSettings
  BY <1>20 DEF ClientSettings, Stays, Dies
<1>21. CASE ClientSettingsFail
  BY <1>21 DEF ClientSettingsFail, Close, Dies
<1>22. CASE TeleportConfirm
  BY <1>22 DEF TeleportConfirm, Stays, Dies
<1>23. CASE TeleportConfirmFails
  BY <1>23 DEF TeleportConfirmFails, Close
<1>24. CASE Chat
  BY <1>24 DEF Chat, Dies
<1>25. CASE Unanswered
  BY <1>25 DEF Unanswered, vars
<1> QED
  BY <1>1, <1>2, <1>3, <1>4, <1>5, <1>6, <1>7, <1>8, <1>9, <1>10, <1>11, <1>12, <1>13, <1>14,
     <1>15, <1>16, <1>17, <1>18, <1>19, <1>20, <1>21, <1>22, <1>23, <1>24, <1>25
  DEF Next, Visit, Packet

(* Session is well typed.                                                  *)
THEOREM TypeCorrect == Spec => []TypeOK
<1>1. Init => TypeOK
  BY TypeInit
<1>2. TypeOK /\ [Next]_vars => TypeOK'
  BY ControlStep, CountStep DEF TypeOK
<1> QED
  BY <1>1, <1>2, PTL DEF Spec

-----------------------------------------------------------------------------
\* Closing the connection and dying both end it.
LEMMA CloseEnds == ASSUME NEW s, Close(s) PROVE Over'
BY DEF Close, Over

LEMMA DeathEnds == ASSUME NEW how \in Deaths, Dies(how) PROVE Over'
BY DEF Dies, Deaths, Over

\* Owning, with what it needs of a connection that has not yet been through the handshake.
OwnInv == Owning /\ (state = "handshake" => ~tmp_present)

LEMMA OwnInit == Init => OwnInv
BY DEF Init, OwnInv, Owning, Over

LEMMA OwnStep == ControlTypes /\ OwnInv /\ [Next]_vars => OwnInv'
<1> SUFFICES ASSUME ControlTypes, OwnInv, [Next]_vars PROVE OwnInv'
  OBVIOUS
<1> USE DEF OwnInv, Owning, Over, At, Receives
<1> USE DEF protocolVars, loginVars, teleportVars, keepaliveVars, waitVars, dataVars
<1>1. CASE UNCHANGED vars
  BY <1>1 DEF vars
<1>2. CASE Tick
  BY <1>2 DEF Tick
<1>3. CASE WallClock
  BY <1>3 DEF WallClock
<1>4. CASE BatchLost
  BY <1>4 DEF BatchLost
<1>5. CASE BeginUpdate
  BY <1>5 DEF BeginUpdate
<1>6. CASE KeepAliveSent
  BY <1>6 DEF KeepAliveSent
<1>7. CASE KeepAliveUnsent
  BY <1>7 DEF KeepAliveUnsent, Close, Dies
<1>8. CASE ReadNothing
  BY <1>8 DEF ReadNothing
<1>9. CASE ReadFails
  BY <1>9 DEF ReadFails, Dies
<1>10. CASE EndUpdate
  BY <1>10 DEF EndUpdate, Close
<1>11. CASE Handshake
  <2>1. CASE owned' = owned \cup {"server_address"} /\ Stays
    BY <1>11, <2>1 DEF Handshake, NextStates, Stays
  <2>2. CASE Close(state') /\ UNCHANGED owned
    BY <1>11, <2>2 DEF Handshake, NextStates, Close
  <2> QED
    BY <1>11, <2>1, <2>2 DEF Handshake
<1>12. CASE Status
  BY <1>12 DEF Status, Close, Stays
<1>13. ASSUME NEW n \in Names, LoginStart(n) PROVE OwnInv'
  BY <1>13, NameAssumption DEF LoginStart, Stays, LoginPointers, PlayerPointers
<1>14. ASSUME NEW n \in Names, LoginStartFails(n) PROVE OwnInv'
  BY <1>14 DEF LoginStartFails, Close
<1>15. CASE ResponseUnasked
  BY <1>15 DEF ResponseUnasked, Close
<1>16. CASE LoginFails
  <2>1. LoginPointers \subseteq owned
    BY <1>16 DEF LoginFails, ResponseAsked
  <2>2. Close(state')
    BY <1>16, <2>1 DEF LoginFails
  <2>3. Over' /\ process' # "wild"
    BY <2>2, <1>16 DEF Close, LoginFails, ResponseAsked
  <2>4. state' # "handshake"
    BY <1>16 DEF LoginFails, ResponseAsked
  <2> QED
    BY <2>3, <2>4
<1>17. CASE LoginDies
  BY <1>17 DEF LoginDies, Dies
<1>18. CASE LoginSucceeds
  <2>1. LoginPointers \subseteq owned /\ Stays
    BY <1>18 DEF LoginSucceeds, ResponseAsked
  <2>2. PlayerPointers \subseteq owned' /\ "server_address" \in owned'
    BY <1>18 DEF LoginSucceeds, ResponseAsked, LoginPointers, PlayerPointers
  <2>3. state' = "play" /\ tmp_present' = FALSE /\ process' # "wild"
    BY <1>18, <2>1 DEF LoginSucceeds, Stays
  <2> QED
    BY <2>2, <2>3
<1>19. CASE KeepAlive
  BY <1>19 DEF KeepAlive, Stays, Dies, HasPlayer, PlayerPointers
<1>20. CASE ClientSettings
  BY <1>20 DEF ClientSettings, Stays, Dies, HasPlayer, PlayerPointers
<1>21. CASE ClientSettingsFail
  BY <1>21 DEF ClientSettingsFail, Close, Dies
<1>22. CASE TeleportConfirm
  BY <1>22 DEF TeleportConfirm, Stays, Dies, HasPlayer, PlayerPointers
<1>23. CASE TeleportConfirmFails
  BY <1>23 DEF TeleportConfirmFails, Close
<1>24. CASE Chat
  BY <1>24 DEF Chat, Dies
<1>25. CASE Unanswered
  BY <1>25 DEF Unanswered, vars
<1> QED
  BY <1>1, <1>2, <1>3, <1>4, <1>5, <1>6, <1>7, <1>8, <1>9, <1>10, <1>11, <1>12, <1>13, <1>14,
     <1>15, <1>16, <1>17, <1>18, <1>19, <1>20, <1>21, <1>22, <1>23, <1>24, <1>25
  DEF Next, Visit, Packet

(* No handler frees or reads a pointer that is not its own to free or to   *)
(* read: the login's to the label err, the player and its name to the      *)
(* handlers of PLAY.                                                       *)
THEOREM OwningCorrect == Spec => []Owning
<1>1. Init => ControlTypes /\ OwnInv
  BY TypeInit, OwnInit DEF TypeOK
<1>2. ControlTypes /\ OwnInv /\ [Next]_vars => (ControlTypes /\ OwnInv)'
  BY ControlStep, OwnStep
<1>3. OwnInv => Owning
  BY DEF OwnInv
<1> QED
  BY <1>1, <1>2, <1>3, PTL DEF Spec

-----------------------------------------------------------------------------
\* How long ago the client was last heard of, as long as neither side has been late: since the
\* last keep alive if it has answered, and else since the one before the one it has to answer.
HeardOf ==
  /\ had_player => HasPlayer
  /\ HasPlayer => sent_age <= KeepAliveAfter /\ (place # "update" => sent_age < KeepAliveAfter)
  /\ HasPlayer /\ pending = Nothing => received_age <= sent_age
  /\ HasPlayer /\ pending # Nothing => received_age <= pending + KeepAliveAfter
  /\ pending <= Patience
  /\ ~HasPlayer => pending = Nothing

PunctualInv == ~late /\ ~fault => HeardOf

LEMMA PunctualInit == Init => PunctualInv
BY TimeAssumption DEF Init, PunctualInv, HeardOf, HasPlayer

LEMMA PunctualStep == ControlTypes /\ CountTypes /\ PunctualInv /\ [Next]_vars => PunctualInv'
<1> SUFFICES ASSUME ControlTypes, CountTypes, PunctualInv, [Next]_vars PROVE PunctualInv'
  OBVIOUS
<1> USE TimeAssumption DEF CountTypes, PunctualInv, HeardOf, HasPlayer, At, Receives
<1> USE DEF protocolVars, loginVars, teleportVars, keepaliveVars, waitVars, dataVars
<1>1. CASE UNCHANGED vars
  BY <1>1 DEF vars
<1>2. CASE Tick
  <2>1. SUFFICES ASSUME ~late', ~fault' PROVE HeardOf'
    OBVIOUS
  <2>2. ~late /\ ~fault /\ pending' # Patience + 1
    BY <1>2, <2>1 DEF Tick
  <2>3. received_age' \in Int /\ received_age' <= received_age + 1
    BY <1>2 DEF Tick, Older
  <2>4. IF pending = Nothing THEN pending' = Nothing ELSE pending' = pending + 1
    BY <1>2, <2>2 DEF Tick, Older
  <2>5. sent_age < KeepAliveAfter => sent_age' = sent_age + 1
    BY <1>2 DEF Tick, Older
  <2>6. place = "idle" /\ place' = "update" /\ UNCHANGED <<owned, had_player>>
    BY <1>2 DEF Tick
  <2>7. pending' <= Patience
    BY <2>2, <2>4
  <2>8. HasPlayer => sent_age' <= KeepAliveAfter
    BY <2>2, <2>5, <2>6
  <2>9. HasPlayer /\ pending = Nothing => received_age' <= sent_age'
    BY <2>2, <2>3, <2>5, <2>6
  <2>10. HasPlayer /\ pending # Nothing => received_age' <= pending' + KeepAliveAfter
    BY <2>2, <2>3, <2>4
  <2>11. HasPlayer' = HasPlayer /\ ((had_player => HasPlayer) => (had_player' => HasPlayer'))
    BY <2>6
  <2>12. pending' = Nothing <=> pending = Nothing
    BY <2>4
  <2> QED
    BY <2>2, <2>6, <2>7, <2>8, <2>9, <2>10, <2>11, <2>12
<1>3. CASE WallClock
  BY <1>3 DEF WallClock
<1>4. CASE BatchLost
  BY <1>4 DEF BatchLost
<1>5. CASE BeginUpdate
  <2>1. HasPlayer => sent_age < KeepAliveAfter
    BY <1>5 DEF BeginUpdate, KeepAliveDue
  <2>2. UNCHANGED <<sent_age, received_age, pending, late, fault, owned>>
    BY <1>5 DEF BeginUpdate
  <2>3. had_player' => HasPlayer'
    BY <1>5 DEF BeginUpdate
  <2> QED
    BY <2>1, <2>2, <2>3
<1>6. CASE KeepAliveSent
  BY <1>6 DEF KeepAliveSent, KeepAliveDue
<1>7. CASE KeepAliveUnsent
  BY <1>7 DEF KeepAliveUnsent, Close, Dies
<1>8. CASE ReadNothing
  BY <1>8 DEF ReadNothing
<1>9. CASE ReadFails
  BY <1>9 DEF ReadFails, Dies
<1>10. CASE EndUpdate
  BY <1>10 DEF EndUpdate, Close
<1>11. CASE Handshake
  BY <1>11 DEF Handshake, NextStates, Close, Stays
<1>12. CASE Status
  BY <1>12 DEF Status, Close, Stays
<1>13. ASSUME NEW n \in Names, LoginStart(n) PROVE PunctualInv'
  BY <1>13 DEF LoginStart, LoginPointers, Stays
<1>14. ASSUME NEW n \in Names, LoginStartFails(n) PROVE PunctualInv'
  BY <1>14 DEF LoginStartFails, Close
<1>15. CASE ResponseUnasked
  BY <1>15 DEF ResponseUnasked, Close
<1>16. CASE LoginFails
  <2>1. HasPlayer' = HasPlayer
    BY <1>16 DEF LoginFails, LoginPointers
  <2>2. UNCHANGED <<sent_age, received_age, pending, late, fault, had_player>>
    BY <1>16 DEF LoginFails
  <2>3. place = "read" /\ place' # "update"
    BY <1>16 DEF LoginFails, ResponseAsked, Close, Dies
  <2> QED
    BY <2>1, <2>2, <2>3
<1>17. CASE LoginDies
  BY <1>17 DEF LoginDies, Dies
<1>18. CASE LoginSucceeds
  <2>1. HasPlayer'
    BY <1>18 DEF LoginSucceeds, PlayerPointers
  <2>2. sent_age' = 0 /\ received_age' = 0 /\ UNCHANGED <<pending, late, fault>>
    BY <1>18 DEF LoginSucceeds
  <2> QED
    BY <2>1, <2>2
<1>19. CASE KeepAlive
  BY <1>19 DEF KeepAlive, Stays, Dies
<1>20. CASE ClientSettings
  BY <1>20 DEF ClientSettings, Stays, Dies
<1>21. CASE ClientSettingsFail
  BY <1>21 DEF ClientSettingsFail, Close, Dies
<1>22. CASE TeleportConfirm
  BY <1>22 DEF TeleportConfirm, Stays, Dies
<1>23. CASE TeleportConfirmFails
  BY <1>23 DEF TeleportConfirmFails, Close
<1>24. CASE Chat
  BY <1>24 DEF Chat, Dies
<1>25. CASE Unanswered
  BY <1>25 DEF Unanswered, vars
<1> QED
  BY <1>1, <1>2, <1>3, <1>4, <1>5, <1>6, <1>7, <1>8, <1>9, <1>10, <1>11, <1>12, <1>13, <1>14,
     <1>15, <1>16, <1>17, <1>18, <1>19, <1>20, <1>21, <1>22, <1>23, <1>24, <1>25
  DEF Next, Visit, Packet

(* Who answers every keep alive within Patience, and is sent them, is not  *)
(* timed out, however the keep alives and the answers interleave with the  *)
(* visits.                                                                 *)
THEOREM PunctualCorrect == Spec => []PunctualKept
<1>1. Init => TypeOK /\ PunctualInv
  BY TypeInit, PunctualInit
<1>2. TypeOK /\ PunctualInv /\ [Next]_vars => (TypeOK /\ PunctualInv)'
  BY ControlStep, CountStep, PunctualStep DEF TypeOK
<1>3. TypeOK /\ PunctualInv => PunctualKept
  <2> SUFFICES ASSUME TypeOK, PunctualInv, place = "timeout", had_player, ~late, ~fault
               PROVE  received_age < KeepAliveLimit
    BY TimeAssumption DEF PunctualKept, TimedOut, TypeOK, CountTypes
  <2>1. HasPlayer /\ HeardOf
    BY DEF PunctualInv, HeardOf
  <2>2. CASE pending = Nothing
    BY <2>1, <2>2, TimeAssumption DEF HeardOf, TypeOK, CountTypes
  <2>3. CASE pending # Nothing
    BY <2>1, <2>3, TimeAssumption DEF HeardOf, TypeOK, CountTypes
  <2> QED
    BY <2>2, <2>3
<1> QED
  BY <1>1, <1>2, <1>3, PTL DEF Spec

-----------------------------------------------------------------------------
\* Between packets the protocol's variables are the connection's; after it, nothing is left.
LEMMA EndStep == ASSUME ControlTypes, ~Over, Over' PROVE Protocol!Next
BY DEF ControlTypes, Protocol!Next, Protocol!End

LEMMA SameStep ==
  ASSUME UNCHANGED <<place, process, state, tmp_present, username, player_name>>
  PROVE  UNCHANGED Protocol!protocolVars
BY DEF Protocol!protocolVars, Over

LEMMA ProtocolStep == ControlTypes /\ OwnInv /\ [Next]_vars => [Protocol!Next]_(Protocol!protocolVars)
<1> SUFFICES ASSUME ControlTypes, OwnInv, [Next]_vars
             PROVE  Protocol!Next \/ UNCHANGED Protocol!protocolVars
  OBVIOUS
<1> DEFINE Simulated == Protocol!Next \/ UNCHANGED Protocol!protocolVars
<1>0. ASSUME ~Over, ~Over', UNCHANGED <<state, tmp_present, username, player_name>>
      PROVE  UNCHANGED Protocol!protocolVars
  BY <1>0 DEF Protocol!protocolVars
<1> USE DEF protocolVars, loginVars, teleportVars, keepaliveVars, waitVars, dataVars
<1>1. CASE UNCHANGED vars
  BY <1>1, SameStep DEF vars
<1>2. CASE Tick
  <2>1. ~Over /\ ~Over'
    BY <1>2 DEF Tick, Over, At
  <2> QED
    BY <1>2, <2>1, <1>0 DEF Tick
<1>3. CASE WallClock
  <2>1. ~Over /\ ~Over'
    BY <1>3 DEF WallClock, Over, At
  <2> QED
    BY <1>3, <2>1, <1>0 DEF WallClock
<1>4. CASE BatchLost
  <2>1. ~Over /\ ~Over'
    BY <1>4 DEF BatchLost, Over, At
  <2> QED
    BY <1>4, <2>1, <1>0 DEF BatchLost
<1>5. CASE BeginUpdate
  <2>1. ~Over /\ ~Over'
    BY <1>5 DEF BeginUpdate, Over, At
  <2> QED
    BY <1>5, <2>1, <1>0 DEF BeginUpdate
<1>6. CASE KeepAliveSent
  <2>1. ~Over /\ ~Over'
    BY <1>6 DEF KeepAliveSent, Over, At
  <2> QED
    BY <1>6, <2>1, <1>0 DEF KeepAliveSent
<1>7. CASE KeepAliveUnsent
  <2>1. ~Over
    BY <1>7 DEF KeepAliveUnsent, Over, At, Receives
  <2>2. CASE Over'
    BY <2>1, <2>2, EndStep
  <2>3. CASE ~Over'
    BY <1>7, <2>1, <2>3, <1>0 DEF KeepAliveUnsent
  <2> QED
    BY <2>2, <2>3
<1>8. CASE ReadNothing
  <2>1. ~Over /\ ~Over'
    BY <1>8 DEF ReadNothing, Over, At
  <2> QED
    BY <1>8, <2>1, <1>0 DEF ReadNothing
<1>9. CASE ReadFails
  <2>1. ~Over
    BY <1>9 DEF ReadFails, Over, At, Receives
  <2>2. CASE Over'
    BY <2>1, <2>2, EndStep
  <2>3. CASE ~Over'
    BY <1>9, <2>1, <2>3, <1>0 DEF ReadFails
  <2> QED
    BY <2>2, <2>3
<1>10. CASE EndUpdate
  <2>1. ~Over
    BY <1>10 DEF EndUpdate, Over, At, Receives
  <2>2. CASE Over'
    BY <2>1, <2>2, EndStep
  <2>3. CASE ~Over'
    BY <1>10, <2>1, <2>3, <1>0 DEF EndUpdate
  <2> QED
    BY <2>2, <2>3
<1>11. CASE Handshake
  <2>1. ~Over
    BY <1>11 DEF Handshake, Over, At, Receives
  <2>2. CASE Over'
    BY <2>1, <2>2, EndStep
  <2>3. CASE ~Over'
    <3>1. state = "handshake" /\ state' \in {"status", "login"}
      BY <1>11 DEF Handshake, Receives, NextStates
    <3>2. ~tmp_present /\ UNCHANGED <<tmp_present, username, player_name>>
      BY <1>11, <3>1 DEF Handshake, OwnInv
    <3>3. Protocol!Shake
      BY <2>1, <2>3, <3>1, <3>2 DEF Protocol!Shake
    <3> QED
      BY <3>3 DEF Protocol!Next
  <2> QED
    BY <2>2, <2>3
<1>12. CASE Status
  <2>1. ~Over
    BY <1>12 DEF Status, Over, At, Receives
  <2>2. CASE Over'
    BY <2>1, <2>2, EndStep
  <2>3. CASE ~Over'
    BY <1>12, <2>1, <2>3, <1>0 DEF Status
  <2> QED
    BY <2>2, <2>3
<1>13. ASSUME NEW n \in Names, LoginStart(n) PROVE Simulated
  <2>1. ~Over /\ ~Over'
    BY <1>13 DEF LoginStart, Over, At, Receives, Stays
  <2>2. state = "login" /\ tmp_present' /\ username' = n /\ UNCHANGED <<state, player_name>>
    BY <1>13 DEF LoginStart, Receives, protocolVars
  <2>3. Protocol!Challenge(n)
    BY <2>1, <2>2 DEF Protocol!Challenge
  <2> QED
    BY <2>3 DEF Protocol!Next
<1>14. ASSUME NEW n \in Names, LoginStartFails(n) PROVE Simulated
  <2>1. ~Over
    BY <1>14 DEF LoginStartFails, Over, At, Receives, ResponseAsked
  <2>2. Over'
    BY <1>14, CloseEnds DEF LoginStartFails, Dies, Deaths, Over
  <2> QED
    BY <2>1, <2>2, EndStep
<1>15. CASE ResponseUnasked
  <2>1. ~Over
    BY <1>15 DEF ResponseUnasked, Over, At, Receives, ResponseAsked
  <2>2. Over'
    BY <1>15, CloseEnds DEF ResponseUnasked, Dies, Deaths, Over
  <2> QED
    BY <2>1, <2>2, EndStep
<1>16. CASE LoginFails
  <2>1. ~Over
    BY <1>16 DEF LoginFails, Over, At, Receives, ResponseAsked
  <2>2. Over'
    BY <1>16, CloseEnds DEF LoginFails, Dies, Over
  <2> QED
    BY <2>1, <2>2, EndStep
<1>17. CASE LoginDies
  <2>1. ~Over
    BY <1>17 DEF LoginDies, Over, At, Receives, ResponseAsked
  <2>2. Over'
    BY <1>17, CloseEnds DEF LoginDies, Dies, Deaths, Over
  <2> QED
    BY <2>1, <2>2, EndStep
<1>18. CASE LoginSucceeds
  <2>1. ~Over /\ tmp_present /\ state = "login"
    BY <1>18 DEF LoginSucceeds, ResponseAsked, Over, At, Receives
  <2>2. LoginPointers \subseteq owned /\ username # NoName
    BY <2>1 DEF OwnInv, Owning
  <2>3. ~Over'
    BY <1>18, <2>1, <2>2 DEF LoginSucceeds, Stays, Over
  <2>4. state' = "play" /\ ~tmp_present' /\ player_name' = username
    BY <1>18 DEF LoginSucceeds
  <2>5. Protocol!Join
    BY <2>1, <2>2, <2>3, <2>4 DEF Protocol!Join
  <2> QED
    BY <2>5 DEF Protocol!Next
<1>19. CASE KeepAlive
  <2>1. ~Over
    BY <1>19 DEF KeepAlive, Over, At, Receives
  <2>2. CASE Over'
    BY <2>1, <2>2, EndStep
  <2>3. CASE ~Over'
    BY <1>19, <2>1, <2>3, <1>0 DEF KeepAlive
  <2> QED
    BY <2>2, <2>3
<1>20. CASE ClientSettings
  <2>1. ~Over
    BY <1>20 DEF ClientSettings, Over, At, Receives
  <2>2. CASE Over'
    BY <2>1, <2>2, EndStep
  <2>3. CASE ~Over'
    BY <1>20, <2>1, <2>3, <1>0 DEF ClientSettings
  <2> QED
    BY <2>2, <2>3
<1>21. CASE ClientSettingsFail
  <2>1. ~Over
    BY <1>21 DEF ClientSettingsFail, Over, At, Receives, ResponseAsked
  <2>2. Over'
    BY <1>21, CloseEnds DEF ClientSettingsFail, Dies, Deaths, Over
  <2> QED
    BY <2>1, <2>2, EndStep
<1>22. CASE TeleportConfirm
  <2>1. ~Over
    BY <1>22 DEF TeleportConfirm, Over, At, Receives
  <2>2. CASE Over'
    BY <2>1, <2>2, EndStep
  <2>3. CASE ~Over'
    BY <1>22, <2>1, <2>3, <1>0 DEF TeleportConfirm
  <2> QED
    BY <2>2, <2>3
<1>23. CASE TeleportConfirmFails
  <2>1. ~Over
    BY <1>23 DEF TeleportConfirmFails, Over, At, Receives, ResponseAsked
  <2>2. Over'
    BY <1>23, CloseEnds DEF TeleportConfirmFails, Dies, Deaths, Over
  <2> QED
    BY <2>1, <2>2, EndStep
<1>24. CASE Chat
  <2>1. ~Over
    BY <1>24 DEF Chat, Over, At, Receives, ResponseAsked
  <2>2. Over'
    BY <1>24, CloseEnds DEF Chat, Dies, Deaths, Over
  <2> QED
    BY <2>1, <2>2, EndStep
<1>25. CASE Unanswered
  BY <1>25, SameStep DEF Unanswered, vars
<1> QED
  BY <1>1, <1>2, <1>3, <1>4, <1>5, <1>6, <1>7, <1>8, <1>9, <1>10, <1>11, <1>12, <1>13, <1>14,
     <1>15, <1>16, <1>17, <1>18, <1>19, <1>20, <1>21, <1>22, <1>23, <1>24, <1>25
  DEF Next, Visit, Packet

(* A connection does what LoginProtocol allows: nobody plays who was not   *)
(* challenged, or under another name, and nothing comes after the end.     *)
THEOREM SessionImplementsProtocol == Spec => ImplementsProtocol
<1>1. Init => Protocol!Init
  BY DEF Init, Protocol!Init, Over
<1>2. Init => ControlTypes /\ OwnInv
  BY TypeInit, OwnInit DEF TypeOK
<1>3. ControlTypes /\ OwnInv /\ [Next]_vars => (ControlTypes /\ OwnInv)'
  BY ControlStep, OwnStep
<1>4. ControlTypes /\ OwnInv /\ [Next]_vars => [Protocol!Next]_(Protocol!protocolVars)
  BY ProtocolStep
<1> QED
  BY <1>1, <1>2, <1>3, <1>4, PTL DEF Spec, ImplementsProtocol, Protocol!Spec

-----------------------------------------------------------------------------
LEMMA EchoStep == CountTypes /\ EchoedOnce /\ [Next]_vars => EchoedOnce'
<1> SUFFICES ASSUME CountTypes, EchoedOnce, [Next]_vars PROVE EchoedOnce'
  OBVIOUS
<1> USE DEF EchoedOnce, Over, At, Receives
<1> USE DEF protocolVars, loginVars, teleportVars, keepaliveVars, waitVars, dataVars
<1>1. CASE UNCHANGED vars
  BY <1>1 DEF vars
<1>2. CASE Tick
  BY <1>2 DEF Tick, Older
<1>3. CASE WallClock
  BY <1>3 DEF WallClock
<1>4. CASE BatchLost
  BY <1>4 DEF BatchLost
<1>5. CASE BeginUpdate
  BY <1>5 DEF BeginUpdate
<1>6. CASE KeepAliveSent
  BY <1>6 DEF KeepAliveSent
<1>7. CASE KeepAliveUnsent
  BY <1>7 DEF KeepAliveUnsent
<1>8. CASE ReadNothing
  BY <1>8 DEF ReadNothing
<1>9. CASE ReadFails
  BY <1>9 DEF ReadFails
<1>10. CASE EndUpdate
  BY <1>10 DEF EndUpdate
<1>11. CASE Handshake
  BY <1>11 DEF Handshake
<1>12. CASE Status
  BY <1>12 DEF Status
<1>13. ASSUME NEW n \in Names, LoginStart(n) PROVE EchoedOnce'
  BY <1>13 DEF LoginStart, Stays
<1>14. ASSUME NEW n \in Names, LoginStartFails(n) PROVE EchoedOnce'
  BY <1>14 DEF LoginStartFails, Close
<1>15. CASE ResponseUnasked
  BY <1>15 DEF ResponseUnasked, Close
<1>16. CASE LoginFails
  BY <1>16 DEF LoginFails, ResponseAsked
<1>17. CASE LoginDies
  BY <1>17 DEF LoginDies, Dies
<1>18. CASE LoginSucceeds
  BY <1>18 DEF LoginSucceeds, ResponseAsked, Stays, Dies
<1>19. CASE KeepAlive
  BY <1>19 DEF KeepAlive
<1>20. CASE ClientSettings
  BY <1>20 DEF ClientSettings
<1>21. CASE ClientSettingsFail
  BY <1>21 DEF ClientSettingsFail, Close, Dies
<1>22. CASE TeleportConfirm
  BY <1>22, BoundAssumption DEF TeleportConfirm, CountTypes
<1>23. CASE TeleportConfirmFails
  BY <1>23 DEF TeleportConfirmFails, Close
<1>24. CASE Chat
  BY <1>24 DEF Chat, Dies
<1>25. CASE Unanswered
  BY <1>25 DEF Unanswered, vars
<1> QED
  BY <1>1, <1>2, <1>3, <1>4, <1>5, <1>6, <1>7, <1>8, <1>9, <1>10, <1>11, <1>12, <1>13, <1>14,
     <1>15, <1>16, <1>17, <1>18, <1>19, <1>20, <1>21, <1>22, <1>23, <1>24, <1>25
  DEF Next, Visit, Packet

(* The first confirmation after client settings is answered with the       *)
(* position, and no other.                                                 *)
THEOREM EchoedOnceCorrect == Spec => []EchoedOnce
<1>1. Init => CountTypes /\ EchoedOnce
  BY TypeInit DEF TypeOK, Init, EchoedOnce
<1>2. CountTypes /\ EchoedOnce /\ [Next]_vars => (CountTypes /\ EchoedOnce)'
  BY CountStep, EchoStep
<1> QED
  BY <1>1, <1>2, PTL DEF Spec
=============================================================================
