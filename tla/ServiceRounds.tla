---------------------------- MODULE ServiceRounds ----------------------------
(***************************************************************************)
(* What the server promises its clients: in every tick each of them is     *)
(* visited once, by nobody else at the time, and is gone for good once it  *)
(* has left.  Who joins, joins between the rounds.  There is no list, no   *)
(* batch and no thread here; ClientService implements this module.         *)
(***************************************************************************)

CONSTANT Conns

VARIABLES
  listed,       \* the clients
  visiting,     \* those being visited
  visited,      \* those that have been, or are being, visited in this round
  phase,        \* "open", "round" or "over"
  lossy         \* memory ran out, and some visits will not take place

rvars == <<listed, visiting, visited, phase, lossy>>

Init == /\ listed = {} /\ visiting = {} /\ visited = {}
        /\ phase = "open" /\ lossy = FALSE

Join(c) == /\ phase = "open" /\ c \notin listed
           /\ listed' = listed \cup {c}
           /\ UNCHANGED <<visiting, visited, phase, lossy>>

BeginRound == /\ phase = "open" /\ phase' = "round"
              /\ UNCHANGED <<listed, visiting, visited, lossy>>

Visit(c) == /\ phase = "round" /\ c \in listed \ visited
            /\ visiting' = visiting \cup {c} /\ visited' = visited \cup {c}
            /\ UNCHANGED <<listed, phase, lossy>>

\* Only a client that is being visited leaves, and the visit goes on.
Leave(c) == /\ phase = "round" /\ c \in visiting \cap listed
            /\ listed' = listed \ {c}
            /\ UNCHANGED <<visiting, visited, phase, lossy>>

EndVisit(c) == /\ phase = "round" /\ c \in visiting
               /\ visiting' = visiting \ {c}
               /\ UNCHANGED <<listed, visited, phase, lossy>>

LoseVisits == /\ phase = "round" /\ lossy' = TRUE
              /\ UNCHANGED <<listed, visiting, visited, phase>>

EndRound == /\ phase = "round" /\ visiting = {}
            /\ lossy \/ listed \subseteq visited
            /\ phase' = "over"
            /\ UNCHANGED <<listed, visiting, visited, lossy>>

NewRound == /\ phase = "over" /\ phase' = "open"
            /\ visited' = {} /\ lossy' = FALSE
            /\ UNCHANGED <<listed, visiting>>

Next == \/ \E c \in Conns : Join(c) \/ Visit(c) \/ Leave(c) \/ EndVisit(c)
        \/ BeginRound \/ LoseVisits \/ EndRound \/ NewRound

Spec == Init /\ [][Next]_rvars
=============================================================================
