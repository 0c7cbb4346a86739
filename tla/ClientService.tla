---------------------------- MODULE ClientService ----------------------------
(***************************************************************************)
(* src/network/network.c: the main thread accepts connections, divides the *)
(* client list into one batch per thread of the pool, and waits; the       *)
(* threads read their batch off the list and update its clients, which may *)
(* close them.  The pool is the barrier of JobBarrier: batch i is the job  *)
(* some thread runs, and the wait ends when every batch has.               *)
(*                                                                         *)
(* A list entry and its connection live and die together, so an entry is   *)
(* named by its connection.  A connection is an address: once freed, a     *)
(* later accept may use it again.  What a packet says is left open; the    *)
(* protocol state is kept as far as closing a connection depends on it.    *)
(***************************************************************************)
EXTENDS Integers, Sequences, FiniteSets, SequencesExt, FiniteSetsExt

CONSTANTS
  Conns,          \* addresses a struct connection may have
  NoConn,         \* no connection
  ThreadCount,    \* main_threadpool_threadcount
  Fds,            \* descriptor numbers (bounds the runs)
  AllocCanFail,   \* malloc and fdopen may fail
  WritesReported  \* fwrite on a packet stream may report success

ASSUME ThreadCountAssumption == ThreadCount \in Nat \ {0}
ASSUME FdsAssumption == Fds \subseteq Nat /\ IsFiniteSet(Fds) /\ Fds # {}
ASSUME NoConnAssumption == NoConn \notin Conns
ASSUME EnvironmentAssumption == AllocCanFail \in BOOLEAN /\ WritesReported \in BOOLEAN

Batches == 0 .. ThreadCount - 1

\* One function says which descriptor a connection, or a batch's handler, remembers.
ASSUME HoldersAssumption == Conns \cap Batches = {}

VARIABLES
  main,           \* where the main thread is in the tick
  clients,        \* the client list
  client_count,
  live,           \* the connections that are allocated
  state,          \* protocol state
  player,         \* connections with a player
  is_closed,      \* connections whose mcpr_connection is marked closed
  fd,             \* the number each connection, or a handler of each batch, remembers
  open,           \* the descriptor numbers in use
  index,          \* serve_clients' running index
  pc,             \* where the thread running each batch is
  first,          \* the entry the batch starts at
  amount,         \* its number of clients
  rest,           \* the clients it has not finished, the current one first
  after,          \* where connection_close returns to
  served,         \* the clients updated in this tick
  process         \* "running", or how the process died

listVars == <<clients, client_count>>
connVars == <<live, state, player, is_closed>>
fdVars == <<fd, open>>
batchVars == <<first, amount>>
vars == <<main, listVars, connVars, fdVars, index, pc, batchVars, rest, after, served, process>>

Places == {"none", "queued", "update", "read", "handle", "handleOpen", "handled", "timeout",
           "lock", "stream", "descriptor", "exiting", "done", "dropped"}
MainPlaces == {"accept", "serve", "wait", "clock"}
States == {"handshake", "status", "login", "play"}
Deaths == {"abort", "recursion", "segfault", "badfree"}

LowestFree == Min(Fds \ open)
Current(i) == Head(rest[i])
At(i, place) == process = "running" /\ pc[i] = place
Goto(i, place) == pc' = [pc EXCEPT ![i] = place]

\* serve_clients holds clients_lock for reading while it hands out the batches; a
\* thread that exits inside connection_close never gives it back.
ReadLockFree == \A i \in Batches : pc[i] # "exiting"

\* Variant: the dispatch never gives it back.
WriteLockFree_Held == main \notin {"serve", "wait"} /\ ReadLockFree

WriteLockFree == main # "serve" /\ ReadLockFree

-----------------------------------------------------------------------------
Init ==
  /\ main = "accept"
  /\ clients = <<>> /\ client_count = 0
  /\ live = {} /\ player = {} /\ is_closed = {}
  /\ state = [c \in Conns |-> "handshake"]
  /\ fd = [h \in Conns \cup Batches |-> Min(Fds)]
  /\ open = {}
  /\ index = 0
  /\ pc = [i \in Batches |-> "none"]
  /\ first = [i \in Batches |-> NoConn]
  /\ amount = [i \in Batches |-> 0]
  /\ rest = [i \in Batches |-> <<>>]
  /\ after = [i \in Batches |-> "none"]
  /\ served = {}
  /\ process = "running"

-----------------------------------------------------------------------------
(* accept_incoming_connections                                             *)

\* Variant: a failed accept is not told from a descriptor.
AcceptConnection_Unchecked(c) ==
  /\ process = "running" /\ main = "accept"
  /\ c \notin live
  /\ fd' = [fd EXCEPT ![c] = -1]
  /\ live' = live \cup {c}
  /\ state' = [state EXCEPT ![c] = "handshake"]
  /\ clients' = Append(clients, c)
  /\ client_count' = client_count + 1
  /\ UNCHANGED <<main, open, player, is_closed, index, pc, batchVars, rest, after, served, process>>

\* Variant: connections are accepted while the batches run.
AcceptConnection_Meanwhile(c) ==
  /\ process = "running" /\ main \in {"accept", "wait"}
  /\ c \notin live /\ open # Fds
  /\ fd' = [fd EXCEPT ![c] = LowestFree]
  /\ open' = open \cup {LowestFree}
  /\ live' = live \cup {c}
  /\ state' = [state EXCEPT ![c] = "handshake"]
  /\ clients' = Append(clients, c)
  /\ client_count' = client_count + 1
  /\ UNCHANGED <<main, player, is_closed, index, pc, batchVars, rest, after, served, process>>

\* A failure past setvbuf gives everything back: nothing changes.
AcceptConnection(c) ==
  /\ process = "running" /\ main = "accept"
  /\ c \notin live /\ open # Fds
  /\ fd' = [fd EXCEPT ![c] = LowestFree]
  /\ open' = open \cup {LowestFree}
  /\ live' = live \cup {c}
  /\ state' = [state EXCEPT ![c] = "handshake"]
  /\ clients' = Append(clients, c)
  /\ client_count' = client_count + 1
  /\ UNCHANGED <<main, player, is_closed, index, pc, batchVars, rest, after, served, process>>

\* fdopen or setvbuf fails: the descriptor stays open.
AcceptLeaks ==
  /\ process = "running" /\ main = "accept"
  /\ AllocCanFail /\ open # Fds
  /\ open' = open \cup {LowestFree}
  /\ UNCHANGED <<main, listVars, connVars, fd, index, pc, batchVars, rest, after, served, process>>

\* accept has no more connections for us (EAGAIN).  With no descriptor left it fails with
\* EMFILE instead, and the loop tries again forever.
AcceptEnds ==
  /\ process = "running" /\ main = "accept"
  /\ open # Fds
  /\ main' = "serve"
  /\ UNCHANGED <<listVars, connVars, fdVars, index, pc, batchVars, rest, after, served, process>>

-----------------------------------------------------------------------------
(* serve_clients: one batch per thread, the last one with the remainder.   *)

\* Variant: the remainder is forgotten.
BatchSize_NoRest(i) == client_count \div ThreadCount

\* Variant: every batch gets the remainder.
BatchSize_RestEach(i) == client_count \div ThreadCount + (client_count % ThreadCount)

BatchSize(i) == client_count \div ThreadCount
                + (IF i = ThreadCount - 1 THEN client_count % ThreadCount ELSE 0)

\* The batches are handed out in order.
NextBatch(i) == /\ process = "running" /\ main = "serve"
                /\ \A k \in Batches : (pc[k] = "none") <=> (k >= i)

\* Variant: the next batch starts where this one does.
DispatchBatch_SameEntry(i) ==
  /\ NextBatch(i)
  /\ index < Len(clients)
  /\ first' = [first EXCEPT ![i] = clients[index + 1]]
  /\ amount' = [amount EXCEPT ![i] = BatchSize(i)]
  /\ Goto(i, "queued")
  /\ UNCHANGED <<main, listVars, connVars, fdVars, index, rest, after, served, process>>

DispatchBatch(i) ==
  /\ NextBatch(i)
  /\ index < Len(clients)
  /\ first' = [first EXCEPT ![i] = clients[index + 1]]
  /\ amount' = [amount EXCEPT ![i] = BatchSize(i)]
  /\ index' = index + BatchSize(i)
  /\ Goto(i, "queued")
  /\ UNCHANGED <<main, listVars, connVars, fdVars, rest, after, served, process>>

\* slist_nth_entry finds no entry: fewer clients than threads.
SkipBatch(i) ==
  /\ NextBatch(i)
  /\ index >= Len(clients)
  /\ Goto(i, "done")
  /\ UNCHANGED <<main, listVars, connVars, fdVars, index, batchVars, rest, after, served, process>>

\* malloc fails for the arguments, and the next batch starts where this one would have; or
\* thpool_add_work cannot allocate the job, and nobody looks at what it returns.
DropBatch(i) ==
  /\ NextBatch(i)
  /\ index < Len(clients)
  /\ AllocCanFail
  /\ index' \in {index, index + BatchSize(i)}
  /\ Goto(i, "dropped")
  /\ UNCHANGED <<main, listVars, connVars, fdVars, batchVars, rest, after, served, process>>

\* All batches are handed out; the lock is released and thpool_wait called.
DispatchEnds ==
  /\ process = "running" /\ main = "serve"
  /\ \A i \in Batches : pc[i] # "none"
  /\ main' = "wait"
  /\ index' = 0
  /\ UNCHANGED <<listVars, connVars, fdVars, pc, batchVars, rest, after, served, process>>

WaitEnds ==
  /\ process = "running" /\ main = "wait"
  /\ \A i \in Batches : pc[i] \in {"done", "dropped"}
  /\ main' = "clock"
  /\ UNCHANGED <<listVars, connVars, fdVars, index, pc, batchVars, rest, after, served, process>>

\* server_tick advances the clock and the next tick begins.
Clock ==
  /\ process = "running" /\ main = "clock"
  /\ main' = "accept"
  /\ pc' = [i \in Batches |-> "none"]
  /\ first' = [i \in Batches |-> NoConn]
  /\ amount' = [i \in Batches |-> 0]
  /\ served' = {}
  /\ UNCHANGED <<listVars, connVars, fdVars, index, rest, after, process>>

-----------------------------------------------------------------------------
(* serve_client_batch and update_client                                    *)

Position(c) == CHOOSE k \in DOMAIN clients : clients[k] = c

\* Copy the batch's entries out of the list.
StartBatch(i) ==
  /\ At(i, "queued")
  /\ ReadLockFree
  /\ IF amount[i] = 0
       THEN /\ Goto(i, "done")
            /\ UNCHANGED rest
       ELSE LET from == Position(first[i])
            IN  /\ Goto(i, "update")
                /\ rest' = [rest EXCEPT ![i] = SubSeq(clients, from, from + amount[i] - 1)]
  /\ UNCHANGED <<main, listVars, connVars, fdVars, index, batchVars, after, served,
                 process>>

\* A player may be due a keepalive; if it cannot be sent, the last error of this thread says
\* why: the connection was closed, something else, or (a null pointer) nothing.
SendKeepalive(i) ==
  /\ At(i, "update")
  /\ \/ Goto(i, "read") /\ UNCHANGED <<after, process>>
     \/ /\ Current(i) \in player
        /\ \/ Goto(i, "lock") /\ after' = [after EXCEPT ![i] = "next"] /\ UNCHANGED process
           \/ process' = "segfault" /\ UNCHANGED <<pc, after>>
  /\ UNCHANGED <<main, listVars, connVars, fdVars, index, batchVars, rest, served>>

\* mcpr_connection_close.  In LOGIN and PLAY it closes its packet stream, whose close function
\* is mcpr_connection_close, before is_closed is set.
McprClose(c) ==
  CASE c \in is_closed \/ state[c] \in {"handshake", "status"} ->
         is_closed' = is_closed \cup {c} /\ UNCHANGED process
    [] c \notin is_closed /\ state[c] \in {"login", "play"} ->
         process' = "recursion" /\ UNCHANGED is_closed

ReadPacket(i) ==
  /\ At(i, "read")
  /\ Current(i) \in live
  /\ Goto(i, "handle")
  /\ UNCHANGED <<main, listVars, connVars, fdVars, index, batchVars, rest, after, served, process>>

ReadNothing(i) ==
  /\ At(i, "read")
  /\ Current(i) \in live
  /\ Goto(i, "timeout")
  /\ UNCHANGED <<main, listVars, connVars, fdVars, index, batchVars, rest, after, served, process>>

\* The peer is gone, or sent what is no packet; mcpr_decode_packet may free its caller's packet.
ReadFails(i) ==
  /\ At(i, "read")
  /\ Current(i) \in live
  /\ \/ McprClose(Current(i))
     \/ process' = "badfree" /\ UNCHANGED is_closed
  /\ IF process' = "running" THEN Goto(i, "timeout") ELSE UNCHANGED pc
  /\ UNCHANGED <<main, listVars, live, state, player, fdVars, index, batchVars, rest, after,
                 served>>

\* The packet's handler closed the connection, and the loop reads its next packet: from freed
\* memory.
ReadFreed(i) ==
  /\ At(i, "read")
  /\ Current(i) \notin live
  /\ \/ Goto(i, "timeout") /\ UNCHANGED process
     \/ process' = "segfault" /\ UNCHANGED pc
  /\ UNCHANGED <<main, listVars, connVars, fdVars, index, batchVars, rest, after,
                 served>>

\* The handlers of LOGIN open a descriptor for a while (/dev/urandom, the session server).
HandlerOpens(i) ==
  /\ At(i, "handle")
  /\ state[Current(i)] = "login"
  /\ open # Fds
  /\ fd' = [fd EXCEPT ![i] = LowestFree]
  /\ open' = open \cup {LowestFree}
  /\ Goto(i, "handleOpen")
  /\ UNCHANGED <<main, listVars, connVars, index, batchVars, rest, after, served, process>>

HandlerCloses(i) ==
  /\ At(i, "handleOpen")
  /\ open' = open \ {fd[i]}
  /\ fd' = [fd EXCEPT ![i] = Min(Fds)]
  /\ Goto(i, "handled")
  /\ UNCHANGED <<main, listVars, connVars, index, batchVars, rest, after, served, process>>

\* The states a handler of a packet may leave its connection in.  PLAY comes after the
\* session server has answered and fwrite says it has written a login success packet.
StatesAfter(s) == CASE s = "handshake" -> {"status", "login"}
                    [] s = "status"    -> {"status"}
                    [] s = "login"     -> {"login"} \cup (IF WritesReported THEN {"play"} ELSE {})
                    [] s = "play"      -> {"play"}

\* packet_handler: the handler, then HP_RESULT_FATAL and HP_RESULT_CLOSED close the connection.
\* Either way the loop of update_client goes on reading.
HandlePacket(i) ==
  LET c == Current(i) IN
  /\ At(i, "handle") \/ At(i, "handled")
  /\ \E s \in StatesAfter(state[c]) :
       /\ s = "play" /\ state[c] = "login" => At(i, "handled")
       /\ state' = [state EXCEPT ![c] = s]
       /\ player' = IF s = "play" THEN player \cup {c} ELSE player
  /\ after' = [after EXCEPT ![i] = "read"]
  /\ Goto(i, "read") \/ Goto(i, "lock")
  /\ UNCHANGED <<main, listVars, live, is_closed, fdVars, index, batchVars, rest,
                 served, process>>

\* Logging in without a last error to inspect; sending a chat message.
HandlerDies(i) ==
  /\ At(i, "handle")
  /\ \/ state[Current(i)] = "login" /\ process' = "segfault"
     \/ state[Current(i)] = "play" /\ process' = "abort"
  /\ UNCHANGED <<main, listVars, connVars, fdVars, index, pc, batchVars, rest, after,
                 served>>

\* update_client is done with the batch's current client.
NextClient(i) ==
  /\ served' = served \cup {Current(i)}
  /\ rest' = [rest EXCEPT ![i] = Tail(@)]
  /\ Goto(i, IF Len(rest[i]) = 1 THEN "done" ELSE "update")

NoTimeout(i) ==
  /\ At(i, "timeout")
  /\ NextClient(i)
  /\ UNCHANGED <<main, listVars, connVars, fdVars, index, batchVars, after, process>>

\* do_timeout: 30 s without a keepalive from a player, or 60 s without a player.
Timeout(i) ==
  /\ At(i, "timeout")
  /\ after' = [after EXCEPT ![i] = "next"]
  /\ Goto(i, "lock")
  /\ UNCHANGED <<main, listVars, connVars, fdVars, index, batchVars, rest, served,
                 process>>

-----------------------------------------------------------------------------
(* connection_close                                                        *)

\* Variant: the entry stays in the list.
CloseRemoves_KeepEntry(i) ==
  /\ At(i, "lock")
  /\ WriteLockFree
  /\ Contains(clients, Current(i))
  /\ client_count' = client_count - 1
  /\ Goto(i, "stream")
  /\ UNCHANGED <<main, clients, connVars, fdVars, index, batchVars, rest, after, served, process>>

CloseRemoves(i) ==
  /\ At(i, "lock")
  /\ WriteLockFree
  /\ Contains(clients, Current(i))
  /\ clients' = RemoveAt(clients, Position(Current(i)))
  /\ client_count' = client_count - 1
  /\ Goto(i, "stream")
  /\ UNCHANGED <<main, connVars, fdVars, index, batchVars, rest, after, served, process>>

\* Variant: the client is counted out before it is looked up.
CloseExits_Counted(i) ==
  /\ At(i, "lock")
  /\ WriteLockFree
  /\ ~Contains(clients, Current(i))
  /\ client_count' = client_count - 1
  /\ Goto(i, "exiting")
  /\ UNCHANGED <<main, clients, connVars, fdVars, index, batchVars, rest, after, served, process>>

\* exit(): the handlers it runs wait for this thread (ThreadPool's JobExits), lock held.
CloseExits(i) ==
  /\ At(i, "lock")
  /\ WriteLockFree
  /\ ~Contains(clients, Current(i))
  /\ Goto(i, "exiting")
  /\ UNCHANGED <<main, listVars, connVars, fdVars, index, batchVars, rest, after, served, process>>

\* mcpr_connection_close, then fclose(rawstream), which closes the descriptor.
CloseStream(i) ==
  /\ At(i, "stream")
  /\ McprClose(Current(i))
  /\ IF process' = "running" THEN Goto(i, "descriptor") /\ open' = open \ {fd[Current(i)]}
                             ELSE UNCHANGED <<pc, open>>
  /\ UNCHANGED <<main, listVars, live, state, player, fd, index, batchVars, rest, after,
                 served>>

\* close(fd), a second time; the connection is freed and connection_close returns.  (What is
\* never read again is reset, for the sake of the state space, here and elsewhere.)
CloseDescriptor(i) ==
  LET c == Current(i) IN
  /\ At(i, "descriptor")
  /\ open' = open \ {fd[c]}
  /\ live' = live \ {c}
  /\ player' = player \ {c}
  /\ is_closed' = is_closed \ {c}
  /\ state' = [state EXCEPT ![c] = "handshake"]
  /\ fd' = [fd EXCEPT ![c] = Min(Fds)]
  /\ after' = [after EXCEPT ![i] = "none"]
  /\ IF after[i] = "read" THEN Goto(i, "read") /\ UNCHANGED <<served, rest>> ELSE NextClient(i)
  /\ UNCHANGED <<main, listVars, index, batchVars, process>>

-----------------------------------------------------------------------------
MainStep == \/ \E c \in Conns : AcceptConnection(c)
            \/ AcceptLeaks \/ AcceptEnds \/ DispatchEnds \/ WaitEnds \/ Clock
            \/ \E i \in Batches : DispatchBatch(i) \/ SkipBatch(i) \/ DropBatch(i)

BatchStep(i) ==
  \/ StartBatch(i) \/ SendKeepalive(i)
  \/ ReadPacket(i) \/ ReadNothing(i) \/ ReadFails(i) \/ ReadFreed(i)
  \/ HandlerOpens(i) \/ HandlerCloses(i) \/ HandlePacket(i) \/ HandlerDies(i)
  \/ NoTimeout(i) \/ Timeout(i)
  \/ CloseRemoves(i) \/ CloseExits(i) \/ CloseStream(i) \/ CloseDescriptor(i)

Next == MainStep \/ \E i \in Batches : BatchStep(i)

Spec == Init /\ [][Next]_vars

(* The main thread and the pool's threads get to run, and a burst of       *)
(* incoming connections is over some time.                                 *)
FairSpec == /\ Spec
            /\ WF_vars(MainStep) /\ WF_vars(AcceptEnds)
            /\ \A i \in Batches : WF_vars(BatchStep(i))

(* A client that is read from again and again is some time found to have   *)
(* sent nothing more: an assumption about the clients, not the server.     *)
QuietSpec == FairSpec /\ \A i \in Batches : SF_vars(ReadNothing(i))

-----------------------------------------------------------------------------
TypeOK ==
  /\ main \in MainPlaces
  /\ clients \in Seq(Conns) /\ client_count \in Nat
  /\ live \subseteq Conns /\ player \subseteq Conns /\ is_closed \subseteq Conns
  /\ state \in [Conns -> States]
  /\ fd \in [Conns \cup Batches -> Fds] /\ open \subseteq Fds
  /\ index \in Nat
  /\ pc \in [Batches -> Places]
  /\ first \in [Batches -> Conns \cup {NoConn}] /\ amount \in [Batches -> Nat]
  /\ rest \in [Batches -> Seq(Conns)]
  /\ after \in [Batches -> {"none", "read", "next"}]
  /\ served \subseteq Conns
  /\ process \in {"running"} \cup Deaths

\* client_count, from which serve_clients sizes the batches, is the list's length, whichever
\* threads close whatever clients (network.c:206, 398).
CountMatches == client_count = Len(clients)

Closing(i) == pc[i] \in {"stream", "descriptor"}

\* The list names every connection once, and none that is freed or that a thread is past
\* taking off the list (connection_close).
ListedAlive ==
  /\ ToSet(clients) \subseteq live
  /\ \A j, k \in DOMAIN clients : clients[j] = clients[k] => j = k
  /\ \A i \in Batches : Closing(i) => ~Contains(clients, Current(i))

\* serve_client_batch finds all the entries it was told to take, however many clients other
\* threads close first (network.c:518, "Shouldn't happen").
BatchesReadable ==
  \A i \in Batches : pc[i] = "queued" /\ amount[i] > 0 =>
     /\ Contains(clients, first[i])
     /\ Position(first[i]) + amount[i] - 1 <= Len(clients)

\* The clients a batch has taken or is going to take off the list.
Claim(i) == IF pc[i] = "queued"
              THEN {clients[k] : k \in {k \in DOMAIN clients :
                                          /\ amount[i] > 0
                                          /\ k >= Position(first[i])
                                          /\ k < Position(first[i]) + amount[i]}}
              ELSE ToSet(rest[i])

\* No two threads ever update the same client: struct connection has no lock of its own.
NoSharing == \A i, k \in Batches : i # k => Claim(i) \cap Claim(k) = {}

\* Unless memory ran out, every client still listed at the end of a tick was updated in it
\* (serve_clients).
TickServesAll ==
  main = "clock" /\ (\A i \in Batches : pc[i] # "dropped") => ToSet(clients) \subseteq served

\* update_client has begun with its client.
InUpdate == {"read", "handle", "handleOpen", "handled", "timeout", "lock", "stream", "descriptor",
             "exiting"}

Visiting == {Current(i) : i \in {k \in Batches : pc[k] \in InUpdate}}

Phase == CASE main = "accept" -> "open"
           [] main \in {"serve", "wait"} -> "round"
           [] main = "clock" -> "over"

Lossy == \E i \in Batches : pc[i] = "dropped"

Rounds == INSTANCE ServiceRounds
            WITH listed <- ToSet(clients), visiting <- Visiting, visited <- served \cup Visiting,
                 phase <- Phase, lossy <- Lossy

\* The ticks, with their batches of entries that move as others are unlinked, are rounds of visits:
\* no client is visited twice in one, by two threads, or after it left; only its visitor takes it
\* off the list, and once; and a round that lost nothing has visited everybody (serve_clients).
ImplementsRounds == Rounds!Spec

Stuck == process # "running" \/ \E i \in Batches : pc[i] = "exiting"

\* A tick ends, provided the clients pause and the process survives (net_tick).
TickEnds == main = "serve" ~> main = "clock" \/ Stuck

\* update_client reads from no connection that has been freed (connection.h:34).
ReadsLive == \A i \in Batches : pc[i] = "read" => Current(i) \in live

\* Every listed client keeps a descriptor of its own, though close(conn->fd) closes a number that
\* fclose has given up already (network.c:209-210): what another thread has opened in between
\* belongs to a login's handler, never to a client.
SocketsOwn ==
  /\ \A c \in ToSet(clients) : fd[c] \in open
  /\ \A c, d \in ToSet(clients) : fd[c] = fd[d] => c = d
=============================================================================
