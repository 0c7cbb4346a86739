# Stronk in TLA+

Stronk is a Minecraft server in C. One thread runs the tick; the clients of a
tick are divided among the threads of a pool; a packet of the protocol is read
from a socket, decoded, handled and answered by the thread that happens to have
its client. This directory models that core and what it rests on, checks it with
TLC and proves most of its safety with TLAPS.

Paths below are relative to the repository (`src/network/network.c` is the
server's own code, `lib/` what it carries along). The file `PROJECT.json` maps
every definition to the lines it stands for.

## 1. The system

| component | state it keeps | operations | interacts with |
|---|---|---|---|
| Thread pool (`lib/thpool.c`) | job queue, binary semaphore, counters of living and of working threads, keepalive flag | init, add work, wait, destroy, the loop `thread_do` | called by the tick; runs `serve_client_batch`; destroyed by the exit handler |
| Client service (`src/network/network.c`) | client list and its hand-kept count under `clients_lock`, sockets, per-client connection | accept, `serve_clients`, `serve_client_batch`, `update_client`, `connection_close` | pool (a batch is a job), packet connection, packet handlers |
| Packet handlers (`src/network/packethandlers/`) | protocol state, what a login has so far, the player | one function per packet and state | close connections through their result, world, chat, session service |
| Packet connection (`src/mcpr/connection.c`) | receiving buffer, cipher contexts, closed flag, a stdio stream over both | new, close, read a packet, write a packet | codec, the socket's stream |
| Packet codec (`src/mcpr/packet.c`), primitive codec (`src/mcpr/codec.c`) | none | bounds, encode and decode, packet by packet and number by number | packet connection |
| Hash table (`lib/algo/hash-table.c`) | chains of entries, their number, the size of the table | insert, enlarge, look up, remove | world |
| World (`src/world/world.c`) | chunk table, entity id counter | get, load and send a chunk, pack a section | PLAY handlers, on the pool's threads |
| Time arithmetic (`src/util.c`) | none | add, subtract and compare times | clock, sleeps |
| Lifecycle and clock (`src/server.c`, `src/main.c`) | which parts are up, the internal clock under its lock | init, clean up at exit, tick | everything |
| Errors (`src/ninerr/`) | the last error of a thread | set, get, free | everything |
| Chat, logging, streams, session service, crypto, UUIDs, protocol tables, vendored containers | little or none | | |

What is hard here:

* **Concurrency without much locking.** `thpool_wait` reads the queue outside
  its lock, `thpool_destroy` a counter outside its lock; one semaphore bit
  announces any number of jobs; the batches walk a list that other batches
  shrink; connections have no lock at all and rely on being in one batch only;
  the chunk table has no lock and is used from every thread.
* **Objects that die under their user.** A packet handler closes and frees the
  connection while `update_client` is reading from it in a loop; the same client
  may be closed twice; a descriptor is closed twice with other threads opening
  new ones between.
* **Re-entry.** Closing a packet stream calls the function that is closing it;
  `exit` called on a thread of the pool waits for the pool.
* **Keys that outlive their place.** The chunk table is given pointers to a local
  variable as keys, and compares what they point to after its function returned.
* **Partial failure.** Allocation failures in the middle of a dispatch, of a
  login, of a chunk, of an enlargement; a fill of the receiving buffer that stops
  half way; an initialisation that fails after some parts are up.
* **Sizes computed twice.** A packet is measured by one function and written by
  another, which compares with no end; a decoder believes lengths it is told, and
  a `size_t` wraps round.
* **Framing and bit packing.** Packets and numbers cut anywhere; blocks cut across
  words.

What makes each part correct:

* pool: a job that was added runs once; a wait ends, and not before the last job
  has; destroying ends, and frees nothing that is in use;
* client service: list, count and connections agree; no client is in two
  batches; no client is left out of a tick; a tick ends; nothing freed is used;
* packet connection: the packets that come out are those that were sent, in
  order, whole; the buffer holds no more than was allocated;
* codec: a number is read back as it was written, and no part of one passes for
  one; an encoder stays inside the room it was given; a decoder reads an honest
  packet to exactly the end of its frame;
* hash table: it is a map from keys to values;
* world: a section read by the client's rule is the section; a packet is made of all
  sections of one chunk, read from memory that is still allocated; no two players have
  one entity id until the counter has come round;
* handlers: what a login owns is freed once and reachable while in use; nobody
  plays without having been challenged; clients that answer in time are kept, and
  clients that do not are dropped;
* lifecycle: nothing a serving thread uses is taken down under it; the clock counts
  the ticks, and a sleep ends with its tick.

`PROJECT.json` lists all hazards with their lines and the properties on them.

## 2. Modules

| module | models | checked by | proved in |
|---|---|---|---|
| `JobBarrier` | what a pool promises its caller | (as a property of `ThreadPool`) | `ThreadPoolProofs` |
| `ThreadPool` | `lib/thpool.c` | `pool_safety`, `pool_live` | `ThreadPoolProofs` |
| `ServiceRounds` | what a tick promises the clients | (as a property of `ClientService`) | `ClientServiceProofs` |
| `ClientService` | `src/network/network.c`, with the close of `mcpr/connection.c` | `service_*` | `ClientServiceProofs` |
| `LoginProtocol` | what the server promises about one connection | (as a property of `Session`) | `SessionProofs` |
| `Session` | `src/network/packethandlers/`, and the clocks of `update_client` | `session`, `session_refuse`, `session_timeout` | `SessionProofs` |
| `PacketReader` | the receiving half of `mcpr/connection.c` | `packets`, `reader_overrun` | `PacketReaderProofs` |
| `Codec` | the variable-length integers of `mcpr/codec.c` | `packets` | `CodecProofs` |
| `PacketEncoder` | `mcpr_connection_write_packet`, and the bounds and encoders of `mcpr/packet.c` | `packets` | `CodecProofs` |
| `PacketDecoder` | the decoders of `mcpr/packet.c` | `packets` | `CodecProofs` |
| `KeyedStore` | what a hash table promises | (as a property of `HashTable`) | `WorldProofs` |
| `HashTable` | `lib/algo/hash-table.c` | `server` | `WorldProofs` |
| `EntityIds` | `generate_new_entity_id` of `world.c` | `server` | `WorldProofs` |
| `World` | looking up, loading and sending chunks in `world.c` | `server`, `world_lookup` | `WorldProofs` |
| `ChunkPacking` | `encode_chunk_section_blocks` of `world.c` | `server` | `ChunkPackingProofs` |
| `TimeArithmetic` | the `timespec` functions of `util.c` | `server` (through `Lifecycle`) | `LifecycleProofs` |
| `Lifecycle` | `server.c` | `server` | `LifecycleProofs` |

The `MC...` modules give constants their values. `MCPackets` and `MCServer` put
several components that share no variable into one run: a variable `subject`, chosen
at the start, says which of them moves in a behaviour, and the others stay where
they begin. Definitions marked "Variant" are plausible mistakes; no behaviour uses
them, and replacing a definition by its variant makes the property that is listed
with it fail.

### ThreadPool

One caller and any number of workers. A step is a critical section or one access
to shared memory outside of any. `bsem->mutex` and `rwmutex` are released within
the step that takes them; `thcount_lock` shows only in the place `Unlock`, where
a leaving worker has lowered `num_threads_alive` and still has to unlock a mutex
that lives inside the pool. Worker places follow `thread_do` line by line:
`LoopTest`, `SemWait`/`SemBlocked` (`bsem_wait`), `KeepaliveTest`, `MarkWorking`,
`Pull` (`jobqueue_pull`, with the semaphore set again if jobs are left), `Run`,
`MarkIdle` (the decrement, and the signal if it reached zero), `Leave`,
`Unlock`, `Exited`. A post wakes any one of the blocked workers; a wakeup may
also be spurious, of a worker and of the caller. Creating a thread may fail
(`CreateCanFail`), and a job may call `exit` (`JobCanExit`), whose handler
destroys the pool from within it. `thpool_destroy` empties the semaphore
repeatedly while workers are alive; its sleeps and its one-second window of
polling are steps like others. Left out: pausing (nothing calls it).

`JobBarrier` has no queue and no thread: jobs are added, started, finished; a
wait ends when none is outstanding. `ThreadPool` implements it with
`waiting` mapped to the caller being inside `thpool_wait`.

### ClientService

The main thread's tick is `accept` -> `serve` -> `wait` -> `clock`; there is one
program counter per batch, since the pool's barrier (`JobBarrier`) makes it
irrelevant which thread runs which. While batches are handed out
(`DispatchBatch`, with the sizes of `serve_clients`, the remainder in the last
batch) earlier batches already run. A batch copies its entries off the list
(`StartBatch`), then for each client sends a keepalive, reads packets until
there is none (`ReadPacket`, `HandlePacket`, and back to reading, as the loop in
`update_client` ignores what a handler says), and may time it out. A close takes
the write lock (`CloseRemoves`, or `CloseExits` where the client is no longer
listed and the code calls `exit` with the lock held), closes the protocol
connection and the stream (`CloseStream`), then the descriptor again and frees
(`CloseDescriptor`). `clients_lock` is not a variable: who holds it follows from
the places (`ReadLockFree`, `WriteLockFree`). Connections are addresses and are
used again; descriptor numbers are given out lowest first, and login handlers
take one for a while. `process` says how the process died, where the code runs
into an abort, an endless recursion or a bad pointer: nothing happens after.

What a packet says is left open, and with it time (both are in `Session`): a
timeout may come at any visit. Allocation failures (`AllocCanFail`) lose a batch
or an accepted socket.

`WritesReported`: the packet stream's write function is declared to return the
number of bytes and returns a truth value, 1. `fwrite` of one packet then counts
no whole item, so that with the usual C libraries every write is taken to have
failed and the state PLAY is never reached; one that reports success would behave
as the code means. The runs allow both, since the failing write is always offered
too: this adds behaviours and removes none. `ReadFails` likewise offers every end
of a failed read.

`ServiceRounds` has clients and visits, and neither list, batches nor threads: clients
join between the rounds, each is visited once in a round and by one visitor, only
who is being visited leaves, and a round ends when no visit is going on and,
unless memory ran out, everybody has been visited. `ClientService` implements it
(`ImplementsRounds`): a visit begins when `update_client` is past its keep alive and
ends when the thread turns to its next client; `visiting` is the current clients of
the threads in between (`Visiting`), `visited` those and the served ones; a round is
from the end of accepting to the end of waiting (`Phase`). Taking an entry off the
list is `Leave`; what a thread does within a visit, the hand-out of batches and the
deaths of the process are stutters. A thread that exits inside a close never ends
its visit, and so the round does not end either.

### Session

One connection from `accept` to its end. `place` follows its visits: `idle`
between ticks, `update` (the keep alive), `read` (any number of packets, one
action per handler and outcome), `timeout`. `ClientService` says who visits which
connection when; here a tick visits this one, unless its batch is lost
(`BatchLost`). `process` has the deaths of `ClientService` and one more, `wild`,
for a handler that frees or reads a pointer that is not its own: the properties
say it never happens.

`owned` is the set of pointers that point to an allocation of their own:
`login_start` fills in three, the labels of `handle_lg_encryption_response` free
them or hand the name to the player. `Close` is `connection_close` with
`mcpr_connection_close` in it, which in LOGIN and PLAY recurses. Times are ages:
of the last keep alive sent and received on the internal clock, which stands still
during a visit, and of the connection on the wall clock, which passes at any time.
`pending` is the client's side, the age of the oldest keep alive it has not
answered, and `late` and `fault` remember whether the client or the server has
ever been too slow; `joined_in_time` whether the player came within the limit;
`echoes` how often the position was sent to confirm one.
These five exist for the properties and guard nothing. Keep alive ids are ignored
by the code and by the model. `last_teleport_id` before it is set is `Garbage`, of
which a comparison with 0 may go either way.

`LoginProtocol` has a phase, the name that has been challenged and the name of the
player. `Session` implements it; what is left of a connection that is over is
nothing.

### PacketReader

A byte is its position in what the client sends. `BLOCK_SIZE` is 1. Filling the
buffer takes one byte at a time on an encrypted connection and up to `Chunk`
(256) at a time on a plain one, where the code adds `Chunk` for each byte to
the size: the rest of the counted bytes are whatever the memory held (`Junk`),
and what lies past the allocation is where the model stops (`overrun`).
Parsing looks at the front: no length yet, a frame not complete, a packet, a
packet that does not decode (the connection is closed and the bytes stay), or
junk, which may pass for anything. `realloc` and `malloc` may fail. The server
never calls `mcpr_connection_set_use_encryption`; both settings are checked.
Decryption is taken to succeed and to keep the length (CFB8). That decoding
consumes its whole frame, and that part of a length is not taken for one, are
assumed here and are what `ConsumesFrame` and `CutRefused` say of the codec.

### Codec

A byte is its low bits and the flag that more follow; shifting by groups is
multiplying by a power. The encoder writes a byte a step. Then some of the bytes
have arrived (`max_len` of them, fewer or more than the number has), and the
decoder reads a byte a step: beyond what has arrived, or behind the number, the
buffer may hold any byte, since the code reads a byte before it compares its index
with the limit.

### PacketEncoder, PacketDecoder

A packet is reduced to what its size depends on. For the encoder it is measured
(`AskBounds`: the constants, lengths and forgotten parts of
`mcpr_encode_packet_bounds`, kind by kind), then written field by field
(`WriteField`); nothing in the code compares the pointer with the end. A copy of a
string may be refused memory, a status text is composed anew in each pass and may
be missing in either, and a plugin channel of more than twenty letters aborts. The
decoder has `ptr`, `len_left`, which as a `size_t` is large when it is below zero,
and `touched`, the end of the furthest byte looked at, which exists for the
property. What the fields of a frame say and how long it is are chosen apart. The
slips of the code are in: a count's bytes are not compared with what is left
(`FieldFits`), the offset of the token of an encryption response is computed with
the width of the secret's length (`Taken`), a short handshake returns 0 instead of
an error (`fails`), and twenty-odd kinds the client may send have no decoder
(`UNDECODED`).

### HashTable, KeyedStore

Chains are sequences, the newest entry in front. An insertion first enlarges the
table if the integer quotient `entries * 3 / table_size` is not zero; the entries
are moved one a step (`Relink`), from the old table to the new, so that the map
is looked at in every state between. An enlargement, and an entry, may be refused
memory. `KeyedStore` is a function with a count and the last reply; `HashTable`
implements it with the entries of both tables as the function.

### World, EntityIds, ChunkPacking

A thread of the pool wants a column, looks it up, loads and inserts it if it is
not found, and fills in and sends its sections. The table is a set of entries that
name the thread whose key variable they point to: `stacked` is that variable, one
for each thread, since `load_chunk` has it in the same place of the stack each
time. It is written before the insertion, may be written over by the calls that
send a chunk, and is what a later lookup, overwrite or enlargement (`Refiled`)
compares and hashes. A bucket is walked whole and compared by what the places hold
*then*. Calls into the table by two threads follow each other in any order and do
not overlap: what an overlap does is undefined and has no finite set of outcomes.
Reading the sections of no chunk (`ReadsNull`) ends the process.

In `EntityIds` an increment is a read and a write between lock and unlock; the
counter wraps round at `IdCount`. `ChunkPacking` takes a step for each block. A
number is the set of places of its 1-bits, so that `|` is union and a shift moves
places. The three actions are the three ways through the loop's body: the block
fits with room to spare, ends the word, or is cut. The input is any section whose
blocks fit in `BlockBits` (those `load_chunk` makes do); the widths are parameters,
4096, 13 and 64 in the code.

### Lifecycle, TimeArithmetic

`InitOrder` and `CleanupOrder` are the sequences of `init` and `cleanup`. An
initialisation may fail at each part but two: OpenSSL's calls have no result that is
looked at, and `ninerr_init` always returns true (`src/src/ninerr/ninerr.c:42-51`), so
that the branch for it in `init` is never taken. Where the code calls `cleanup` itself
before `exit`, it runs twice if it is registered. Then ticks: the wall clock is read (it may be set to anything between two readings), threads serve,
the main thread waits, advances the internal clock and sleeps the rest of the
tick. `exit` may be called by the main thread and by a serving thread at any time;
it takes the parts down one a step while the other threads go on, and the pool only
when none is serving. The flag for logging is set nowhere, so that the log is never
closed. The functions on times are translated as they are, with `Base` units to the
second.

## 3. Runs

| run | instance | shows |
|---|---|---|
| `pool_safety` | 3 workers, 4 jobs, failing creations, an exiting job | `TypeOK`; `CountersExact`, the counters are the threads they count; `JobsAccounted`, no job lost or run twice; `IdleMeansDone`, the unlocked test of `thpool_wait` is a barrier; `QueuedJobHasWorker` and `SleeperHasSignaller`, no wakeup is lost |
| `pool_live` | 2 workers, 3 jobs, fair | `ImplementsBarrierFair`, the pool implements the fair `JobBarrier`; `WaitReturns`; `DestroyReturns` |
| `service_safety` | 3 connections, 2 threads, 4 descriptors, failing allocations | `CountMatches`, list and count agree; `ListedAlive`, no listed connection is freed; `BatchesReadable`, a batch's range is still in the list when it is read; `NoSharing`, no client is in two batches; `SocketsOwn`, a listed client's descriptor is open and its own; `ImplementsRounds`, a tick visits every client once, by one thread and while it is listed; `TypeOK` |
| `service_live` | 2 connections, 2 threads, clients that pause | `TickEnds`: dispatch, batches, closes and the wait never block each other for good |
| `service_freed` (violated) | 1 connection, 1 thread | `ReadsLive`: the loop reads from the connection a handler has freed |
| `session` | 2 names; keep alives after 2 ticks, answered within 2, limit 5; connecting within 2 seconds; teleport ids to 2 | `Owning`, what a handler frees or reads is its own; `EchoedOnce`, the position is echoed to the first confirmation only; `PunctualKept`, who answers in time is not timed out; `ImplementsProtocol`; `UnfinishedDropped` and `SilentDropped`, who does not is; `TypeOK` |
| `session_refuse` (violated) | the same | `RefusalSurvives`: closing in LOGIN or PLAY recurses until the stack is used up |
| `session_timeout` (violated) | the same | `CompletedKept`: who becomes a player during a visit is timed out at its end as one who has not |
| `packets` | reader: 3 packets (one malformed) behind lengths of 2 bytes, both modes; codec: all 9-bit numbers in groups of two bits; encoder and decoder: every kind, lengths and numbers at the edges of the groups, chunks of up to 2 sections, frames 3 bytes too short to 2 too long | `NothingLost`, packets come out whole and in order; `BufferFits`; `PacketsArrive`; `RoundTrip`, a number is read back from exactly its bytes; `CutRefused`, no part of one passes for one; `FrameExact`, an encoder keeps inside the room it was given and a chunk announces its true size; `ConsumesFrame`, an honest packet is read to exactly its end; `PacketsTypeOK` |
| `reader_overrun` (violated) | plain connection | `NeverOverruns`: each byte counts 256-fold, the second fill leaves the buffer |
| `server` | packing: 10 blocks of 3 bits in words of 5; table: 4 keys, 2 values, sizes 3, 7 and then ten per entry; ids: 2 threads, 4 ids, 6 joins; world: 2 threads, 2 columns, 3 chunks of 2 sections; lifecycle: 2 threads, 4 ticks of 2 units, 3 units to the second | `SectionReadable` and `ArrayExact`, the blocks come out of exactly the announced words; `ImplementsStore`, the hash table is a map; `IdsDistinct`; `SentWhole`, a packet has all sections of one chunk, from live memory (of which column is not said); `UsedWhileUp`, nothing in use is taken down; `ClockExact`, clock and sleep; `ServerTypeOK` |
| `world_lookup` (violated) | the same | `FoundAgain`: a column that was inserted is not found again |

The largest is `service_safety` with 5.3 million distinct states; `server` has half a
million, `service_live` a quarter of one.

**Bounds.** A lost wakeup needs a thread about to sleep, one that signals and
one that takes the job: three workers. Four jobs let a semaphore be set twice
while a worker holds a job and one more is queued. Two batches of one and two
clients (three connections, two threads) give a batch with a remainder, a batch
of size zero, a batch shrinking the list before another reads it, and a close
racing a dispatch; connections are used again, so a run has no bound on how many
come. One descriptor more than connections lets a number be taken between two
closes. For a session two names let a second login start replace the first; its
times keep the order of the code's (10, 30 and 60 s, a tick being much shorter) with
`KeepAliveAfter + Patience < KeepAliveLimit` just true, so that every comparison is
met at its edge; ages stop one past the limit they are compared with, and ids at
the first that differ from 0 and from each other.

Three frames with a two-byte length let a length and a body be cut anywhere and a
packet arrive behind a complete one; the buffer grows several times on the way.
Nine bits in groups of two make five groups, as 32 bits in groups of seven do, the
last of which is not full in either. The lengths and numbers of packets are those
on both sides of each step of `VarintBounds`; 11 and 16, 20 and 21 are the longest
level type, a user name's limit and both sides of a channel's.

Ten blocks cut blocks after one and after two of their bits and end a word exactly
in the middle of the section and at its end. Four keys whose hashes collide in the
first table, in the second, in both and in none grow the table twice, the second
time beyond the last prime; a removal and an insertion may follow any enlargement.
Six joins wrap a counter of four ids round. Two columns of one bucket and two
threads let an entry's key be written over by the same thread and found by the
other; a third chunk is the one loaded in vain. Two ticks and a carry do not fall
together (2 units of 3), a tick that ends exactly with a second comes third, and the
wall clock may jump both ways.

Symmetries (workers, connections) are used in safety runs only, where the
specification treats their members alike.

Deadlock is not checked where the system may stop: the pool after it is freed,
the service when the process has died or a thread is exiting, a session that is
over, the reader when the client has sent all, a number, packet or section that is
done, a process that has ended.

**Fairness.** In the pool: the operating system runs every thread that can run
(weak fairness of each worker's and of the caller's step); neither spurious
wakeups nor exits are required to happen. In the service: the same, and a burst
of connections ends (`AcceptEnds`). `TickEnds` also needs that a client that is
read again and again is some time found to have sent nothing (`QuietSpec`).
This is an assumption about clients that nothing in the code enforces: without
it one client keeps its thread and with it the tick, which the hazards name. In
a session: the tick goes on and visits the connection again and again (batches are
not lost for ever), and, as above, its client pauses; that the wall clock passes
is part of what `UnfinishedDropped` starts from. In the reader: the tick reads from
each connection again and again, and memory is not short for ever (strong fairness
of `FillEncrypted`).

**Findings.** The five violated runs are disagreements between the code and its
own comments or messages; `PROJECT.json` quotes both sides. Further faults are
part of the models without a run of their own:

* a creation that fails leaves `thpool_init` spinning (`CreateThread`);
  `thpool_destroy` reads the count of living threads outside its lock and may free
  the pool while the last one still has to unlock a mutex inside it (`Unlock`,
  `DestroyFrees`);
* a job that calls `exit` destroys the pool on its own worker, which then waits for
  itself (`JobExits`, `JobDestroyPolls`), and a second close of one client is such a
  job, with `clients_lock` held (`CloseExits`);
* `close(conn->fd)` may close what a login on another thread has just opened,
  though never a client's socket (`CloseDescriptor`, `HandlerOpens`, `SocketsOwn`);
  a failed read frees the stream's buffer (`ReadFails`); `accept` without
  descriptors spins (`AcceptEnds`); `fdopen` failing leaks (`AcceptLeaks`);
* the last error's type is looked at where there may be no error (`KeepAliveUnsent`,
  `LoginDies`, `ClientSettingsFail`); a chat message aborts (`Chat`); a second login
  start leaks what the first allocated (`LoginStart`);
* a string's length is not compared with what is left of its frame (`FieldFits`); a
  token behind a secret of another width is read from the wrong place (`Taken`); a
  short handshake counts as no packet (`fails`); a status that could not be composed
  when it was measured is written with no room for it (`AskBounds`);
* a chunk that could not be loaded is read (`ReadsNull`); a chunk whose entry is
  overwritten stays allocated (`Overwritten`);
* after a failed initialisation clean-up may run twice (`InitFails`), which its flags
  make harmless, and a thread of the pool that cleans up waits for itself
  (`CleanupStep`).

## 4. Proofs

All theorems hold for every value of the constants under the modules' named
assumptions.

`ThreadPoolProofs` (workers finite and not empty): `TypeCorrect`, `CountersCorrect`,
`JobsCorrect`, `WaitIsBarrier`, `NoLostJob`, `NoLostWakeup` and
`PoolImplementsBarrier`. One inductive invariant carries them: the types; each
counter is the cardinality of the set of workers in the places between its increment
and its decrement; each job is in exactly one of the queue, one worker's hand, and
the states done and dropped. The wakeup properties are not inductive from their own
statement: that a queued job has a worker on its way needs the semaphore's value (if
it is set, some worker is not blocked or will be woken), and that a sleeping caller
has somebody to wake it needs that the jobs it sleeps for are held by, or will be
pulled by, a busy worker. The safety part of the refinement follows, since
`IdleMeansDone` is what a step out of `thpool_wait` has to satisfy.

`ClientServiceProofs` (any connections, any number of threads at least one):
`CountCorrect`, `ListedCorrect`, `BatchesCorrect`, `SharingCorrect`, `TickCorrect`
and `RoundsImplemented`, from `ListInv`. Removals by other threads shift every index, so a
queued batch is not a range of positions: the invariant says that its clients still
lie together *somewhere* in the list, beginning with the client it was given
(`QueuedSound`). A batch's claim is those clients while it is queued and the rest of
its copy while it works; claims are disjoint (`NoSharing`), a thread's copy is still
listed but for the client being updated (`RestSound`), and the batches handed out so
far take entries before `index` only, and, unless one was lost for want of memory,
all of them, together with the clients already served (`ServeSound`). `TickCorrect`
is that last fact when all have been handed out and are done. The lemmas are about
steps of one kind: those that leave the list alone, that advance a copy, that take a
batch off the list, that remove an entry.

`RoundsImplemented` maps each step to a step of `ServiceRounds` or to none. That a
client whose visit begins has not been visited yet needs `OnceSound`: who has been
served is in nobody's claim, and a thread that is about to take a client up finds it
still listed, since only its visitor could have removed it. Claims are disjoint, so
nobody else is visiting it, and the end of one visit leaves all others. While batches
are handed out those served are among the entries before `index`, so that no later
batch claims them. A round that ends is `TickCorrect` once more: its guard says that
the list is served.

The same module has `SocketsCorrect` and `TypeCorrect`. The sockets of listed
clients are open and distinct, and (`Doomed`) whatever number a thread is about to
close is no listed client's: `connection_close` closes a number after the stream has
given it up, and in between it may have been given to a login, but an accept, which
alone would make it a client's, does not run while batches do.

`SessionProofs` (`KeepAliveAfter + Patience < KeepAliveLimit`, which the code's
10 and 30 s leave 20 s for; any set of names without `NoName`): `TypeCorrect`,
`OwningCorrect`, `PunctualCorrect`, `SessionImplementsProtocol` and
`EchoedOnceCorrect`. `Owning` needs one more fact to be inductive, that a
connection that is still to shake hands has no login under way. `PunctualKept`
speaks of one place only; its invariant says at every place how old the last answer
can be: no older than the last keep alive if none is pending, and otherwise no
older than the pending one's age plus the interval between two, since the one
before it was answered; a keep alive is at most an interval old, and at most that
even when the visit begins. The implementation follows from `Owning`: that a name
has been challenged whenever a response is accepted, and that accepting it does not
go wrong.

`PacketReaderProofs` (packets of any number and lengths, a length of any size):
`NothingLostCorrect`, `BufferCorrect`, `TypeCorrect`. `End`, where a frame ends, is a
recursive function; that it is what its equation says follows by taking the smallest
number at which it would not be. Ends grow strictly, so the frame at the front of the
buffer, which the code knows by its bytes only, is the one after the last delivered
(`StreamSound`), whose bytes the front then holds.

`ChunkPackingProofs` (a block is narrower than a word, and a section ends with
a word): `PackedCorrect`, `ArrayCorrect`, `ReadableCorrect`. The invariant says
that the finished words and the current one, laid end to end, hold the bits of
the packed blocks at `block * BlockBits + bit` and nothing else, and that the
current word has no bit above `bits_used`, needed because the current word is
dropped when it is full. Two lemmas say that a block that fits, and a block that
is cut, cover their bits exactly once; the readability theorem adds that
quotient and remainder find a bit's word and place, and only those.

`CodecProofs` (a group of at least two values; a number below the group's power of
`MaxBytes`): `RoundTripCorrect` and `CutCorrect`, for every width of a number and a
group. While a number is written, what is left of it is the number divided by the
power of the bytes written, and a byte is the group at its place (`Written`); more
follow exactly while something is left, so the number of bytes is what
`mcpr_varint_bounds` counts. While it is read, the result is the number modulo the
power of the bytes read. Both are steps of one lemma about quotients and remainders
of a product (`OneMoreGroup`).

`FrameCorrect` and `ConsumesCorrect` in the same module speak of sums over the fields
of a packet. `SumOf` is a recursive function; that it exists is shown by taking the
smallest length at which its equation would fail, and then come the lemmas on the
head of a sequence, on concatenation and on termwise comparison. For the encoder: the
bytes planned for a packet are at most its bounds, kind by kind (`PacketBytes`; a
chunk's sections come to exactly the announced size, `DataBytes`), and what has been
written together with what is still planned is what was planned. The bounds of a
packet's numbers are literals in the code (10, 20, 33, 51) that allow five bytes a
number; they are enough for a `MaxBytes` between 2 and 6 (`MarginsAssumption`), and
the code's is 5. That the theorem needs such an assumption is how fragile those
literals are. For the decoder: what it still has to read is the tail of the packet's
fields (`FieldsLeft`), and while the frame is as the protocol has it (`Honest`) that
is exactly what is left of the frame (`HonestLeft`), so that no field is refused and
none reads past it. The places where the decoder is wrong (`Taken`, the short
handshake) are in the proof as the cases that an honest frame excludes.
`CodecTypeCorrect`, `EncoderTypeCorrect` and `DecoderTypeCorrect` are the types.

`WorldProofs`: `IdsCorrect` and `SentWholeCorrect`. The k-th id is `FirstId` and k
modulo `IdCount`, whoever took it; that two ids less than a round apart differ is the
uniqueness of a remainder. A chunk that is read is allocated because every entry's
chunk is, and because a chunk that has been loaded and not inserted is no other
thread's and in no entry: its failure to be inserted, which frees it, hurts nobody.
Neither theorem says more than that: ids repeat after `IdCount` players, and the chunk
in a packet need not be the announced column's, since a key that has gone stale may be
answered with another's. A property that it is would fail for the reason `FoundAgain`
does.
`IdsTypeCorrect` and `WorldTypeCorrect` are the types.

The same module has the hash table, for any keys, hash function and primes:
`TableImplementsStore`, that it is a map, and `TableTypeCorrect`. The invariant
(`TableInv`) says that an entry is in the chain its key hashes to *in its own table*,
which is why the last `Relink` has to hash anew; that no chain has a key twice, nor
the two tables a key in common, so that an entry found is the only one; and that
`entries` is the number of keys, which an overwrite does not change. Lemmas say what a
chain's entries are after one is put in front, taken off the front, changed or taken
out, and what a table's are after one chain changed. Then every step is one call of
`KeyedStore` (`InsertBegins` and the enlargement are none: the call is its last step)
and the map is the same all through an enlargement.

`LifecycleProofs`: `ClockCorrect`, `UsedWhileUpCorrect` and `LifeTypeCorrect`. Lemmas
say that addition, difference and comparison of times are those of the units they
stand for. Clean-up while threads serve has got as far as the pool at most, which is
what its remaining length being 7 or 8 says; the main thread waits whenever one
serves, so the clock stands still.

Together: `MCPackets` and `MCServer` put components side by side, and a behaviour of
theirs is a behaviour of each component (`PacketsComponents`, `ServerComponents`),
which moves or stutters. So what is proved of the components holds of them in the
specifications the runs check: `PacketsTypeCorrect` and `PacketsSafe` (in
`PacketReaderProofs`), `ServerTypeCorrect` and `ServerSafe` (in `LifecycleProofs`).

Only model-checked is what is temporal beyond `[]` and the implementations:
`WaitReturns`, `DestroyReturns`, the fair part of `ImplementsBarrierFair`, `TickEnds`,
`PacketsArrive`, `UnfinishedDropped` and `SilentDropped`. The prover does no liveness
under fairness, nor `ENABLED`.

## 5. Not modelled

* Chat's filter, formatting of UUIDs and texts, the protocol's tables, logging: data
  or output. Every chat broadcast aborts before it reaches them, which the models of
  its callers have.
* HTTP and JSON of the session service, OpenSSL, sockets' setup: pure I/O, present
  as the outcomes their callers distinguish.
* Errors: the last error of a thread is replaced by the next and printed; nothing is
  decided by it but where a handler looks at its type, which `Session` has.
* Streams (`bstream.c` and friends): used by logging only.
* jansson, NBT, `psnip` and the list, vendored; the list appears as a sequence.
* In modelled parts: pausing of the pool, sets, iterators and freeing of the hash
  table, varlongs (read nowhere), compression (switched on nowhere), client settings,
  which nobody reads, and what the fields of packets say beyond their sizes.
* Overlapping calls into the chunk table, which have no finite set of outcomes, and equal
  keys for positions that differ: a column of `World` is a key (`get_chunk_key`), and no
  property says that the chunk sent is that of the position. All chunks are alike so far.

What an uninitialised value or freed memory contains is a choice where the code reads
it, and the end of the model where it writes.

Two thirds of the repository's lines of C are vendored libraries; of the server's own,
much is declarations (`packet.h` alone has 2680 lines), names of protocol constants
and calls of libraries. The mapped lines are therefore about a tenth of all, though
they hold nearly every state change of the server.

## 6. Plan

Composition in brackets.

1. `Codec` in `PacketReader` [a length as the bytes of a varint instead of
   `HeaderSize` bytes].
2. `World` in `HashTable` [keys as places whose contents change, with the chains'
   order].
3. Ownership of the last error.
