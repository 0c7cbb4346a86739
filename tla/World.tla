--------------------------------- MODULE World ---------------------------------
(***************************************************************************)
(* world/world.c as the threads of the pool use it: the chunks around a    *)
(* player are looked up in the world's table, loaded and inserted if they  *)
(* are not found, and sent.                                                *)
(*                                                                         *)
(* The table's keys are pointers to the local variable of the load_chunk   *)
(* that inserted them, which is the same place on a thread's stack every   *)
(* time and holds anything once that call has returned.  A lookup walks    *)
(* the bucket of its key and compares with what is in those places now.    *)
(* Two calls into the table do not overlap here: what the table is then    *)
(* has no bounds (the code takes no lock).                                 *)
(***************************************************************************)
EXTENDS EntityIds, FiniteSets

CONSTANTS
  Columns,      \* chunk keys (get_chunk_key): positions that share a key are one column here
  BucketOf,     \* where the table files a column
  Chunks,       \* what malloc can return for a chunk (bounds the runs)
  NoChunk,      \* NULL
  SectionCount, \* CHUNK_SECTIONS_PER_CHUNK, 16
  Junk          \* what else a place on the stack may hold

ASSUME BucketAssumption == DOMAIN BucketOf = Columns
ASSUME SectionsAssumption == SectionCount \in Nat \ {0}
ASSUME NamesAssumption == NoChunk \notin Chunks /\ Junk \notin Columns

VARIABLES
  at,           \* where each thread is
  wanted,       \* the column it is about
  chunk,        \* the chunk it has
  sections,     \* how many sections of its packet are filled in
  stacked,      \* each thread's key variable of load_chunk
  filed,        \* the table: [bucket, owner, chunk], the owner being whose variable the key is
  live,         \* chunks that are allocated
  inserted      \* columns whose insertion succeeded

worldVars == <<at, wanted, chunk, sections, stacked, filed, live, inserted>>
chunkVars == <<wanted, chunk, sections, stacked, filed, live, inserted>>

Set(f, t, v) == [f EXCEPT ![t] = v]
Go(t, from, to) == at[t] = from /\ at' = Set(at, t, to)

WorldInit ==
  /\ at = [t \in Threads |-> "idle"]
  /\ wanted = [t \in Threads |-> Junk]
  /\ chunk = [t \in Threads |-> NoChunk]
  /\ sections = [t \in Threads |-> 0]
  /\ stacked = [t \in Threads |-> Junk]
  /\ filed = {} /\ live = {} /\ inserted = {}

-----------------------------------------------------------------------------
(* get_chunk and load_chunk                                                *)

\* One of the columns around a player is next in world_send_chunk_data1's loops, named by the
\* key that get_chunk makes of its position.
WantColumn(t) ==
  /\ Go(t, "idle", "lookup")
  /\ \E c \in Columns : wanted' = Set(wanted, t, c)
  /\ UNCHANGED <<chunk, sections, stacked, filed, live, inserted>>

\* The entries of a table that compare equal to a column's key, in the bucket it belongs to.
Matching(entries, places, c) ==
  {e \in entries : e.bucket = BucketOf[c] /\ places[e.owner] = c}

LookupHits(t) ==
  /\ Go(t, "lookup", "send")
  /\ \E e \in Matching(filed, stacked, wanted[t]) : chunk' = Set(chunk, t, e.chunk)
  /\ UNCHANGED <<wanted, sections, stacked, filed, live, inserted>>

LookupMisses(t) ==
  /\ Go(t, "lookup", "load")
  /\ Matching(filed, stacked, wanted[t]) = {}
  /\ UNCHANGED chunkVars

LoadChunk(t) ==
  /\ Go(t, "load", "insert")
  /\ \E c \in Chunks \ live : chunk' = Set(chunk, t, c) /\ live' = live \cup {c}
  /\ UNCHANGED <<wanted, sections, stacked, filed, inserted>>

\* No memory: the caller gets NULL.
LoadFails(t) ==
  /\ Go(t, "load", "send")
  /\ UNCHANGED chunkVars

\* The key's place on the stack is written before the table is called.
Stacked(t) == Set(stacked, t, wanted[t])

\* What the table may be when the entry is searched for: as it was, or enlarged, with every
\* entry filed anew by what its key's place holds then.
Refiled(places) ==
  {filed} \cup
  {{[e EXCEPT !.bucket = IF places[e.owner] = Junk THEN b ELSE BucketOf[places[e.owner]]] : e \in filed}
     : b \in {BucketOf[c] : c \in Columns}}

\* Variant: the chunk of an entry that is overwritten is freed.
Overwritten_Freed(old) == live \ {old}

Overwritten(old) == live

\* An entry that compares equal is overwritten, whatever column it was made for.
InsertOverwrites(t) ==
  /\ Go(t, "insert", "send")
  /\ stacked' = Stacked(t)
  /\ \E table \in Refiled(stacked') : \E e \in Matching(table, stacked', wanted[t]) :
       /\ filed' = (table \ {e}) \cup {[e EXCEPT !.owner = t, !.chunk = chunk[t]]}
       /\ live' = Overwritten(e.chunk)
  /\ inserted' = inserted \cup {wanted[t]}
  /\ UNCHANGED <<wanted, chunk, sections>>

InsertAdds(t) ==
  /\ Go(t, "insert", "send")
  /\ stacked' = Stacked(t)
  /\ \E table \in Refiled(stacked') :
       /\ Matching(table, stacked', wanted[t]) = {}
       /\ filed' = table \cup {[bucket |-> BucketOf[wanted[t]], owner |-> t, chunk |-> chunk[t]]}
  /\ inserted' = inserted \cup {wanted[t]}
  /\ UNCHANGED <<wanted, chunk, sections, live>>

\* No memory to enlarge the table, or for an entry: the chunk is freed and NULL returned.
InsertFails(t) ==
  /\ Go(t, "insert", "send")
  /\ stacked' = Stacked(t)
  /\ \/ UNCHANGED filed
     \/ filed' \in Refiled(stacked') /\ Matching(filed', stacked', wanted[t]) = {}
  /\ live' = live \ {chunk[t]} /\ chunk' = Set(chunk, t, NoChunk)
  /\ UNCHANGED <<wanted, sections, inserted>>

-----------------------------------------------------------------------------
(* send_chunk_data                                                         *)

\* The calls it makes may write over the place a key was in.
BeginPacket(t) ==
  /\ Go(t, "send", "fill")
  /\ \E left \in {stacked[t], Junk} : stacked' = Set(stacked, t, left)
  /\ UNCHANGED <<wanted, chunk, sections, filed, live, inserted>>

\* The first section of no chunk is read.
ReadsNull(t) ==
  /\ at[t] = "fill" /\ chunk[t] = NoChunk
  /\ at' = [u \in Threads |-> "dead"]
  /\ UNCHANGED chunkVars

FillSection(t) ==
  /\ at[t] = "fill" /\ chunk[t] # NoChunk
  /\ sections' = Set(sections, t, sections[t] + 1)
  /\ at' = Set(at, t, IF sections'[t] = SectionCount THEN "write" ELSE "fill")
  /\ UNCHANGED <<wanted, chunk, stacked, filed, live, inserted>>

\* No memory for the packet or for a section, or the packet has been written or could not be:
\* on to the next column in any case.
SendEnds(t) ==
  /\ at[t] \in {"send", "fill", "write"}
  /\ at' = Set(at, t, "idle")
  /\ wanted' = Set(wanted, t, Junk) /\ chunk' = Set(chunk, t, NoChunk) /\ sections' = Set(sections, t, 0)
  /\ UNCHANGED <<stacked, filed, live, inserted>>

WorldNext ==
  \E t \in Threads :
    \/ WantColumn(t) \/ LookupHits(t) \/ LookupMisses(t) \/ LoadChunk(t) \/ LoadFails(t)
    \/ InsertOverwrites(t) \/ InsertAdds(t) \/ InsertFails(t)
    \/ BeginPacket(t) \/ ReadsNull(t) \/ FillSection(t) \/ SendEnds(t)

WorldSpec == WorldInit /\ [][WorldNext]_worldVars

-----------------------------------------------------------------------------
Places ==
  {"idle", "lookup", "load", "insert", "send", "fill", "write", "dead"}

WorldTypeOK ==
  /\ at \in [Threads -> Places]
  /\ wanted \in [Threads -> Columns \cup {Junk}] /\ chunk \in [Threads -> Chunks \cup {NoChunk}]
  /\ sections \in [Threads -> 0 .. SectionCount]
  /\ stacked \in [Threads -> Columns \cup {Junk}]
  /\ filed \subseteq [bucket : {BucketOf[c] : c \in Columns}, owner : Threads, chunk : Chunks]
  /\ live \subseteq Chunks /\ inserted \subseteq Columns

\* The chunk a thread reads, and may share with threads that found it in the table or lost
\* their own entry to it, is allocated as long as it is read; and a packet is written only with
\* all its sections filled in.  Whose column the chunk was loaded for is not said: a key that
\* has gone stale may be answered with another column's (get_chunk).
SentWhole ==
  \A t \in Threads :
    /\ at[t] \in {"fill", "write"} => chunk[t] \in live \cup {NoChunk}
    /\ at[t] = "write" => chunk[t] # NoChunk /\ sections[t] = SectionCount

\* A column that has been put into the table is found there afterwards.
FoundAgain == [][\A t \in Threads : LookupMisses(t) => wanted[t] \notin inserted]_worldVars
=============================================================================
