------------------------------ MODULE WorldProofs ------------------------------
(* Proofs about EntityIds and World, for any number of threads, ids, columns *)
(* and chunks; and about HashTable, which World's columns are kept in, for   *)
(* any keys, hashes and primes.                                              *)
EXTENDS World, HashTable, FiniteSetTheorems, SequenceTheorems, TLAPS

-----------------------------------------------------------------------------
(* Entity ids                                                              *)

\* Division leaves a remainder below the divisor (the 32 bits of a counter).
LEMMA DivMod ==
  ASSUME NEW w \in Nat \ {0}, NEW n \in Nat
  PROVE  n \div w \in Int /\ n % w \in 0 .. w - 1 /\ n = (n \div w) * w + (n % w)
OBVIOUS

\* A number is split into multiples of a width and a rest in one way only.
LEMMA OneSplit ==
  ASSUME NEW w \in Nat \ {0}, NEW a \in Int, NEW c \in Int,
         NEW p \in 0 .. w - 1, NEW q \in 0 .. w - 1, a * w + p = c * w + q
  PROVE  a = c /\ p = q
<1>1. (a - c) * w = q - p
  OBVIOUS
<1>2. ASSUME a - c >= 1 PROVE (a - c) * w >= w
  <2>1. (a - c) * w = (a - c - 1) * w + w
    OBVIOUS
  <2>2. (a - c - 1) * w >= 0
    BY <1>2
  <2> QED BY <2>1, <2>2
<1>3. ASSUME c - a >= 1 PROVE (a - c) * w <= 0 - w
  <2>1. (a - c) * w = 0 - ((c - a - 1) * w) - w
    OBVIOUS
  <2>2. (c - a - 1) * w >= 0
    BY <1>3
  <2> QED BY <2>1, <2>2
<1>4. a = c
  BY <1>1, <1>2, <1>3
<1> QED BY <1>4

LEMMA Regroup ==
  ASSUME NEW w \in Int, NEW a \in Int, NEW b \in Int, NEW c \in Int, NEW n \in Int,
         NEW r \in Int, NEW s \in Int, NEW u \in Int,
         n = a * w + r, r + 1 = b * w + s, n + 1 = c * w + u
  PROVE  (a + b) * w + s = c * w + u
<1>1. (a + b) * w = a * w + b * w
  OBVIOUS
<1>2. a * w \in Int /\ b * w \in Int
  OBVIOUS
<1> QED BY <1>1, <1>2

\* Counting on wraps round as counting does (++entity_id_counter on 32 bits).
LEMMA NextRest ==
  ASSUME NEW w \in Nat \ {0}, NEW n \in Nat
  PROVE  ((n % w) + 1) % w = (n + 1) % w
<1> DEFINE r == n % w
           s == (r + 1) % w
           u == (n + 1) % w
<1>1. n = (n \div w) * w + r /\ r \in Nat /\ n \div w \in Int
  BY DivMod
<1>2. r + 1 = ((r + 1) \div w) * w + s /\ s \in 0 .. w - 1 /\ (r + 1) \div w \in Int
  BY <1>1, DivMod
<1>3. n + 1 = ((n + 1) \div w) * w + u /\ u \in 0 .. w - 1 /\ (n + 1) \div w \in Int
  BY DivMod
<1> HIDE DEF r, s, u
<1>4. ((n \div w) + ((r + 1) \div w)) * w + s = ((n + 1) \div w) * w + u
  BY <1>1, <1>2, <1>3, Regroup
<1>5. (n \div w) + ((r + 1) \div w) \in Int
  BY <1>1, <1>2
<1>6. s = u
  <2> DEFINE a == (n \div w) + ((r + 1) \div w)
             c == (n + 1) \div w
  <2>1. a \in Int /\ c \in Int /\ a * w + s = c * w + u
    BY <1>3, <1>4, <1>5
  <2>2. s \in 0 .. w - 1 /\ u \in 0 .. w - 1
    BY <1>2, <1>3
  <2> HIDE DEF a, c
  <2> QED BY <2>1, <2>2, OneSplit
<1> QED BY <1>6 DEF r, s, u

\* Two numbers with one rest are at least a width apart (when an id comes round again).
LEMMA FarApart ==
  ASSUME NEW w \in Nat \ {0}, NEW j \in Nat, NEW k \in Nat, j < k, j % w = k % w
  PROVE  k >= j + w
<1>1. j = (j \div w) * w + (j % w) /\ j \div w \in Int
  BY DivMod
<1>2. k = (k \div w) * w + (k % w) /\ k \div w \in Int
  BY DivMod
<1> DEFINE d == (k \div w) - (j \div w)
<1>3. d \in Int /\ k - j = d * w
  <2>1. d * w = (k \div w) * w - (j \div w) * w
    BY <1>1, <1>2
  <2> QED BY <2>1, <1>1, <1>2
<1> HIDE DEF d
<1>4. d >= 1
  <2>1. ASSUME d <= 0 PROVE d * w <= 0
    BY <2>1, <1>3
  <2> QED BY <2>1, <1>3
<1>5. d * w = (d - 1) * w + w /\ (d - 1) * w >= 0
  BY <1>3, <1>4
<1> QED BY <1>3, <1>5

\* The id that the n-th player gets.
IdOf(n) == FirstId + (n % IdCount)

\* The mutex is the thread's that is not idle; the counter is the last id that was given, or,
\* once it is written, the one that is being given.
IdsInv ==
  /\ IdsTypeOK
  /\ \A t \in Threads : id_at[t] # "idle" => entity_id_counter_mutex = t
  /\ \A j \in 1 .. Len(ids) : ids[j] = IdOf(j)
  /\ (\A t \in Threads : id_at[t] # "unlock") => entity_id_counter = IdOf(Len(ids))
  /\ \A t \in Threads : id_at[t] \in {"write", "unlock"} => tmp[t] = IdOf(Len(ids) + 1)
  /\ \A t \in Threads : id_at[t] = "unlock" => entity_id_counter = IdOf(Len(ids) + 1)

LEMMA IdOfInt == ASSUME NEW n \in Nat PROVE IdOf(n) \in Int
BY IdsAssumption, DivMod DEF IdOf

LEMMA IdOfNext ==
  ASSUME NEW n \in Nat
  PROVE  FirstId + ((IdOf(n) + 1 - FirstId) % IdCount) = IdOf(n + 1)
<1>1. n % IdCount \in Int
  BY IdsAssumption, DivMod
<1>2. IdOf(n) + 1 - FirstId = (n % IdCount) + 1
  BY <1>1, IdsAssumption DEF IdOf
<1>3. ((n % IdCount) + 1) % IdCount = (n + 1) % IdCount
  BY IdsAssumption, NextRest
<1> QED BY <1>2, <1>3 DEF IdOf

LEMMA SameRest ==
  ASSUME NEW j \in Nat, NEW k \in Nat, IdOf(j) = IdOf(k)
  PROVE  j % IdCount = k % IdCount
<1> DEFINE a == j % IdCount
           b == k % IdCount
<1>1. a \in Int
  BY IdsAssumption, DivMod
<1>2. b \in Int
  BY IdsAssumption, DivMod
<1>3. FirstId + a = FirstId + b
  BY DEF IdOf
<1> HIDE DEF a, b
<1>4. a = b
  BY <1>1, <1>2, <1>3, IdsAssumption
<1> QED BY <1>4 DEF a, b

LEMMA IdsInvInit == IdsInit => IdsInv
<1> SUFFICES ASSUME IdsInit PROVE IdsInv
  OBVIOUS
<1>1. IdOf(0) = FirstId
  <2>1. 0 % IdCount = 0
    BY IdsAssumption
  <2> QED BY <2>1, IdsAssumption DEF IdOf
<1>2. IdsTypeOK
  BY IdsAssumption DEF IdsInit, IdsTypeOK
<1>3. Len(ids) = 0
  BY DEF IdsInit
<1> QED BY <1>1, <1>2, <1>3 DEF IdsInit, IdsInv

LEMMA IdsInvStep == IdsInv /\ [IdsNext]_idVars => IdsInv'
<1> SUFFICES ASSUME IdsInv, [IdsNext]_idVars PROVE IdsInv'
  OBVIOUS
<1> DEFINE n == Len(ids)
<1>n. n \in Nat
  BY DEF IdsInv, IdsTypeOK
<1>1. ASSUME NEW t \in Threads, LockIds(t) PROVE IdsInv'
  <2>1. \A u \in Threads : id_at[u] = "idle"
    BY <1>1, NobodyAssumption DEF LockIds, MutexFree, IdsInv
  <2> QED BY <1>1, <2>1 DEF LockIds, Moves, IdsInv, IdsTypeOK
<1>2. ASSUME NEW t \in Threads, ReadCounter(t) PROVE IdsInv'
  <2>1. entity_id_counter = IdOf(n)
    <3>1. \A u \in Threads : u # t => id_at[u] = "idle"
      BY <1>2 DEF ReadCounter, Moves, IdsInv
    <3> QED BY <1>2, <3>1 DEF ReadCounter, Moves, IdsInv
  <2>2. tmp' = [tmp EXCEPT ![t] = IdOf(n + 1)]
    BY <1>2, <2>1, <1>n, IdOfNext DEF ReadCounter
  <2>3. IdOf(n + 1) \in Int
    BY <1>n, IdOfInt
  <2>4. IdsTypeOK'
    BY <1>2, <2>2, <2>3 DEF ReadCounter, Moves, IdsInv, IdsTypeOK
  <2> QED BY <1>2, <2>2, <2>4 DEF ReadCounter, Moves, IdsInv, IdsTypeOK
<1>3. ASSUME NEW t \in Threads, WriteCounter(t) PROVE IdsInv'
  <2>1. tmp[t] = IdOf(n + 1) /\ tmp[t] \in Int
    BY <1>3 DEF WriteCounter, Moves, IdsInv, IdsTypeOK
  <2>2. IdsTypeOK'
    BY <1>3, <2>1 DEF WriteCounter, Moves, IdsInv, IdsTypeOK
  <2> QED BY <1>3, <2>1, <2>2 DEF WriteCounter, Moves, IdsInv, IdsTypeOK
<1>4. ASSUME NEW t \in Threads, UnlockIds(t) PROVE IdsInv'
  <2>1. tmp[t] = IdOf(n + 1) /\ tmp[t] \in Int /\ entity_id_counter = IdOf(n + 1)
    BY <1>4 DEF UnlockIds, Moves, IdsInv, IdsTypeOK
  <2>2. \A u \in Threads : id_at'[u] = "idle"
    BY <1>4 DEF UnlockIds, Moves, IdsInv, IdsTypeOK
  <2>a. ids \in Seq(Int) /\ ids' = Append(ids, tmp[t])
    BY <1>4 DEF UnlockIds, IdsInv, IdsTypeOK
  <2>3. Len(ids') = n + 1 /\ \A j \in 1 .. n : ids'[j] = ids[j]
    BY <2>a, <2>1
  <2>4. ids'[n + 1] = IdOf(n + 1) /\ ids' \in Seq(Int)
    BY <2>a, <2>1
  <2>5. \A j \in 1 .. Len(ids') : ids'[j] = IdOf(j)
    BY <2>3, <2>4, <1>n DEF IdsInv
  <2>6. IdsTypeOK'
    BY <1>4, <2>4 DEF UnlockIds, Moves, IdsInv, IdsTypeOK
  <2> QED BY <1>4, <2>1, <2>2, <2>3, <2>5, <2>6 DEF UnlockIds, IdsInv
<1>5. CASE UNCHANGED idVars
  BY <1>5 DEF idVars, IdsInv, IdsTypeOK
<1> QED BY <1>1, <1>2, <1>3, <1>4, <1>5 DEF IdsNext

\* generate_new_entity_id: for any number of threads and ids, no two of IdCount players in a
\* row get one id.
THEOREM IdsCorrect == IdsSpec => []IdsDistinct
<1>1. ASSUME IdsInv PROVE IdsDistinct
  <2> SUFFICES ASSUME NEW j \in DOMAIN ids, NEW k \in DOMAIN ids,
                      j < k, k < j + IdCount, ids[j] = ids[k]
               PROVE  FALSE
    BY DEF IdsDistinct
  <2>1. j \in 1 .. Len(ids) /\ k \in 1 .. Len(ids)
    BY <1>1 DEF IdsInv, IdsTypeOK
  <2>2. IdOf(j) = IdOf(k)
    BY <1>1, <2>1 DEF IdsInv
  <2>3. j \in Nat /\ k \in Nat
    BY <2>1
  <2>5. j % IdCount = k % IdCount
    BY <2>2, <2>3, SameRest
  <2>6. k >= j + IdCount
    BY <2>3, <2>5, IdsAssumption, FarApart
  <2> QED BY <2>3, <2>6, IdsAssumption
<1> QED BY <1>1, IdsInvInit, IdsInvStep, PTL DEF IdsSpec

\* The counter stays in its 32 bits and the mutex is a thread's or nobody's.
THEOREM IdsTypeCorrect == IdsSpec => []IdsTypeOK
<1>1. IdsInv => IdsTypeOK
  BY DEF IdsInv
<1> QED BY <1>1, IdsInvInit, IdsInvStep, PTL DEF IdsSpec

-----------------------------------------------------------------------------
(* Chunks                                                                  *)

Filings == [bucket : {BucketOf[c] : c \in Columns}, owner : Threads, chunk : Chunks]

\* What a thread holds is allocated, and so is what the table refers to; a chunk that is to be
\* inserted is nobody else's yet; and sections are filled in only between "send" and "write".
WorldInv ==
  /\ WorldTypeOK
  /\ \A t \in Threads : chunk[t] \in live \cup {NoChunk}
  /\ \A e \in filed : e.chunk \in live
  /\ \A t \in Threads : at[t] = "insert" =>
       /\ chunk[t] # NoChunk
       /\ \A e \in filed : e.chunk # chunk[t]
       /\ \A u \in Threads : u # t => chunk[u] # chunk[t]
  /\ \A t \in Threads :
       /\ at[t] \in {"lookup", "load", "insert"} => wanted[t] \in Columns
       /\ at[t] \in {"idle", "lookup", "load", "insert", "send"} => sections[t] = 0
       /\ at[t] = "fill" => sections[t] < SectionCount
       /\ at[t] = "write" => chunk[t] # NoChunk /\ sections[t] = SectionCount

\* An enlargement (hash_table_enlarge) keeps the chunks, whatever the keys' places hold.
LEMMA RefiledKeeps ==
  ASSUME NEW places \in [Threads -> Columns \cup {Junk}], filed \subseteq Filings,
         NEW filings \in Refiled(places)
  PROVE  /\ filings \subseteq Filings
         /\ \A e \in filings : \E f \in filed : e.chunk = f.chunk
<1> DEFINE Anew(e, b) ==
      [e EXCEPT !.bucket = IF places[e.owner] = Junk THEN b ELSE BucketOf[places[e.owner]]]
<1>1. CASE filings = filed
  BY <1>1
<1>2. CASE filings # filed
  <2>1. PICK b \in {BucketOf[c] : c \in Columns} : filings = {Anew(e, b) : e \in filed}
    BY <1>2 DEF Refiled
  <2>2. ASSUME NEW e \in filed PROVE Anew(e, b) \in Filings /\ Anew(e, b).chunk = e.chunk
    BY DEF Filings
  <2> QED BY <2>1, <2>2
<1> QED BY <1>1, <1>2

LEMMA WorldInvInit == WorldInit => WorldInv
BY SectionsAssumption DEF WorldInit, WorldInv, WorldTypeOK, Places

\* A lookup, a key or a packet changes neither the table's chunks nor what is allocated.
LEMMA WorldInvQuiet ==
  ASSUME WorldInv, NEW t \in Threads,
         WantColumn(t) \/ LookupHits(t) \/ LookupMisses(t) \/ LoadFails(t) \/ BeginPacket(t)
           \/ ReadsNull(t) \/ FillSection(t) \/ SendEnds(t)
  PROVE  WorldInv'
<1>1. CASE WantColumn(t)
  BY <1>1 DEF WantColumn, Go, Set, WorldInv, WorldTypeOK, Places
<1>2. CASE LookupHits(t)
  <2>1. PICK e \in filed : chunk' = [chunk EXCEPT ![t] = e.chunk]
    BY <1>2 DEF LookupHits, Matching, Set
  <2>2. e.chunk \in live /\ e.chunk \in Chunks
    BY <2>1 DEF WorldInv, WorldTypeOK
  <2>3. \A u \in Threads : at[u] = "insert" => e.chunk # chunk[u]
    BY <2>1 DEF WorldInv
  <2>4. WorldTypeOK'
    BY <1>2, <2>1, <2>2 DEF LookupHits, Go, Set, WorldInv, WorldTypeOK, Places
  <2> QED BY <1>2, <2>1, <2>2, <2>3, <2>4 DEF LookupHits, Go, Set, WorldInv, WorldTypeOK
<1>3. CASE LookupMisses(t)
  BY <1>3 DEF LookupMisses, Go, Set, chunkVars, WorldInv, WorldTypeOK, Places
<1>4. CASE LoadFails(t)
  BY <1>4 DEF LoadFails, Go, Set, chunkVars, WorldInv, WorldTypeOK, Places
<1>5. CASE BeginPacket(t)
  BY <1>5, SectionsAssumption DEF BeginPacket, Go, Set, WorldInv, WorldTypeOK, Places
<1>6. CASE ReadsNull(t)
  BY <1>6 DEF ReadsNull, chunkVars, WorldInv, WorldTypeOK, Places
<1>7. CASE FillSection(t)
  <2>1. sections[t] \in Nat /\ sections[t] < SectionCount /\ SectionCount \in Nat
    BY <1>7, SectionsAssumption DEF FillSection, WorldInv, WorldTypeOK
  <2>2. sections'[t] = sections[t] + 1
    BY <1>7 DEF FillSection, Set, WorldInv, WorldTypeOK
  <2>3. at'[t] = IF sections[t] + 1 = SectionCount THEN "write" ELSE "fill"
    BY <1>7, <2>2 DEF FillSection, Set, WorldInv, WorldTypeOK
  <2>4. \A u \in Threads : u # t => at'[u] = at[u] /\ sections'[u] = sections[u]
    BY <1>7 DEF FillSection, Set, WorldInv, WorldTypeOK
  <2>5. WorldTypeOK'
    <3>1. sections' \in [Threads -> 0 .. SectionCount]
      <4>1. sections[t] + 1 \in 0 .. SectionCount /\ sections \in [Threads -> 0 .. SectionCount]
        BY <2>1 DEF WorldInv, WorldTypeOK
      <4>2. sections' = [sections EXCEPT ![t] = sections[t] + 1]
        BY <1>7 DEF FillSection, Set
      <4> QED BY <4>1, <4>2
    <3>2. at' \in [Threads -> Places]
      BY <1>7 DEF FillSection, Set, WorldInv, WorldTypeOK, Places
    <3> QED BY <1>7, <3>1, <3>2 DEF FillSection, WorldInv, WorldTypeOK
  <2> QED BY <1>7, <2>1, <2>2, <2>3, <2>4, <2>5 DEF FillSection, WorldInv
<1>8. CASE SendEnds(t)
  <2>1. \A u \in Threads : u # t =>
          at'[u] = at[u] /\ wanted'[u] = wanted[u] /\ chunk'[u] = chunk[u] /\ sections'[u] = sections[u]
    BY <1>8 DEF SendEnds, Set, WorldInv, WorldTypeOK
  <2>2. at'[t] = "idle" /\ chunk'[t] = NoChunk /\ sections'[t] = 0
    BY <1>8 DEF SendEnds, Set, WorldInv, WorldTypeOK
  <2>3. WorldTypeOK'
    <3>1. at' \in [Threads -> Places] /\ wanted' \in [Threads -> Columns \cup {Junk}]
      BY <1>8 DEF SendEnds, Set, WorldInv, WorldTypeOK, Places
    <3>2. chunk' \in [Threads -> Chunks \cup {NoChunk}]
      BY <1>8 DEF SendEnds, Set, WorldInv, WorldTypeOK
    <3>3. sections' \in [Threads -> 0 .. SectionCount]
      BY <1>8, SectionsAssumption DEF SendEnds, Set, WorldInv, WorldTypeOK
    <3> QED BY <1>8, <3>1, <3>2, <3>3 DEF SendEnds, WorldInv, WorldTypeOK
  <2>4. UNCHANGED <<filed, live>>
    BY <1>8 DEF SendEnds
  <2> QED BY <2>1, <2>2, <2>3, <2>4 DEF WorldInv
<1> QED BY <1>1, <1>2, <1>3, <1>4, <1>5, <1>6, <1>7, <1>8

\* malloc returns what nobody holds (load_chunk).
LEMMA WorldInvLoad ==
  ASSUME WorldInv, NEW t \in Threads, LoadChunk(t) PROVE WorldInv'
<1>1. PICK c \in Chunks \ live : chunk' = [chunk EXCEPT ![t] = c] /\ live' = live \cup {c}
  BY DEF LoadChunk, Set
<1>2. c # NoChunk /\ \A u \in Threads : chunk[u] # c
  BY <1>1, NamesAssumption DEF WorldInv
<1>3. \A e \in filed : e.chunk # c
  BY <1>1 DEF WorldInv
<1>4. WorldTypeOK'
  BY <1>1 DEF LoadChunk, Go, Set, WorldInv, WorldTypeOK, Places
<1> QED BY <1>1, <1>2, <1>3, <1>4 DEF LoadChunk, Go, Set, WorldInv, WorldTypeOK

\* An entry more, or one overwritten: the inserting thread's chunk is the table's as well.
LEMMA WorldInvInsert ==
  ASSUME WorldInv, NEW t \in Threads, InsertOverwrites(t) \/ InsertAdds(t) PROVE WorldInv'
<1>1. wanted[t] \in Columns /\ at[t] = "insert" /\ chunk[t] \in live /\ chunk[t] \in Chunks
  BY DEF InsertOverwrites, InsertAdds, Go, WorldInv, WorldTypeOK
<1>2. stacked' \in [Threads -> Columns \cup {Junk}] /\ filed \subseteq Filings
  BY <1>1 DEF InsertOverwrites, InsertAdds, Stacked, Set, WorldInv, WorldTypeOK, Filings
<1>3. filed' \subseteq Filings /\ \A e \in filed' : e.chunk = chunk[t] \/ \E f \in filed : e.chunk = f.chunk
  <2>1. CASE InsertOverwrites(t)
    <3>1. PICK filings \in Refiled(stacked') : \E e \in filings :
            filed' = (filings \ {e}) \cup {[e EXCEPT !.owner = t, !.chunk = chunk[t]]}
      BY <2>1 DEF InsertOverwrites, Matching
    <3>2. PICK e \in filings :
            filed' = (filings \ {e}) \cup {[e EXCEPT !.owner = t, !.chunk = chunk[t]]}
      BY <3>1
    <3>3. filings \subseteq Filings /\ \A d \in filings : \E f \in filed : d.chunk = f.chunk
      BY <1>2, RefiledKeeps
    <3>4. [e EXCEPT !.owner = t, !.chunk = chunk[t]] \in Filings
            /\ [e EXCEPT !.owner = t, !.chunk = chunk[t]].chunk = chunk[t]
      BY <1>1, <3>3 DEF Filings
    <3> QED BY <3>2, <3>3, <3>4
  <2>2. CASE InsertAdds(t)
    <3>1. PICK filings \in Refiled(stacked') :
            filed' = filings \cup {[bucket |-> BucketOf[wanted[t]], owner |-> t, chunk |-> chunk[t]]}
      BY <2>2 DEF InsertAdds
    <3>2. filings \subseteq Filings /\ \A d \in filings : \E f \in filed : d.chunk = f.chunk
      BY <1>2, RefiledKeeps
    <3> QED BY <1>1, <3>1, <3>2 DEF Filings
  <2> QED BY <2>1, <2>2
<1>4. live' = live /\ UNCHANGED <<wanted, chunk, sections>> /\ at' = [at EXCEPT ![t] = "send"]
  BY DEF InsertOverwrites, InsertAdds, Go, Set, Overwritten
<1>5. inserted' \subseteq Columns
  BY <1>1 DEF InsertOverwrites, InsertAdds, WorldInv, WorldTypeOK
<1>6. WorldTypeOK'
  BY <1>2, <1>3, <1>4, <1>5 DEF WorldInv, WorldTypeOK, Filings, Places
<1>7. \A e \in filed' : e.chunk \in live
  BY <1>1, <1>3 DEF WorldInv
<1>8. ASSUME NEW u \in Threads, at'[u] = "insert"
      PROVE  u # t /\ at[u] = "insert" /\ \A e \in filed' : e.chunk # chunk[u]
  BY <1>1, <1>3, <1>4, <1>8 DEF WorldInv, WorldTypeOK
<1> QED BY <1>1, <1>4, <1>6, <1>7, <1>8 DEF WorldInv, WorldTypeOK

\* The chunk that is freed is in no one else's hands.
LEMMA WorldInvFails ==
  ASSUME WorldInv, NEW t \in Threads, InsertFails(t) PROVE WorldInv'
<1>1. wanted[t] \in Columns /\ at[t] = "insert"
  BY DEF InsertFails, Go, WorldInv, WorldTypeOK
<1>2. stacked' \in [Threads -> Columns \cup {Junk}] /\ filed \subseteq Filings
  BY <1>1 DEF InsertFails, Stacked, Set, WorldInv, WorldTypeOK, Filings
<1>3. filed' \subseteq Filings /\ \A e \in filed' : \E f \in filed : e.chunk = f.chunk
  <2>1. CASE UNCHANGED filed
    BY <2>1, <1>2
  <2>2. CASE filed' \in Refiled(stacked')
    BY <2>2, <1>2, RefiledKeeps
  <2> QED BY <2>1, <2>2 DEF InsertFails
<1>4. /\ live' = live \ {chunk[t]} /\ chunk' = [chunk EXCEPT ![t] = NoChunk]
      /\ UNCHANGED <<wanted, sections, inserted>> /\ at' = [at EXCEPT ![t] = "send"]
  BY DEF InsertFails, Go, Set
<1>5. WorldTypeOK'
  BY <1>2, <1>3, <1>4 DEF WorldInv, WorldTypeOK, Filings, Places
<1>6. \A e \in filed' : e.chunk \in live'
  BY <1>1, <1>3, <1>4 DEF WorldInv
<1>7. \A u \in Threads : chunk'[u] \in live' \cup {NoChunk}
  BY <1>1, <1>4 DEF WorldInv, WorldTypeOK
<1>8. ASSUME NEW u \in Threads, at'[u] = "insert"
      PROVE  /\ chunk'[u] # NoChunk /\ \A e \in filed' : e.chunk # chunk'[u]
             /\ \A v \in Threads : v # u => chunk'[v] # chunk'[u]
  <2>1. u # t /\ at[u] = "insert" /\ chunk'[u] = chunk[u]
    BY <1>4, <1>8 DEF WorldInv, WorldTypeOK
  <2>2. chunk[u] # NoChunk
    BY <2>1 DEF WorldInv
  <2> QED BY <1>3, <1>4, <2>1, <2>2 DEF WorldInv, WorldTypeOK
<1> QED BY <1>1, <1>4, <1>5, <1>6, <1>7, <1>8 DEF WorldInv, WorldTypeOK

LEMMA WorldInvStep == WorldInv /\ [WorldNext]_worldVars => WorldInv'
<1> SUFFICES ASSUME WorldInv, [WorldNext]_worldVars PROVE WorldInv'
  OBVIOUS
<1>1. CASE WorldNext
  BY <1>1, WorldInvQuiet, WorldInvLoad, WorldInvInsert, WorldInvFails DEF WorldNext
<1>2. CASE UNCHANGED worldVars
  BY <1>2 DEF worldVars, WorldInv, WorldTypeOK
<1> QED BY <1>1, <1>2

\* send_chunk_data: for any number of threads, columns and sections, the chunk a packet is made
\* of is allocated as long as it is read, though other threads may share it, lose its entry or
\* fail to insert theirs, and a packet is written only of a chunk and with SectionCount
\* sections.  It may be another column's chunk: what the table answers is not what its header
\* promises (FoundAgain), and nothing is claimed of it here.
THEOREM SentWholeCorrect == WorldSpec => []SentWhole
<1>1. WorldInv => SentWhole
  BY DEF WorldInv, SentWhole
<1> QED BY <1>1, WorldInvInit, WorldInvStep, PTL DEF WorldSpec

\* A thread is where send_chunk_data can be, with a chunk or none and as many of its sections as
\* there are.
THEOREM WorldTypeCorrect == WorldSpec => []WorldTypeOK
<1>1. WorldInv => WorldTypeOK
  BY DEF WorldInv
<1> QED BY <1>1, WorldInvInit, WorldInvStep, PTL DEF WorldSpec

-----------------------------------------------------------------------------
(* The hash table.  A chain never holds a key twice, an entry is only in   *)
(* the chain its key belongs to, and what is moved is in one table only.   *)

Distinct(chain) == \A p, q \in DOMAIN chain : chain[p].key = chain[q].key => p = q

Chained(t) ==
  /\ t = [b \in DOMAIN t |-> t[b]]
  /\ \A b \in DOMAIN t : t[b] \in Seq(Entry) /\ Distinct(t[b])

Placed(t) ==
  \A b \in DOMAIN t : \A e \in ToSet(t[b]) : HashOf[e.key] % Cardinality(DOMAIN t) = b

TableStates ==
  /\ table_at \in {"idle", "enlarge", "link"} /\ prime_index \in Nat /\ entries \in Nat
  /\ call \in Entry \cup {<<>>}
  /\ table_at # "idle" => call \in Entry
  /\ table_at # "enlarge" => old_table = <<>>
  /\ table_size \in Nat \ {0} /\ DOMAIN table = 0 .. table_size - 1

TableShape ==
  /\ Chained(table) /\ Placed(table) /\ Chained(old_table) /\ Placed(old_table)
  /\ \A e \in EntriesOf(table), f \in EntriesOf(old_table) : e.key # f.key

TableCounts == IsFiniteSet(KeysHeld) /\ entries = Cardinality(KeysHeld)

TableInv == TableStates /\ TableShape /\ TableCounts

-----------------------------------------------------------------------------
(* One chain                                                               *)

LEMMA ChainEntries ==
  ASSUME NEW chain \in Seq(Entry)
  PROVE  /\ Len(chain) \in Nat /\ DOMAIN chain = 1 .. Len(chain) /\ ToSet(chain) \subseteq Entry
         /\ \A p \in DOMAIN chain : chain[p] \in Entry /\ chain[p] \in ToSet(chain)
         /\ \A e \in ToSet(chain) : \E p \in DOMAIN chain : chain[p] = e
<1>1. Len(chain) \in Nat /\ DOMAIN chain = 1 .. Len(chain)
  BY LenProperties
<1>2. \A p \in DOMAIN chain : chain[p] \in Entry
  BY <1>1, ElementOfSeq
<1> QED BY <1>1, <1>2 DEF ToSet

\* In a chain a key has one entry.
LEMMA OneInChain ==
  ASSUME NEW chain \in Seq(Entry), Distinct(chain), NEW e \in ToSet(chain), NEW f \in ToSet(chain),
         e.key = f.key
  PROVE  e = f
<1>1. PICK p, q \in DOMAIN chain : chain[p] = e /\ chain[q] = f
  BY ChainEntries
<1> QED BY <1>1 DEF Distinct

LEMMA PlaceFound ==
  ASSUME NEW chain \in Seq(Entry), Distinct(chain), NEW k
  PROVE  \/ PlaceIn(chain, k) = 0 /\ \A e \in ToSet(chain) : e.key # k
         \/ /\ PlaceIn(chain, k) \in DOMAIN chain /\ PlaceIn(chain, k) # 0
            /\ chain[PlaceIn(chain, k)].key = k
<1> DEFINE found == {p \in DOMAIN chain : chain[p].key = k}
<1>1. /\ DOMAIN chain = 1 .. Len(chain) /\ Len(chain) \in Nat
      /\ \A e \in ToSet(chain) : \E p \in DOMAIN chain : chain[p] = e
  BY ChainEntries
<1>2. CASE found = {}
  <2>1. PlaceIn(chain, k) = 0
    BY <1>2 DEF PlaceIn
  <2> QED BY <1>1, <1>2, <2>1
<1>3. CASE found # {}
  <2>1. PICK p \in found : TRUE
    BY <1>3
  <2>2. found = {p} /\ p \in 1 .. Len(chain)
    BY <1>1, <2>1 DEF Distinct
  <2>3. \A q \in found : p <= q
    BY <1>1, <2>2
  <2>4. PlaceIn(chain, k) = CHOOSE x \in found : \A q \in found : x <= q
    BY <1>3 DEF PlaceIn
  <2> HIDE DEF found
  <2>5. PlaceIn(chain, k) = p
    BY <2>2, <2>3, <2>4
  <2> QED BY <1>1, <2>1, <2>2, <2>5 DEF found
<1> QED BY <1>2, <1>3

\* An entry is linked in front.
LEMMA FrontOfChain ==
  ASSUME NEW chain \in Seq(Entry), Distinct(chain), NEW e \in Entry,
         \A f \in ToSet(chain) : f.key # e.key
  PROVE  /\ <<e>> \o chain \in Seq(Entry) /\ Distinct(<<e>> \o chain)
         /\ ToSet(<<e>> \o chain) = {e} \cup ToSet(chain)
<1> DEFINE c == <<e>> \o chain
           l == Len(chain)
<1>1. l \in Nat /\ DOMAIN chain = 1 .. l /\ \A p \in 1 .. l : chain[p] \in ToSet(chain)
  BY ChainEntries
<1>2. /\ c \in Seq(Entry) /\ Len(c) = l + 1 /\ c[1] = e /\ \A p \in 2 .. l + 1 : c[p] = chain[p - 1]
  <2>1. <<e>> \in Seq(Entry) /\ Len(<<e>>) = 1
    OBVIOUS
  <2>2. /\ c \in Seq(Entry) /\ Len(c) = 1 + l
        /\ \A p \in 1 .. 1 + l : c[p] = IF p <= 1 THEN <<e>>[p] ELSE chain[p - 1]
    BY <2>1, ConcatProperties
  <2> HIDE DEF c, l
  <2> QED BY <1>1, <2>2
<1>3. DOMAIN c = 1 .. l + 1
  BY <1>2, LenProperties
<1> HIDE DEF c, l
<1>4. Distinct(c)
  <2> SUFFICES ASSUME NEW p \in 1 .. l + 1, NEW q \in 1 .. l + 1, c[p].key = c[q].key PROVE p = q
    BY <1>3 DEF Distinct
  <2>1. CASE p = 1 /\ q = 1
    BY <2>1
  <2>2. CASE p # 1 /\ q = 1
    <3>1. c[p] \in ToSet(chain)
      BY <1>1, <1>2, <2>2
    <3> QED BY <1>2, <2>2, <3>1
  <2>3. CASE p = 1 /\ q # 1
    <3>1. c[q] \in ToSet(chain)
      BY <1>1, <1>2, <2>3
    <3> QED BY <1>2, <2>3, <3>1
  <2>4. CASE p # 1 /\ q # 1
    <3>1. /\ p - 1 \in DOMAIN chain /\ q - 1 \in DOMAIN chain
          /\ c[p] = chain[p - 1] /\ c[q] = chain[q - 1]
      BY <1>1, <1>2, <2>4
    <3>2. p - 1 = q - 1
      BY <3>1 DEF Distinct
    <3> QED BY <1>1, <3>2
  <2> QED BY <2>1, <2>2, <2>3, <2>4
<1>5. ToSet(c) = {e} \cup ToSet(chain)
  <2>1. ASSUME NEW f \in ToSet(c) PROVE f \in {e} \cup ToSet(chain)
    <3>1. PICK p \in 1 .. l + 1 : c[p] = f
      BY <1>3 DEF ToSet
    <3> QED BY <1>1, <1>2, <3>1
  <2>2. e \in ToSet(c)
    <3>1. 1 \in DOMAIN c
      BY <1>1, <1>3
    <3> QED BY <1>2, <3>1 DEF ToSet
  <2>3. ASSUME NEW f \in ToSet(chain) PROVE f \in ToSet(c)
    <3>1. PICK p \in 1 .. l : chain[p] = f
      BY <1>1 DEF ToSet
    <3>2. p + 1 \in DOMAIN c /\ c[p + 1] = f
      BY <1>1, <1>2, <1>3, <3>1
    <3> QED BY <3>2 DEF ToSet
  <2> QED BY <2>1, <2>2, <2>3
<1> QED BY <1>2, <1>4, <1>5 DEF c

\* The first entry is taken off.
LEMMA RestOfChain ==
  ASSUME NEW chain \in Seq(Entry), Distinct(chain), chain # <<>>
  PROVE  /\ Head(chain) \in ToSet(chain) /\ Tail(chain) \in Seq(Entry) /\ Distinct(Tail(chain))
         /\ ToSet(Tail(chain)) = ToSet(chain) \ {Head(chain)}
<1> DEFINE c == Tail(chain)
           l == Len(chain)
<1>1. /\ l \in Nat \ {0} /\ DOMAIN chain = 1 .. l /\ \A p \in 1 .. l : chain[p] \in ToSet(chain)
  BY ChainEntries, EmptySeq
<1>2. /\ Head(chain) = chain[1] /\ c \in Seq(Entry) /\ Len(c) = l - 1
      /\ \A p \in 1 .. l - 1 : c[p] = chain[p + 1]
  BY HeadTailProperties
<1>3. DOMAIN c = 1 .. l - 1
  BY <1>2, LenProperties
<1> HIDE DEF c, l
<1>4. Distinct(c)
  <2> SUFFICES ASSUME NEW p \in 1 .. l - 1, NEW q \in 1 .. l - 1, c[p].key = c[q].key PROVE p = q
    BY <1>3 DEF Distinct
  <2>1. /\ p + 1 \in DOMAIN chain /\ q + 1 \in DOMAIN chain
        /\ c[p] = chain[p + 1] /\ c[q] = chain[q + 1]
    BY <1>1, <1>2
  <2>2. p + 1 = q + 1
    BY <2>1 DEF Distinct
  <2> QED BY <1>1, <2>2
<1>5. ToSet(c) = ToSet(chain) \ {chain[1]}
  <2>1. ASSUME NEW f \in ToSet(c) PROVE f \in ToSet(chain) /\ f # chain[1]
    <3>1. PICK p \in 1 .. l - 1 : c[p] = f
      BY <1>3 DEF ToSet
    <3>2. p + 1 \in DOMAIN chain /\ 1 \in DOMAIN chain /\ p + 1 # 1 /\ chain[p + 1] = f
      BY <1>1, <1>2, <3>1
    <3> QED BY <1>1, <3>2 DEF Distinct
  <2>2. ASSUME NEW f \in ToSet(chain), f # chain[1] PROVE f \in ToSet(c)
    <3>1. PICK p \in 1 .. l : chain[p] = f
      BY <1>1 DEF ToSet
    <3>2. p - 1 \in 1 .. l - 1 /\ c[p - 1] = chain[(p - 1) + 1] /\ (p - 1) + 1 = p
      BY <1>1, <1>2, <2>2, <3>1
    <3> QED BY <1>3, <3>1, <3>2 DEF ToSet
  <2> QED BY <2>1, <2>2
<1> QED BY <1>1, <1>2, <1>4, <1>5 DEF c

\* An entry is overwritten.
LEMMA ChangedChain ==
  ASSUME NEW chain \in Seq(Entry), Distinct(chain), NEW p \in DOMAIN chain, NEW e \in Entry,
         e.key = chain[p].key
  PROVE  /\ [chain EXCEPT ![p] = e] \in Seq(Entry) /\ Distinct([chain EXCEPT ![p] = e])
         /\ ToSet([chain EXCEPT ![p] = e]) = (ToSet(chain) \ {chain[p]}) \cup {e}
<1> DEFINE c == [chain EXCEPT ![p] = e]
<1>1. /\ DOMAIN chain = 1 .. Len(chain) /\ \A q \in DOMAIN chain : chain[q] \in Entry
  BY ChainEntries
<1>2. /\ c \in Seq(Entry) /\ DOMAIN c = DOMAIN chain /\ c[p] = e
      /\ \A q \in DOMAIN chain : q # p => c[q] = chain[q]
  BY <1>1
<1> HIDE DEF c
<1>3. \A q \in DOMAIN chain : c[q].key = chain[q].key
  BY <1>2
<1>4. Distinct(c)
  BY <1>2, <1>3 DEF Distinct
<1>5. ToSet(c) = (ToSet(chain) \ {chain[p]}) \cup {e}
  <2>1. ASSUME NEW f \in ToSet(c) PROVE f \in (ToSet(chain) \ {chain[p]}) \cup {e}
    <3>1. PICK q \in DOMAIN chain : c[q] = f
      BY <1>2 DEF ToSet
    <3>2. CASE q # p
      <4>1. chain[q] # chain[p]
        BY <3>2 DEF Distinct
      <4> QED BY <1>2, <3>1, <3>2, <4>1 DEF ToSet
    <3> QED BY <1>2, <3>1, <3>2
  <2>2. e \in ToSet(c)
    BY <1>2 DEF ToSet
  <2>3. ASSUME NEW f \in ToSet(chain), f # chain[p] PROVE f \in ToSet(c)
    <3>1. PICK q \in DOMAIN chain : chain[q] = f
      BY DEF ToSet
    <3> QED BY <1>2, <2>3, <3>1 DEF ToSet
  <2> QED BY <2>1, <2>2, <2>3
<1> QED BY <1>2, <1>4, <1>5 DEF c

\* An entry is unlinked.
LEMMA ShortenedChain ==
  ASSUME NEW chain \in Seq(Entry), Distinct(chain), NEW p \in DOMAIN chain
  PROVE  /\ RemoveAt(chain, p) \in Seq(Entry) /\ Distinct(RemoveAt(chain, p))
         /\ ToSet(RemoveAt(chain, p)) = ToSet(chain) \ {chain[p]}
<1> DEFINE c == RemoveAt(chain, p)
           l == Len(chain)
           before == SubSeq(chain, 1, p - 1)
           after == SubSeq(chain, p + 1, l)
<1>1. l \in Nat /\ DOMAIN chain = 1 .. l /\ p \in 1 .. l
  BY ChainEntries
<1>2. /\ before \in Seq(Entry) /\ Len(before) = p - 1
      /\ \A q \in 1 .. p - 1 : before[q] = chain[q]
  <2>1. 1 \in 1 .. l + 1 /\ p - 1 \in 1 - 1 .. l /\ (p - 1) - 1 + 1 = p - 1
    BY <1>1
  <2>2. /\ before \in Seq(Entry) /\ Len(before) = (p - 1) - 1 + 1
        /\ \A q \in 1 .. (p - 1) - 1 + 1 : before[q] = chain[1 + q - 1]
    BY <2>1, SubSeqProperties
  <2> HIDE DEF before
  <2> QED BY <1>1, <2>1, <2>2
<1>3. /\ after \in Seq(Entry) /\ Len(after) = l - p
      /\ \A q \in 1 .. l - p : after[q] = chain[p + q]
  <2>1. p + 1 \in 1 .. l + 1 /\ l \in (p + 1) - 1 .. l /\ l - (p + 1) + 1 = l - p
    BY <1>1
  <2>2. /\ after \in Seq(Entry) /\ Len(after) = l - (p + 1) + 1
        /\ \A q \in 1 .. l - (p + 1) + 1 : after[q] = chain[(p + 1) + q - 1]
    BY <2>1, SubSeqProperties
  <2>3. ASSUME NEW q \in 1 .. l - p PROVE (p + 1) + q - 1 = p + q
    BY <1>1
  <2> HIDE DEF after, l
  <2> QED BY <2>1, <2>2, <2>3
<1>4. c = before \o after
  BY DEF RemoveAt
<1> HIDE DEF before, after, c, l
<1>5. /\ c \in Seq(Entry) /\ Len(c) = l - 1
      /\ \A q \in 1 .. p - 1 : c[q] = chain[q]
      /\ \A q \in p .. l - 1 : c[q] = chain[q + 1]
  <2>1. /\ c \in Seq(Entry) /\ Len(c) = (p - 1) + (l - p)
        /\ \A q \in 1 .. (p - 1) + (l - p) : c[q] = IF q <= p - 1 THEN before[q] ELSE after[q - (p - 1)]
    <3>1. /\ before \in Seq(Entry) /\ after \in Seq(Entry)
          /\ Len(before) = p - 1 /\ Len(after) = l - p
      BY <1>2, <1>3
    <3>2. /\ c \in Seq(Entry) /\ Len(c) = Len(before) + Len(after)
          /\ \A q \in 1 .. Len(before) + Len(after) :
               c[q] = IF q <= Len(before) THEN before[q] ELSE after[q - Len(before)]
      BY <1>4, <3>1, ConcatProperties
    <3> QED BY <3>1, <3>2
  <2>2. (p - 1) + (l - p) = l - 1
    BY <1>1
  <2>3. ASSUME NEW q \in 1 .. p - 1 PROVE c[q] = chain[q]
    BY <1>1, <1>2, <2>1, <2>2
  <2>4. ASSUME NEW q \in p .. l - 1 PROVE c[q] = chain[q + 1]
    <3>1. /\ q \in 1 .. l - 1 /\ ~ (q <= p - 1)
          /\ q - (p - 1) \in 1 .. l - p /\ p + (q - (p - 1)) = q + 1
      BY <1>1
    <3> QED BY <1>3, <2>1, <2>2, <3>1
  <2> QED BY <2>1, <2>2, <2>3, <2>4
<1>6. DOMAIN c = 1 .. l - 1
  BY <1>5, LenProperties
<1> DEFINE Was(q) == IF q < p THEN q ELSE q + 1
<1>7. /\ \A q \in 1 .. l - 1 : Was(q) \in DOMAIN chain /\ Was(q) # p /\ c[q] = chain[Was(q)]
      /\ \A q, r \in 1 .. l - 1 : Was(q) = Was(r) => q = r
      /\ \A r \in 1 .. l : r # p => \E q \in 1 .. l - 1 : Was(q) = r
  <2>1. ASSUME NEW q \in 1 .. l - 1 PROVE Was(q) \in 1 .. l /\ Was(q) # p
    BY <1>1
  <2>2. ASSUME NEW q \in 1 .. l - 1 PROVE c[q] = chain[Was(q)]
    BY <1>1, <1>5
  <2>3. ASSUME NEW q \in 1 .. l - 1, NEW r \in 1 .. l - 1, Was(q) = Was(r) PROVE q = r
    BY <1>1, <2>3
  <2>4. ASSUME NEW r \in 1 .. l, r # p PROVE \E q \in 1 .. l - 1 : Was(q) = r
    <3>1. CASE r < p
      <4>1. r \in 1 .. l - 1 /\ Was(r) = r
        BY <1>1, <3>1
      <4> QED BY <4>1
    <3>2. CASE ~ (r < p)
      <4>1. r - 1 \in 1 .. l - 1 /\ Was(r - 1) = r
        BY <1>1, <2>4, <3>2
      <4> QED BY <4>1
    <3> QED BY <3>1, <3>2
  <2> QED BY <1>1, <2>1, <2>2, <2>3, <2>4
<1> HIDE DEF Was
<1>8. Distinct(c)
  <2> SUFFICES ASSUME NEW q \in 1 .. l - 1, NEW r \in 1 .. l - 1, c[q].key = c[r].key PROVE q = r
    BY <1>6 DEF Distinct
  <2>1. Was(q) = Was(r)
    BY <1>7 DEF Distinct
  <2> QED BY <1>7, <2>1
<1>9. ToSet(c) = ToSet(chain) \ {chain[p]}
  <2>1. ASSUME NEW f \in ToSet(c) PROVE f \in ToSet(chain) /\ f # chain[p]
    <3>1. PICK q \in 1 .. l - 1 : c[q] = f
      BY <1>6 DEF ToSet
    <3>2. Was(q) \in DOMAIN chain /\ Was(q) # p /\ chain[Was(q)] = f
      BY <1>7, <3>1
    <3> QED BY <3>2 DEF Distinct, ToSet
  <2>2. ASSUME NEW f \in ToSet(chain), f # chain[p] PROVE f \in ToSet(c)
    <3>1. PICK r \in 1 .. l : chain[r] = f
      BY <1>1 DEF ToSet
    <3>2. PICK q \in 1 .. l - 1 : Was(q) = r
      BY <1>7, <2>2, <3>1
    <3> QED BY <1>6, <1>7, <3>1, <3>2 DEF ToSet
  <2> QED BY <2>1, <2>2
<1> QED BY <1>5, <1>8, <1>9 DEF c

-----------------------------------------------------------------------------
(* A table                                                                 *)

\* An entry's key says which chain it is in.
LEMMA EntryPlace ==
  ASSUME NEW t, Chained(t), Placed(t), NEW e \in EntriesOf(t)
  PROVE  /\ e \in Entry
         /\ LET b == HashOf[e.key] % Cardinality(DOMAIN t) IN b \in DOMAIN t /\ e \in ToSet(t[b])
<1>1. PICK b \in DOMAIN t : e \in ToSet(t[b])
  BY DEF EntriesOf
<1>2. HashOf[e.key] % Cardinality(DOMAIN t) = b
  BY <1>1 DEF Placed
<1>3. e \in Entry
  BY <1>1, ChainEntries DEF Chained
<1> QED BY <1>1, <1>2, <1>3

LEMMA OneInTable ==
  ASSUME NEW t, Chained(t), Placed(t), NEW e \in EntriesOf(t), NEW f \in EntriesOf(t), e.key = f.key
  PROVE  e = f
<1> DEFINE b == HashOf[e.key] % Cardinality(DOMAIN t)
<1>1. b \in DOMAIN t /\ e \in ToSet(t[b]) /\ f \in ToSet(t[b])
  BY EntryPlace
<1> HIDE DEF b
<1>2. t[b] \in Seq(Entry) /\ Distinct(t[b])
  BY <1>1 DEF Chained
<1> QED BY <1>1, <1>2, OneInChain

\* One chain of a table is replaced.
LEMMA ChainPut ==
  ASSUME NEW t, Chained(t), Placed(t), NEW b \in DOMAIN t, NEW c \in Seq(Entry), Distinct(c),
         \A e \in ToSet(c) : HashOf[e.key] % Cardinality(DOMAIN t) = b,
         NEW u, DOMAIN u = DOMAIN t, u = [x \in DOMAIN u |-> u[x]],
         u[b] = c, \A x \in DOMAIN t : x # b => u[x] = t[x]
  PROVE  /\ Chained(u) /\ Placed(u) /\ DOMAIN u = DOMAIN t
         /\ EntriesOf(u) = (EntriesOf(t) \ ToSet(t[b])) \cup ToSet(c)
<1>1. /\ DOMAIN u = DOMAIN t /\ u = [x \in DOMAIN u |-> u[x]]
      /\ u[b] = c /\ \A x \in DOMAIN t : x # b => u[x] = t[x]
  OBVIOUS
<1>2. Chained(u)
  BY <1>1 DEF Chained
<1>3. Placed(u)
  BY <1>1 DEF Placed
<1>4. ASSUME NEW e \in EntriesOf(u) PROVE e \in (EntriesOf(t) \ ToSet(t[b])) \cup ToSet(c)
  <2>1. PICK x \in DOMAIN t : e \in ToSet(u[x])
    BY <1>1 DEF EntriesOf
  <2>2. CASE x # b
    <3>1. e \in ToSet(t[x])
      BY <1>1, <2>1, <2>2
    <3>2. HashOf[e.key] % Cardinality(DOMAIN t) = x
      BY <3>1 DEF Placed
    <3>3. e \notin ToSet(t[b])
      BY <2>2, <3>2 DEF Placed
    <3> QED BY <3>1, <3>3 DEF EntriesOf
  <2> QED BY <1>1, <2>1, <2>2
<1>5. ASSUME NEW e \in EntriesOf(t), e \notin ToSet(t[b]) PROVE e \in EntriesOf(u)
  <2>1. PICK x \in DOMAIN t : e \in ToSet(t[x])
    BY DEF EntriesOf
  <2>2. e \in ToSet(u[x])
    BY <1>1, <1>5, <2>1
  <2> QED BY <1>1, <2>2 DEF EntriesOf
<1>6. ASSUME NEW e \in ToSet(c) PROVE e \in EntriesOf(u)
  BY <1>1 DEF EntriesOf
<1> QED BY <1>1, <1>2, <1>3, <1>4, <1>5, <1>6

LEMMA BucketsOf ==
  ASSUME NEW n \in Nat \ {0}
  PROVE  /\ DOMAIN Chains(n) = 0 .. n - 1 /\ Cardinality(DOMAIN Chains(n)) = n
         /\ Chained(Chains(n)) /\ Placed(Chains(n)) /\ EntriesOf(Chains(n)) = {}
<1>1. DOMAIN Chains(n) = 0 .. n - 1 /\ \A b \in 0 .. n - 1 : Chains(n)[b] = <<>>
  BY DEF Chains
<1>2. Cardinality(0 .. n - 1) = n
  <2>1. 0 \in Int /\ n - 1 \in Int /\ (n - 1) - 0 + 1 = n /\ ~ (0 > n - 1)
    OBVIOUS
  <2> QED BY <2>1, FS_Interval
<1>3. <<>> \in Seq(Entry) /\ Distinct(<<>>) /\ ToSet(<<>>) = {}
  BY DEF Distinct, ToSet
<1>4. Chains(n) = [b \in DOMAIN Chains(n) |-> Chains(n)[b]]
  BY DEF Chains
<1> QED BY <1>1, <1>2, <1>3, <1>4 DEF Chained, Placed, EntriesOf

LEMMA NoTable == Chained(<<>>) /\ Placed(<<>>) /\ EntriesOf(<<>>) = {}
<1>1. DOMAIN <<>> = {} /\ <<>> = [b \in {} |-> <<>>[b]]
  OBVIOUS
<1> QED BY <1>1 DEF Chained, Placed, EntriesOf

LEMMA Buckets ==
  ASSUME TableStates
  PROVE  \A k \in Keys : Bucket(k) \in DOMAIN table
<1> SUFFICES ASSUME NEW k \in Keys PROVE Bucket(k) \in DOMAIN table
  OBVIOUS
<1> DEFINE n == table_size
           h == HashOf[k]
<1>1. n \in Nat \ {0} /\ DOMAIN table = 0 .. n - 1 /\ h \in Nat
  BY HashAssumption DEF TableStates
<1>2. Bucket(k) = h % n
  BY DEF Bucket
<1> HIDE DEF n, h
<1> QED BY <1>1, <1>2

-----------------------------------------------------------------------------
(* The map that a set of entries is                                        *)

KeysOf(C) == {e.key : e \in C}

OneEach(C) == \A e, f \in C : e.key = f.key => e = f

MapOf(C) == [k \in KeysOf(C) |-> (CHOOSE e \in C : e.key = k).value]

Without(C, k) == {e \in C : e.key # k}

LEMMA MapIs ==
  /\ Contents = EntriesOf(table) \cup EntriesOf(old_table)
  /\ KeysHeld = KeysOf(Contents) /\ Map = MapOf(Contents)
  /\ Contents' = EntriesOf(table') \cup EntriesOf(old_table')
  /\ KeysHeld' = KeysOf(Contents') /\ Map' = MapOf(Contents')
<1>1. Contents = EntriesOf(table) \cup EntriesOf(old_table)
  BY DEF Contents
<1>2. KeysHeld = KeysOf(Contents)
  BY DEF KeysHeld, KeysOf
<1>3. Map = MapOf(Contents)
  BY <1>2 DEF Map, MapOf
<1>4. Contents' = EntriesOf(table') \cup EntriesOf(old_table')
  BY DEF Contents, EntriesOf
<1>5. KeysHeld' = KeysOf(Contents')
  BY DEF KeysHeld, KeysOf
<1>6. Map' = MapOf(Contents')
  BY <1>5 DEF Map, MapOf
<1> QED BY <1>1, <1>2, <1>3, <1>4, <1>5, <1>6

LEMMA MapDomain == ASSUME NEW C PROVE DOMAIN MapOf(C) = KeysOf(C)
BY DEF MapOf

LEMMA MapValue ==
  ASSUME NEW C, OneEach(C), NEW e \in C
  PROVE  e.key \in DOMAIN MapOf(C) /\ MapOf(C)[e.key] = e.value
<1>1. e.key \in KeysOf(C) /\ DOMAIN MapOf(C) = KeysOf(C)
  BY DEF KeysOf, MapOf
<1>2. (CHOOSE f \in C : f.key = e.key) = e
  BY DEF OneEach
<1> QED BY <1>1, <1>2 DEF MapOf

LEMMA MapPut ==
  ASSUME NEW C \in SUBSET Entry, OneEach(C), NEW e \in Entry
  PROVE  LET D == Without(C, e.key) \cup {e} IN
         /\ OneEach(D) /\ KeysOf(D) = KeysOf(C) \cup {e.key}
         /\ MapOf(D) = [k \in DOMAIN MapOf(C) \cup {e.key} |->
                          IF k = e.key THEN e.value ELSE MapOf(C)[k]]
<1> DEFINE D == Without(C, e.key) \cup {e}
           F == [k \in DOMAIN MapOf(C) \cup {e.key} |->
                   IF k = e.key THEN e.value ELSE MapOf(C)[k]]
<1>1. OneEach(D)
  BY DEF OneEach, Without
<1>2. KeysOf(D) = KeysOf(C) \cup {e.key}
  BY DEF KeysOf, Without
<1>3. DOMAIN MapOf(C) = KeysOf(C) /\ DOMAIN MapOf(D) = KeysOf(D)
  BY DEF MapOf
<1>4. ASSUME NEW k \in KeysOf(D) PROVE MapOf(D)[k] = F[k]
  <2>1. PICK f \in D : f.key = k
    BY DEF KeysOf
  <2>2. MapOf(D)[k] = f.value
    BY <1>1, <2>1, MapValue
  <2>3. CASE k = e.key
    <3>1. f = e
      BY <1>1, <2>1, <2>3 DEF OneEach
    <3> QED BY <2>2, <2>3, <3>1
  <2>4. CASE k # e.key
    <3>1. f \in C
      BY <2>1, <2>4 DEF Without
    <3>2. k \in DOMAIN MapOf(C) /\ MapOf(C)[k] = f.value
      BY <2>1, <3>1, MapValue
    <3> QED BY <2>2, <2>4, <3>2
  <2> QED BY <2>3, <2>4
<1>5. MapOf(D) = F
  <2>1. MapOf(D) = [k \in KeysOf(D) |-> MapOf(D)[k]] /\ F = [k \in KeysOf(D) |-> F[k]]
    BY <1>2, <1>3 DEF MapOf
  <2> HIDE DEF D, F
  <2> QED BY <1>4, <2>1
<1> QED BY <1>1, <1>2, <1>5

LEMMA MapDrop ==
  ASSUME NEW C \in SUBSET Entry, OneEach(C), NEW k
  PROVE  LET D == Without(C, k) IN
         /\ OneEach(D) /\ KeysOf(D) = KeysOf(C) \ {k}
         /\ MapOf(D) = [x \in DOMAIN MapOf(C) \ {k} |-> MapOf(C)[x]]
<1> DEFINE D == Without(C, k)
           F == [x \in DOMAIN MapOf(C) \ {k} |-> MapOf(C)[x]]
<1>1. OneEach(D)
  BY DEF OneEach, Without
<1>2. KeysOf(D) = KeysOf(C) \ {k}
  BY DEF KeysOf, Without
<1>3. DOMAIN MapOf(C) = KeysOf(C) /\ DOMAIN MapOf(D) = KeysOf(D)
  BY DEF MapOf
<1>4. ASSUME NEW x \in KeysOf(D) PROVE MapOf(D)[x] = F[x]
  <2>1. PICK f \in D : f.key = x
    BY DEF KeysOf
  <2>2. MapOf(D)[x] = f.value
    BY <1>1, <2>1, MapValue
  <2>3. f \in C /\ x # k
    BY <2>1 DEF Without
  <2>4. x \in DOMAIN MapOf(C) /\ MapOf(C)[x] = f.value
    BY <2>1, <2>3, MapValue
  <2> QED BY <2>2, <2>3, <2>4
<1>5. MapOf(D) = F
  <2>1. MapOf(D) = [x \in KeysOf(D) |-> MapOf(D)[x]] /\ F = [x \in KeysOf(D) |-> F[x]]
    BY <1>2, <1>3 DEF MapOf
  <2> HIDE DEF D, F
  <2> QED BY <1>4, <2>1
<1> QED BY <1>1, <1>2, <1>5

\* A key has one entry, wherever an enlargement has got to.
LEMMA ContentsOne ==
  ASSUME TableShape
  PROVE  Contents \in SUBSET Entry /\ OneEach(Contents)
<1>1. Contents = EntriesOf(table) \cup EntriesOf(old_table)
  BY MapIs
<1>2. Contents \in SUBSET Entry
  BY <1>1, EntryPlace DEF TableShape
<1>3. ASSUME NEW e \in Contents, NEW f \in Contents, e.key = f.key PROVE e = f
  <2>1. CASE e \in EntriesOf(table) /\ f \in EntriesOf(table)
    BY <1>3, <2>1, OneInTable DEF TableShape
  <2>2. CASE e \in EntriesOf(old_table) /\ f \in EntriesOf(old_table)
    BY <1>3, <2>2, OneInTable DEF TableShape
  <2>3. CASE (e \in EntriesOf(table) /\ f \in EntriesOf(old_table)) \/ (e \in EntriesOf(old_table) /\ f \in EntriesOf(table))
    BY <1>3, <2>3 DEF TableShape
  <2> QED BY <1>1, <2>1, <2>2, <2>3
<1> QED BY <1>2, <1>3 DEF OneEach

-----------------------------------------------------------------------------
(* The steps, each with what it does to the entries.                       *)

\* The keys are counted still.
LEMMA CountKept ==
  ASSUME TableCounts, Contents' = Contents, entries' = entries
  PROVE  TableCounts'
<1>1. KeysHeld' = KeysHeld
  BY MapIs
<1> QED BY <1>1 DEF TableCounts

LEMMA TableInvInit == TableInit => TableInv
<1> SUFFICES ASSUME TableInit PROVE TableInv
  OBVIOUS
<1> DEFINE n == Primes[1]
<1>1. n \in Nat \ {0}
  <2>1. 1 \in 1 .. Len(Primes)
    BY PrimesAssumption, EmptySeq, LenProperties
  <2> QED BY <2>1, PrimesAssumption, ElementOfSeq
<1>2. /\ table = Chains(n) /\ old_table = <<>> /\ prime_index = 0 /\ entries = 0
      /\ call = <<>> /\ table_at = "idle"
  BY DEF TableInit
<1> HIDE DEF n
<1>3. /\ DOMAIN table = 0 .. n - 1 /\ table_size = n
      /\ Chained(table) /\ Placed(table) /\ EntriesOf(table) = {}
  BY <1>1, <1>2, BucketsOf DEF table_size
<1>4. TableStates
  BY <1>1, <1>2, <1>3 DEF TableStates
<1>5. TableShape
  BY <1>2, <1>3, NoTable DEF TableShape
<1>6. TableCounts
  <2>1. KeysHeld = {}
    BY <1>2, <1>3, NoTable, MapIs DEF KeysOf
  <2> QED BY <1>2, <2>1, FS_EmptySet DEF TableCounts
<1> QED BY <1>4, <1>5, <1>6 DEF TableInv

\* Calls that change no chain.
LEMMA TableQuietStep ==
  ASSUME TableInv, UNCHANGED <<table, old_table, prime_index, entries>>,
         call' \in Entry \cup {<<>>}, table_at' \in {"idle", "link"},
         table_at' # "idle" => call' \in Entry, table_at # "enlarge"
  PROVE  TableInv' /\ Contents' = Contents
<1>1. Contents' = Contents
  BY MapIs
<1>2. TableCounts'
  BY <1>1, CountKept DEF TableInv
<1>3. TableStates'
  BY DEF TableInv, TableStates, table_size
<1>4. TableShape'
  BY DEF TableInv, TableShape
<1> QED BY <1>1, <1>2, <1>3, <1>4 DEF TableInv

LEMMA EnlargeBeginsStep ==
  ASSUME TableInv, NEW k \in Keys, NEW v \in Values, EnlargeBegins(k, v)
  PROVE  TableInv' /\ Contents' = Contents
<1> DEFINE n == SizeFor(prime_index + 1)
           s == table_size
<1>1. /\ table_at = "idle" /\ (entries * 3) \div s > 0
      /\ call' = [key |-> k, value |-> v] /\ table_at' = "enlarge"
      /\ prime_index' = prime_index + 1 /\ entries' = entries
      /\ old_table' = table /\ table' = Chains(n)
  BY DEF EnlargeBegins
<1>2. /\ TableStates /\ TableShape /\ TableCounts /\ old_table = <<>>
      /\ prime_index \in Nat /\ entries \in Nat /\ s \in Nat \ {0}
  BY <1>1 DEF TableInv, TableStates
<1>3. entries # 0
  <2> SUFFICES ASSUME entries = 0 PROVE FALSE
    OBVIOUS
  <2>1. 0 \div s = 0
    <3> HIDE DEF s
    <3> QED BY <1>2
  <2> QED BY <1>1, <2>1
<1>4. n \in Nat \ {0}
  <2>1. CASE prime_index + 1 < Len(Primes)
    <3>1. n = Primes[(prime_index + 1) + 1]
      BY <2>1 DEF SizeFor
    <3>2. (prime_index + 1) + 1 \in 1 .. Len(Primes)
      BY <1>2, <2>1, PrimesAssumption, LenProperties
    <3> QED BY <3>1, <3>2, PrimesAssumption, ElementOfSeq
  <2>2. CASE ~ (prime_index + 1 < Len(Primes))
    BY <1>2, <1>3, <2>2 DEF SizeFor
  <2> QED BY <2>1, <2>2
<1> HIDE DEF n, s
<1>5. /\ DOMAIN table' = 0 .. n - 1 /\ Cardinality(DOMAIN table') = n
      /\ Chained(table') /\ Placed(table') /\ EntriesOf(table') = {}
  BY <1>1, <1>4, BucketsOf
<1>6. Contents' = Contents
  BY <1>1, <1>2, <1>5, NoTable, MapIs
<1>7. TableStates'
  <2>1. table_size' = n
    BY <1>5 DEF table_size
  <2>2. call' \in Entry
    BY <1>1 DEF Entry
  <2> QED BY <1>1, <1>2, <1>4, <1>5, <2>1, <2>2 DEF TableStates
<1>8. TableShape'
  BY <1>1, <1>2, <1>5 DEF TableShape
<1>9. TableCounts'
  BY <1>1, <1>2, <1>6, CountKept
<1> QED BY <1>6, <1>7, <1>8, <1>9 DEF TableInv

\* An entry leaves one table for the other.
LEMMA RelinkStep ==
  ASSUME TableInv, Relink
  PROVE  TableInv' /\ Contents' = Contents
<1>1. PICK b \in Unmoved :
         /\ table' = [table EXCEPT ![Bucket(Head(old_table[b]).key)] = <<Head(old_table[b])>> \o @]
         /\ old_table' = [old_table EXCEPT ![b] = Tail(@)]
  BY DEF Relink
<1> DEFINE chain == old_table[b]
           rover == Head(chain)
           left == Tail(chain)
           d == Bucket(rover.key)
           new == <<rover>> \o table[d]
<1>2. /\ table_at = "enlarge" /\ table_at' = table_at
      /\ prime_index' = prime_index /\ entries' = entries /\ call' = call
  BY DEF Relink
<1>3. /\ TableStates /\ TableShape /\ TableCounts
      /\ Chained(table) /\ Placed(table) /\ Chained(old_table) /\ Placed(old_table)
      /\ \A e \in EntriesOf(table), f \in EntriesOf(old_table) : e.key # f.key
  BY DEF TableInv, TableShape
<1>4. /\ b \in DOMAIN old_table /\ chain # <<>> /\ chain \in Seq(Entry) /\ Distinct(chain)
  BY <1>3 DEF Unmoved, Chained
<1>5. /\ rover \in ToSet(chain) /\ left \in Seq(Entry) /\ Distinct(left)
      /\ ToSet(left) = ToSet(chain) \ {rover}
  BY <1>4, RestOfChain
<1>6. rover \in EntriesOf(old_table) /\ rover \in Entry /\ rover.key \in Keys
  <2>1. rover \in EntriesOf(old_table)
    BY <1>4, <1>5 DEF EntriesOf
  <2>2. rover \in Entry
    BY <1>3, <2>1, EntryPlace
  <2> QED BY <2>1, <2>2 DEF Entry
<1>7. /\ Chained(old_table') /\ Placed(old_table')
      /\ EntriesOf(old_table') = EntriesOf(old_table) \ {rover}
  <2>1. \A e \in ToSet(left) : HashOf[e.key] % Cardinality(DOMAIN old_table) = b
    BY <1>3, <1>4, <1>5 DEF Placed
  <2>2. old_table' = [old_table EXCEPT ![b] = left]
    BY <1>1
  <2>3. /\ Chained(old_table') /\ Placed(old_table')
        /\ EntriesOf(old_table') = (EntriesOf(old_table) \ ToSet(chain)) \cup ToSet(left)
    <3> HIDE DEF rover, left
    <3>1. /\ DOMAIN old_table' = DOMAIN old_table /\ old_table' = [x \in DOMAIN old_table' |-> old_table'[x]]
          /\ old_table'[b] = left
          /\ \A x \in DOMAIN old_table : x # b => old_table'[x] = old_table[x]
      BY <1>4, <2>2
    <3>2. Chained(old_table) /\ Placed(old_table)
      BY <1>3
    <3> QED BY <1>4, <1>5, <2>1, <3>1, <3>2, ChainPut
  <2>4. ToSet(chain) \subseteq EntriesOf(old_table)
    BY <1>4 DEF EntriesOf
  <2> QED BY <1>5, <2>3, <2>4
<1>8. /\ d \in DOMAIN table /\ table[d] \in Seq(Entry) /\ Distinct(table[d])
      /\ ToSet(table[d]) \subseteq EntriesOf(table)
  <2>1. d \in DOMAIN table
    BY <1>3, <1>6, Buckets
  <2> QED BY <1>3, <2>1 DEF Chained, EntriesOf
<1>9. new \in Seq(Entry) /\ Distinct(new) /\ ToSet(new) = {rover} \cup ToSet(table[d])
  <2>1. \A f \in ToSet(table[d]) : f.key # rover.key
    BY <1>3, <1>6, <1>8
  <2> HIDE DEF rover, d
  <2> QED BY <1>6, <1>8, <2>1, FrontOfChain
<1>10. /\ Chained(table') /\ Placed(table') /\ DOMAIN table' = DOMAIN table
       /\ EntriesOf(table') = EntriesOf(table) \cup {rover}
  <2>1. \A e \in ToSet(new) : HashOf[e.key] % Cardinality(DOMAIN table) = d
    <3>1. HashOf[rover.key] % Cardinality(DOMAIN table) = d
      BY DEF Bucket, table_size
    <3>2. \A e \in ToSet(table[d]) : HashOf[e.key] % Cardinality(DOMAIN table) = d
      BY <1>3, <1>8 DEF Placed
    <3> HIDE DEF rover, d, new
    <3> QED BY <1>9, <3>1, <3>2
  <2>2. table' = [table EXCEPT ![d] = new]
    BY <1>1
  <2> HIDE DEF rover, d, new
  <2>3. /\ Chained(table') /\ Placed(table') /\ DOMAIN table' = DOMAIN table
        /\ EntriesOf(table') = (EntriesOf(table) \ ToSet(table[d])) \cup ToSet(new)
    <3>1. Chained(table) /\ Placed(table)
      BY <1>3
    <3>2. /\ DOMAIN table' = DOMAIN table /\ table' = [x \in DOMAIN table' |-> table'[x]]
          /\ table'[d] = new /\ \A x \in DOMAIN table : x # d => table'[x] = table[x]
      BY <1>8, <2>2
    <3> QED BY <1>8, <1>9, <2>1, <3>1, <3>2, ChainPut
  <2> QED BY <1>8, <1>9, <2>3
<1> HIDE DEF rover, left, chain, d, new
<1>11. Contents' = Contents
  BY <1>6, <1>7, <1>10, MapIs
<1>12. TableStates'
  <2>1. table_size' = table_size
    BY <1>10 DEF table_size
  <2> QED BY <1>2, <1>3, <1>10, <2>1 DEF TableStates
<1>13. TableShape'
  <2>1. ASSUME NEW e \in EntriesOf(table'), NEW f \in EntriesOf(old_table') PROVE e.key # f.key
    <3>1. CASE e = rover
      BY <1>3, <1>6, <1>7, <3>1, OneInTable
    <3>2. CASE e # rover
      BY <1>3, <1>7, <1>10, <3>2
    <3> QED BY <3>1, <3>2
  <2> QED BY <1>7, <1>10, <2>1 DEF TableShape
<1>14. TableCounts'
  BY <1>2, <1>3, <1>11, CountKept
<1> QED BY <1>11, <1>12, <1>13, <1>14 DEF TableInv

LEMMA EnlargeEndsStep ==
  ASSUME TableInv, EnlargeEnds
  PROVE  TableInv' /\ Contents' = Contents
<1>1. /\ table_at = "enlarge" /\ Unmoved = {} /\ old_table' = <<>> /\ table_at' = "link"
      /\ table' = table /\ prime_index' = prime_index /\ entries' = entries /\ call' = call
  BY DEF EnlargeEnds
<1>2. TableStates /\ TableShape /\ TableCounts
  BY DEF TableInv
<1>3. EntriesOf(old_table) = {}
  <2>1. \A b \in DOMAIN old_table : old_table[b] = <<>>
    BY <1>1 DEF Unmoved
  <2>2. ToSet(<<>>) = {}
    BY DEF ToSet
  <2> QED BY <2>1, <2>2 DEF EntriesOf
<1>4. Contents' = Contents
  BY <1>1, <1>3, NoTable, MapIs
<1>5. TableStates'
  BY <1>1, <1>2 DEF TableStates, table_size
<1>6. TableShape'
  BY <1>1, <1>2, NoTable DEF TableShape
<1>7. TableCounts'
  BY <1>1, <1>2, <1>4, CountKept
<1> QED BY <1>4, <1>5, <1>6, <1>7 DEF TableInv

\* Outside an enlargement a call replaces a chain.
LEMMA OneChainStep ==
  ASSUME TableInv, table_at # "enlarge", NEW b \in DOMAIN table, NEW c \in Seq(Entry), Distinct(c),
         \A e \in ToSet(c) : HashOf[e.key] % Cardinality(DOMAIN table) = b,
         table' = [table EXCEPT ![b] = c], entries' \in Nat, table_at' = "idle",
         UNCHANGED <<old_table, prime_index, call>>
  PROVE  /\ TableStates' /\ TableShape'
         /\ Contents' = (Contents \ ToSet(table[b])) \cup ToSet(c)
<1>1. TableStates /\ TableShape /\ Chained(table) /\ Placed(table) /\ old_table = <<>>
  BY DEF TableInv, TableStates, TableShape
<1>2. /\ DOMAIN table' = DOMAIN table /\ table' = [x \in DOMAIN table' |-> table'[x]]
      /\ table'[b] = c /\ \A x \in DOMAIN table : x # b => table'[x] = table[x]
  OBVIOUS
<1>3. /\ Chained(table') /\ Placed(table')
      /\ EntriesOf(table') = (EntriesOf(table) \ ToSet(table[b])) \cup ToSet(c)
  <2>1. Chained(table) /\ Placed(table)
    BY <1>1
  <2>2. ASSUME NEW u, DOMAIN u = DOMAIN table, u = [x \in DOMAIN u |-> u[x]],
               u[b] = c, \A x \in DOMAIN table : x # b => u[x] = table[x]
        PROVE  /\ Chained(u) /\ Placed(u)
               /\ EntriesOf(u) = (EntriesOf(table) \ ToSet(table[b])) \cup ToSet(c)
    BY <2>1, <2>2, ChainPut
  <2> QED BY <1>2, <2>2
<1>4. TableStates'
  <2>1. table_size' = table_size
    BY <1>2 DEF table_size
  <2> QED BY <1>1, <1>2, <2>1 DEF TableStates
<1>5. TableShape'
  BY <1>1, <1>3, NoTable DEF TableShape
<1>6. Contents' = (Contents \ ToSet(table[b])) \cup ToSet(c)
  BY <1>1, <1>3, NoTable, MapIs
<1> QED BY <1>4, <1>5, <1>6

\* Outside an enlargement the chain a key belongs to says everything about the key.
LEMMA ChainOf ==
  ASSUME TableInv, table_at # "enlarge", NEW k \in Keys
  PROVE  LET b == Bucket(k)
             place == PlaceIn(table[b], k) IN
         /\ b \in DOMAIN table /\ table[b] \in Seq(Entry) /\ Distinct(table[b])
         /\ ToSet(table[b]) \subseteq Contents
         /\ \A e \in ToSet(table[b]) : HashOf[e.key] % Cardinality(DOMAIN table) = b
         /\ HashOf[k] % Cardinality(DOMAIN table) = b
         /\ place = 0 => \A e \in Contents : e.key # k
         /\ place # 0 => /\ place \in DOMAIN table[b] /\ table[b][place] \in ToSet(table[b])
                         /\ table[b][place].key = k
<1> DEFINE b == Bucket(k)
           chain == table[b]
           place == PlaceIn(chain, k)
<1>1. /\ TableStates /\ TableShape /\ Chained(table) /\ Placed(table) /\ old_table = <<>>
      /\ Contents = EntriesOf(table)
  BY NoTable, MapIs DEF TableInv, TableStates, TableShape
<1>2. b \in DOMAIN table /\ HashOf[k] % Cardinality(DOMAIN table) = b
  BY <1>1, Buckets DEF Bucket, table_size
<1> HIDE DEF b
<1>3. /\ chain \in Seq(Entry) /\ Distinct(chain) /\ ToSet(chain) \subseteq Contents
      /\ \A e \in ToSet(chain) : HashOf[e.key] % Cardinality(DOMAIN table) = b
  BY <1>1, <1>2 DEF Chained, Placed, EntriesOf
<1> HIDE DEF chain
<1>4. \/ place = 0 /\ \A e \in ToSet(chain) : e.key # k
      \/ place \in DOMAIN chain /\ place # 0 /\ chain[place].key = k
  BY <1>3, PlaceFound
<1>5. \A p \in DOMAIN chain : chain[p] \in ToSet(chain)
  BY DEF ToSet
<1> HIDE DEF place
<1>6. ASSUME place = 0, NEW e \in Contents PROVE e.key # k
  <2> SUFFICES ASSUME e.key = k PROVE FALSE
    OBVIOUS
  <2>1. e \in ToSet(chain)
    BY <1>1, <1>2, EntryPlace DEF chain
  <2> QED BY <1>4, <1>6, <2>1
<1>7. place # 0 => place \in DOMAIN chain /\ chain[place] \in ToSet(chain) /\ chain[place].key = k
  BY <1>3, <1>4, <1>5
<1> QED BY <1>2, <1>3, <1>6, <1>7 DEF place, chain, b

\* The first entry with the key is the only one, and takes the new value.
LEMMA OverwriteStep ==
  ASSUME TableInv, Overwrite
  PROVE  /\ TableInv' /\ call \in Entry /\ entries' = entries
         /\ Contents' = Without(Contents, call.key) \cup {call}
<1> DEFINE b == Bucket(call.key)
           chain == table[b]
           place == PlaceIn(chain, call.key)
           c == [chain EXCEPT ![place] = call]
<1>1. /\ table_at = "link" /\ place # 0 /\ table' = [table EXCEPT ![b] = c]
      /\ table_at' = "idle" /\ entries' = entries /\ UNCHANGED <<old_table, prime_index, call>>
  BY DEF Overwrite
<1>2. call \in Entry /\ call.key \in Keys /\ TableShape /\ TableCounts /\ entries \in Nat
  BY <1>1 DEF TableInv, TableStates, Entry
<1>3. /\ b \in DOMAIN table /\ chain \in Seq(Entry) /\ Distinct(chain) /\ ToSet(chain) \subseteq Contents
      /\ \A e \in ToSet(chain) : HashOf[e.key] % Cardinality(DOMAIN table) = b
      /\ HashOf[call.key] % Cardinality(DOMAIN table) = b
      /\ place \in DOMAIN chain /\ chain[place] \in ToSet(chain) /\ chain[place].key = call.key
  BY <1>1, <1>2, ChainOf
<1> HIDE DEF place
<1>4. c \in Seq(Entry) /\ Distinct(c) /\ ToSet(c) = (ToSet(chain) \ {chain[place]}) \cup {call}
  BY <1>2, <1>3, ChangedChain
<1> HIDE DEF b, c
<1>5. \A e \in ToSet(c) : HashOf[e.key] % Cardinality(DOMAIN table) = b
  BY <1>3, <1>4
<1>6. TableStates' /\ TableShape' /\ Contents' = (Contents \ ToSet(chain)) \cup ToSet(c)
  BY <1>1, <1>2, <1>3, <1>4, <1>5, OneChainStep
<1>7. Contents \in SUBSET Entry /\ OneEach(Contents)
  BY <1>2, ContentsOne
<1>8. Without(Contents, call.key) = Contents \ {chain[place]}
  BY <1>3, <1>7 DEF Without, OneEach
<1>9. Contents' = Without(Contents, call.key) \cup {call}
  BY <1>3, <1>4, <1>6, <1>8
<1>10. TableCounts'
  <2>1. KeysOf(Contents') = KeysOf(Contents) \cup {call.key}
    BY <1>2, <1>7, <1>9, MapPut
  <2>2. call.key \in KeysOf(Contents)
    BY <1>3 DEF KeysOf
  <2>3. KeysHeld' = KeysHeld
    BY <2>1, <2>2, MapIs
  <2> QED BY <1>1, <1>2, <2>3 DEF TableCounts
<1> QED BY <1>1, <1>2, <1>6, <1>9, <1>10 DEF TableInv

LEMMA LinkEntryStep ==
  ASSUME TableInv, LinkEntry
  PROVE  /\ TableInv' /\ call \in Entry
         /\ Contents' = Without(Contents, call.key) \cup {call}
<1> DEFINE b == Bucket(call.key)
           chain == table[b]
           c == <<call>> \o chain
<1>1. /\ table_at = "link" /\ PlaceIn(chain, call.key) = 0 /\ table' = [table EXCEPT ![b] = c]
      /\ table_at' = "idle" /\ entries' = entries + 1
      /\ UNCHANGED <<old_table, prime_index, call>>
  BY DEF LinkEntry
<1>2. call \in Entry /\ call.key \in Keys /\ TableShape /\ TableCounts /\ entries \in Nat
  BY <1>1 DEF TableInv, TableStates, Entry
<1>3. /\ b \in DOMAIN table /\ chain \in Seq(Entry) /\ Distinct(chain) /\ ToSet(chain) \subseteq Contents
      /\ \A e \in ToSet(chain) : HashOf[e.key] % Cardinality(DOMAIN table) = b
      /\ HashOf[call.key] % Cardinality(DOMAIN table) = b
      /\ \A e \in Contents : e.key # call.key
  BY <1>1, <1>2, ChainOf
<1>4. c \in Seq(Entry) /\ Distinct(c) /\ ToSet(c) = {call} \cup ToSet(chain)
  <2>1. \A e \in ToSet(chain) : e.key # call.key
    BY <1>3
  <2> QED BY <1>2, <1>3, <2>1, FrontOfChain
<1> HIDE DEF b, c
<1>5. \A e \in ToSet(c) : HashOf[e.key] % Cardinality(DOMAIN table) = b
  BY <1>3, <1>4
<1>6. TableStates' /\ TableShape' /\ Contents' = (Contents \ ToSet(chain)) \cup ToSet(c)
  <2>1. entries' \in Nat /\ table_at # "enlarge"
    BY <1>1, <1>2
  <2> QED BY <1>1, <1>3, <1>4, <1>5, <2>1, OneChainStep
<1>7. Contents \in SUBSET Entry /\ OneEach(Contents)
  BY <1>2, ContentsOne
<1>8. Without(Contents, call.key) = Contents
  BY <1>3 DEF Without
<1>9. Contents' = Without(Contents, call.key) \cup {call}
  BY <1>3, <1>4, <1>6, <1>8
<1>10. TableCounts'
  <2>1. KeysOf(Contents') = KeysOf(Contents) \cup {call.key}
    BY <1>2, <1>7, <1>9, MapPut
  <2>2. call.key \notin KeysOf(Contents)
    BY <1>3 DEF KeysOf
  <2>3. KeysHeld' = KeysHeld \cup {call.key} /\ call.key \notin KeysHeld
    BY <2>1, <2>2, MapIs
  <2> QED BY <1>1, <1>2, <2>3, FS_AddElement DEF TableCounts
<1> QED BY <1>1, <1>2, <1>6, <1>9, <1>10 DEF TableInv

LEMMA RemoveStep ==
  ASSUME TableInv, NEW k \in Keys, TableRemove(k)
  PROVE  /\ TableInv' /\ Contents' = Without(Contents, k)
         /\ answer' = Answer("remove", k, k \in KeysHeld)
<1> DEFINE b == Bucket(k)
           chain == table[b]
           place == PlaceIn(chain, k)
           c == RemoveAt(chain, place)
<1>1. /\ table_at = "idle" /\ table_at' = "idle" /\ UNCHANGED <<old_table, prime_index, call>>
      /\ answer' = Answer("remove", k, place # 0)
  BY DEF TableRemove
<1>2. TableShape /\ TableCounts /\ entries \in Nat
  BY DEF TableInv, TableStates
<1>3. /\ b \in DOMAIN table /\ chain \in Seq(Entry) /\ Distinct(chain) /\ ToSet(chain) \subseteq Contents
      /\ \A e \in ToSet(chain) : HashOf[e.key] % Cardinality(DOMAIN table) = b
      /\ place = 0 => \A e \in Contents : e.key # k
      /\ place # 0 => place \in DOMAIN chain /\ chain[place] \in ToSet(chain) /\ chain[place].key = k
  BY <1>1, ChainOf
<1>4. (place # 0) = (k \in KeysHeld)
  <2>1. place = 0 => k \notin KeysHeld
    BY <1>3, MapIs DEF KeysOf
  <2>2. place # 0 => k \in KeysHeld
    BY <1>3, MapIs DEF KeysOf
  <2> QED BY <2>1, <2>2
<1>5. CASE place = 0
  <2>1. table' = table /\ entries' = entries
    BY <1>5 DEF TableRemove
  <2>2. TableInv' /\ Contents' = Contents
    <3>1. call' \in Entry \cup {<<>>}
      BY <1>1 DEF TableInv, TableStates
    <3> QED BY <1>1, <2>1, <3>1, TableQuietStep
  <2>3. Contents = Without(Contents, k)
    BY <1>3, <1>5 DEF Without
  <2> QED BY <1>1, <1>4, <2>2, <2>3
<1>6. CASE place # 0
  <2>1. table' = [table EXCEPT ![b] = c] /\ entries' = entries - 1
    BY <1>6 DEF TableRemove
  <2>2. c \in Seq(Entry) /\ Distinct(c) /\ ToSet(c) = ToSet(chain) \ {chain[place]}
    BY <1>3, <1>6, ShortenedChain
  <2>3. k \in KeysHeld /\ entries - 1 = Cardinality(KeysHeld \ {k}) /\ IsFiniteSet(KeysHeld \ {k})
    BY <1>2, <1>4, <1>6, FS_RemoveElement DEF TableCounts
  <2>4. entries' \in Nat
    BY <2>1, <2>3, FS_CardinalityType
  <2> HIDE DEF c, place, b
  <2>5. TableStates' /\ TableShape' /\ Contents' = (Contents \ ToSet(chain)) \cup ToSet(c)
    <3>1. \A e \in ToSet(c) : HashOf[e.key] % Cardinality(DOMAIN table) = b
      BY <1>3, <2>2
    <3> QED BY <1>1, <1>3, <2>1, <2>2, <2>4, <3>1, OneChainStep
  <2>6. Contents \in SUBSET Entry /\ OneEach(Contents)
    BY <1>2, ContentsOne
  <2>7. Without(Contents, k) = Contents \ {chain[place]}
    BY <1>3, <1>6, <2>6 DEF Without, OneEach
  <2>8. Contents' = Without(Contents, k)
    BY <1>3, <1>6, <2>2, <2>5, <2>7
  <2>9. TableCounts'
    <3>1. KeysHeld' = KeysHeld \ {k}
      BY <2>6, <2>8, MapDrop, MapIs
    <3> QED BY <2>1, <2>3, <3>1 DEF TableCounts
  <2> QED BY <1>1, <1>4, <2>5, <2>8, <2>9 DEF TableInv
<1> QED BY <1>5, <1>6

-----------------------------------------------------------------------------
(* The chains are the map the header describes.                            *)

\* What a step does to the entries, it does to the map.
LEMMA StoreKept ==
  ASSUME Contents' = Contents
  PROVE  Map' = Map /\ DOMAIN Map = KeysHeld
<1>1. Map' = Map
  BY MapIs
<1>2. DOMAIN Map = KeysHeld
  BY MapIs, MapDomain
<1> QED BY <1>1, <1>2

LEMMA StorePut ==
  ASSUME TableInv, TableInv', call \in Entry, Contents' = Without(Contents, call.key) \cup {call},
         answer' = Answer("insert", call.key, TRUE)
  PROVE  Store!Next
<1>1. Contents \in SUBSET Entry /\ OneEach(Contents)
  BY ContentsOne DEF TableInv
<1>2. Map' = [k \in DOMAIN Map \cup {call.key} |-> IF k = call.key THEN call.value ELSE Map[k]]
  BY <1>1, MapPut, MapIs
<1>3. entries' = Cardinality(DOMAIN Map')
  <2>1. DOMAIN Map' = KeysHeld'
    BY MapIs, MapDomain
  <2>2. entries' = Cardinality(KeysHeld')
    BY DEF TableInv, TableCounts
  <2> QED BY <2>1, <2>2
<1>4. Store!Insert(call.key, call.value)
  BY <1>2, <1>3 DEF Store!Insert, Store!Counted, Store!Reply, Answer, Cardinality, Store!Cardinality
<1> QED BY <1>4 DEF Store!Next, Entry

LEMMA StoreFails ==
  ASSUME NEW k \in Keys, Contents' = Contents, entries' = entries,
         answer' = Answer("insert", k, FALSE)
  PROVE  Store!Next
<1>1. Store!InsertFails(k)
  BY StoreKept DEF Store!InsertFails, Store!Reply, Answer
<1> QED BY <1>1 DEF Store!Next

\* A lookup finds the value that was put last.
LEMMA LookupFinds ==
  ASSUME TableInv, NEW k \in Keys, TableLookup(k)
  PROVE  answer' = Answer("lookup", k, IF k \in DOMAIN Map THEN Map[k] ELSE NoValue)
<1> DEFINE chain == table[Bucket(k)]
           place == PlaceIn(chain, k)
<1>1. /\ table_at = "idle"
      /\ answer' = Answer("lookup", k, IF place = 0 THEN NoValue ELSE chain[place].value)
  BY DEF TableLookup
<1>2. /\ ToSet(chain) \subseteq Contents
      /\ place = 0 => \A e \in Contents : e.key # k
      /\ place # 0 => chain[place] \in ToSet(chain) /\ chain[place].key = k
  BY <1>1, ChainOf
<1>3. OneEach(Contents)
  BY ContentsOne DEF TableInv
<1> HIDE DEF place, chain
<1>4. CASE place = 0
  <2>1. k \notin DOMAIN Map
    BY <1>2, <1>4, MapIs DEF MapOf, KeysOf
  <2> QED BY <1>1, <1>4, <2>1
<1>5. CASE place # 0
  <2>1. k \in DOMAIN Map /\ Map[k] = chain[place].value
    BY <1>2, <1>3, <1>5, MapValue, MapIs
  <2> QED BY <1>1, <1>5, <2>1
<1> QED BY <1>4, <1>5

LEMMA StoreInit == TableInit => Store!Init
<1> SUFFICES ASSUME TableInit PROVE Store!Init
  OBVIOUS
<1>1. entries = 0 /\ answer = Answer("new", NoValue, NoValue)
  BY DEF TableInit
<1>2. TableInv
  BY TableInvInit
<1>3. KeysHeld = {}
  BY <1>1, <1>2, FS_EmptySet DEF TableInv, TableCounts
<1>4. Map = [k \in {} |-> NoValue]
  BY <1>3 DEF Map
<1> QED BY <1>1, <1>4 DEF Store!Init, Store!Reply, Answer

LEMMA TableStep ==
  TableInv /\ [TableNext]_tableVars => TableInv' /\ [Store!Next]_(Store!svars)
<1> SUFFICES ASSUME TableInv, [TableNext]_tableVars
             PROVE  TableInv' /\ (Store!Next \/ UNCHANGED Store!svars)
  OBVIOUS
<1>0. /\ call \in Entry \cup {<<>>} /\ table_at \in {"idle", "enlarge", "link"}
      /\ table_at # "idle" => call \in Entry
  BY DEF TableInv, TableStates
<1>1. ASSUME NEW k \in Keys, EnlargeFails(k) PROVE TableInv' /\ Store!Next
  <2>1. /\ UNCHANGED <<table, old_table, prime_index, entries>> /\ call' = call
        /\ table_at = "idle" /\ table_at' = "idle" /\ answer' = Answer("insert", k, FALSE)
    BY <1>1 DEF EnlargeFails
  <2>2. TableInv' /\ Contents' = Contents
    BY <1>0, <2>1, TableQuietStep
  <2> QED BY <2>1, <2>2, StoreFails
<1>2. ASSUME NEW k \in Keys, TableLookup(k) PROVE TableInv' /\ Store!Next
  <2>1. /\ UNCHANGED <<table, old_table, prime_index, entries>> /\ call' = call
        /\ table_at = "idle" /\ table_at' = "idle"
    BY <1>2 DEF TableLookup
  <2>2. TableInv' /\ Contents' = Contents
    BY <1>0, <2>1, TableQuietStep
  <2>3. Store!Lookup(k)
    BY <1>2, <2>1, <2>2, StoreKept, LookupFinds DEF Store!Lookup, Store!Reply, Answer
  <2> QED BY <2>2, <2>3 DEF Store!Next
<1>3. ASSUME NEW k \in Keys, TableRemove(k) PROVE TableInv' /\ Store!Next
  <2>1. /\ TableInv' /\ Contents' = Without(Contents, k)
        /\ answer' = Answer("remove", k, k \in KeysHeld)
    BY <1>3, RemoveStep
  <2>2. Contents \in SUBSET Entry /\ OneEach(Contents)
    BY ContentsOne DEF TableInv
  <2>3. Map' = [x \in DOMAIN Map \ {k} |-> Map[x]] /\ DOMAIN Map = KeysHeld
    <3>1. MapOf(Contents') = [x \in DOMAIN MapOf(Contents) \ {k} |-> MapOf(Contents)[x]]
      BY <2>1, <2>2, MapDrop
    <3> QED BY <3>1, MapIs, MapDomain
  <2>4. entries' = Cardinality(DOMAIN Map')
    <3>1. DOMAIN Map' = KeysHeld'
      BY MapIs, MapDomain
    <3>2. entries' = Cardinality(KeysHeld')
      BY <2>1 DEF TableInv, TableCounts
    <3> QED BY <3>1, <3>2
  <2>5. Store!Remove(k)
    BY <2>1, <2>3, <2>4 DEF Store!Remove, Store!Counted, Store!Reply, Answer, Cardinality, Store!Cardinality
  <2> QED BY <2>1, <2>5 DEF Store!Next
<1>4. ASSUME NEW k \in Keys, NEW v \in Values, InsertBegins(k, v)
      PROVE  TableInv' /\ UNCHANGED Store!svars
  <2>1. /\ UNCHANGED <<table, old_table, prime_index, entries, answer>>
        /\ call' = [key |-> k, value |-> v] /\ table_at = "idle" /\ table_at' = "link"
    BY <1>4 DEF InsertBegins
  <2>2. call' \in Entry
    BY <2>1 DEF Entry
  <2>3. TableInv' /\ Contents' = Contents
    BY <2>1, <2>2, TableQuietStep
  <2> QED BY <2>1, <2>3, StoreKept DEF Store!svars
<1>5. ASSUME NEW k \in Keys, NEW v \in Values, EnlargeBegins(k, v)
      PROVE  TableInv' /\ UNCHANGED Store!svars
  <2>1. entries' = entries /\ answer' = answer
    BY <1>5 DEF EnlargeBegins
  <2>2. TableInv' /\ Contents' = Contents
    BY <1>5, EnlargeBeginsStep
  <2> QED BY <2>1, <2>2, StoreKept DEF Store!svars
<1>6. ASSUME Relink PROVE TableInv' /\ UNCHANGED Store!svars
  <2>1. entries' = entries /\ answer' = answer
    BY <1>6 DEF Relink
  <2>2. TableInv' /\ Contents' = Contents
    BY <1>6, RelinkStep
  <2> QED BY <2>1, <2>2, StoreKept DEF Store!svars
<1>7. ASSUME EnlargeEnds PROVE TableInv' /\ UNCHANGED Store!svars
  <2>1. entries' = entries /\ answer' = answer
    BY <1>7 DEF EnlargeEnds
  <2>2. TableInv' /\ Contents' = Contents
    BY <1>7, EnlargeEndsStep
  <2> QED BY <2>1, <2>2, StoreKept DEF Store!svars
<1>8. ASSUME Overwrite PROVE TableInv' /\ Store!Next
  <2>1. answer' = Answer("insert", call.key, TRUE)
    BY <1>8 DEF Overwrite
  <2> QED BY <1>8, <2>1, OverwriteStep, StorePut
<1>9. ASSUME LinkEntry PROVE TableInv' /\ Store!Next
  <2>1. answer' = Answer("insert", call.key, TRUE)
    BY <1>9 DEF LinkEntry
  <2> QED BY <1>9, <2>1, LinkEntryStep, StorePut
<1>10. ASSUME LinkFails PROVE TableInv' /\ Store!Next
  <2>1. /\ UNCHANGED <<table, old_table, prime_index, entries>> /\ call' = call
        /\ table_at = "link" /\ table_at' = "idle" /\ answer' = Answer("insert", call.key, FALSE)
    BY <1>10 DEF LinkFails
  <2>2. TableInv' /\ Contents' = Contents
    BY <1>0, <2>1, TableQuietStep
  <2>3. call.key \in Keys
    BY <1>0, <2>1 DEF Entry
  <2> QED BY <2>1, <2>2, <2>3, StoreFails
<1>11. ASSUME UNCHANGED tableVars PROVE TableInv' /\ UNCHANGED Store!svars
  <2>1. /\ table' = table /\ old_table' = old_table /\ prime_index' = prime_index
        /\ entries' = entries /\ call' = call /\ table_at' = table_at /\ answer' = answer
    BY <1>11 DEF tableVars
  <2>2. Contents' = Contents
    BY <2>1, MapIs
  <2>3. TableInv'
    BY <2>1, <2>2, CountKept DEF TableInv, TableStates, TableShape, table_size
  <2> QED BY <2>1, <2>2, <2>3, StoreKept DEF Store!svars
<1> QED BY <1>1, <1>2, <1>3, <1>4, <1>5, <1>6, <1>7, <1>8, <1>9, <1>10, <1>11 DEF TableNext

LEMMA TableInvAlways == TableSpec => []TableInv
<1>1. TableInv /\ [TableNext]_tableVars => TableInv'
  BY TableStep
<1> QED BY <1>1, TableInvInit, PTL DEF TableSpec

\* The chains stay chains of entries in a table of at least one, through every enlargement.
THEOREM TableTypeCorrect == TableSpec => []TableTypeOK
<1>1. TableInv => TableTypeOK
  BY DEF TableInv, TableStates, TableShape, Chained, TableTypeOK
<1> QED BY <1>1, TableInvAlways, PTL

\* For any keys, any hashes and any primes: every call of hash_table_insert, hash_table_get and
\* hash_table_remove answers as the map of the header would, and no step of an enlargement is
\* seen.
THEOREM TableImplementsStore == TableSpec => ImplementsStore
<1>1. TableInv /\ [TableNext]_tableVars => [Store!Next]_(Store!svars)
  BY TableStep
<1> QED BY <1>1, StoreInit, TableInvAlways, PTL DEF TableSpec, ImplementsStore, Store!Spec
=============================================================================
