------------------------------- MODULE HashTable -------------------------------
(***************************************************************************)
(* lib/algo/hash-table.c, which world.c keeps its chunks in: chains of     *)
(* entries, the newest in front, in a table that is enlarged before an     *)
(* insertion once it is a third full.  An enlargement moves the entries    *)
(* one by one, and what is read while it runs is both tables.              *)
(*                                                                         *)
(* A key is a value here, as the library means it; that world.c hands in   *)
(* a pointer to a variable that is gone is World's subject.  No functions  *)
(* for freeing are registered, and sets, iterators and hash_table_free are *)
(* not used by the server.                                                 *)
(***************************************************************************)
EXTENDS Integers, Sequences, FiniteSets, SequencesExt

CONSTANTS
  Keys, Values,
  NoValue,      \* HASH_TABLE_NULL
  HashOf,       \* a number for every key
  Primes        \* hash_table_primes

ASSUME HashAssumption == HashOf \in [Keys -> Nat]
ASSUME PrimesAssumption == Primes \in Seq(Nat \ {0}) /\ Primes # <<>>
ASSUME NoValueAssumption == NoValue \notin Values

VARIABLES
  table,        \* the chains, from 0
  old_table,    \* the chains not moved yet; empty but during an enlargement
  prime_index,
  entries,
  call,         \* the entry an insertion is about
  table_at,     \* "idle", "enlarge" or "link"
  answer        \* what the last call returned

tableVars == <<table, old_table, prime_index, entries, call, table_at, answer>>

Entry == [key : Keys, value : Values]

Chains(size) == [b \in 0 .. size - 1 |-> <<>>]

table_size == Cardinality(DOMAIN table)

\* hash_table_allocate_table.
SizeFor(index) == IF index < Len(Primes) THEN Primes[index + 1] ELSE entries * 10

Answer(op, key, result) == [op |-> op, key |-> key, result |-> result]

-----------------------------------------------------------------------------
TableInit ==
  /\ table = Chains(Primes[1]) /\ old_table = <<>>
  /\ prime_index = 0 /\ entries = 0
  /\ call = <<>> /\ table_at = "idle"
  /\ answer = Answer("new", NoValue, NoValue)

\* The bucket a key belongs to.
Bucket(k) == HashOf[k] % table_size

\* Where the first entry with key k is in a chain, or 0.
PlaceIn(chain, k) ==
  LET found == {p \in DOMAIN chain : chain[p].key = k}
  IN  IF found = {} THEN 0 ELSE CHOOSE p \in found : \A q \in found : p <= q

InsertBegins(k, v) ==
  /\ table_at = "idle"
  /\ (entries * 3) \div table_size = 0
  /\ call' = [key |-> k, value |-> v] /\ table_at' = "link"
  /\ UNCHANGED <<table, old_table, prime_index, entries, answer>>

\* hash_table_enlarge, up to the loop.
EnlargeBegins(k, v) ==
  /\ table_at = "idle"
  /\ (entries * 3) \div table_size > 0
  /\ call' = [key |-> k, value |-> v] /\ table_at' = "enlarge"
  /\ prime_index' = prime_index + 1
  /\ old_table' = table /\ table' = Chains(SizeFor(prime_index + 1))
  /\ UNCHANGED <<entries, answer>>

\* calloc fails: the old table is put back, and the insertion fails.
EnlargeFails(k) ==
  /\ table_at = "idle"
  /\ (entries * 3) \div table_size > 0
  /\ answer' = Answer("insert", k, FALSE)
  /\ UNCHANGED <<table, old_table, prime_index, entries, call, table_at>>

\* The first chain that is not moved yet.
Unmoved == {b \in DOMAIN old_table : old_table[b] # <<>>}

\* Variant: the entry stays in the bucket it was in.
Relink_SameBucket ==
  /\ table_at = "enlarge"
  /\ \E b \in Unmoved :
       /\ \A c \in Unmoved : b <= c
       /\ table' = [table EXCEPT ![b] = <<Head(old_table[b])>> \o @]
       /\ old_table' = [old_table EXCEPT ![b] = Tail(@)]
  /\ UNCHANGED <<prime_index, entries, call, table_at, answer>>

\* One round of the loops: an entry is hashed anew and put in front of its new chain.
Relink ==
  /\ table_at = "enlarge"
  /\ \E b \in Unmoved :
       LET rover == Head(old_table[b]) IN
       /\ \A c \in Unmoved : b <= c
       /\ table' = [table EXCEPT ![Bucket(rover.key)] = <<rover>> \o @]
       /\ old_table' = [old_table EXCEPT ![b] = Tail(@)]
  /\ UNCHANGED <<prime_index, entries, call, table_at, answer>>

EnlargeEnds ==
  /\ table_at = "enlarge" /\ Unmoved = {}
  /\ old_table' = <<>> /\ table_at' = "link"
  /\ UNCHANGED <<table, prime_index, entries, call, answer>>

\* The key is there: its entry is overwritten.
Overwrite ==
  LET b == Bucket(call.key)
      place == PlaceIn(table[b], call.key) IN
  /\ table_at = "link" /\ place # 0
  /\ table' = [table EXCEPT ![b][place] = call]
  /\ table_at' = "idle" /\ answer' = Answer("insert", call.key, TRUE)
  /\ UNCHANGED <<old_table, prime_index, entries, call>>

LinkEntry ==
  LET b == Bucket(call.key) IN
  /\ table_at = "link" /\ PlaceIn(table[b], call.key) = 0
  /\ table' = [table EXCEPT ![b] = <<call>> \o @]
  /\ entries' = entries + 1
  /\ table_at' = "idle" /\ answer' = Answer("insert", call.key, TRUE)
  /\ UNCHANGED <<old_table, prime_index, call>>

\* No memory for an entry.
LinkFails ==
  /\ table_at = "link" /\ PlaceIn(table[Bucket(call.key)], call.key) = 0
  /\ table_at' = "idle" /\ answer' = Answer("insert", call.key, FALSE)
  /\ UNCHANGED <<table, old_table, prime_index, entries, call>>

TableLookup(k) ==
  LET chain == table[Bucket(k)]
      place == PlaceIn(chain, k) IN
  /\ table_at = "idle"
  /\ answer' = Answer("lookup", k, IF place = 0 THEN NoValue ELSE chain[place].value)
  /\ UNCHANGED <<table, old_table, prime_index, entries, call, table_at>>

TableRemove(k) ==
  LET b == Bucket(k)
      place == PlaceIn(table[b], k) IN
  /\ table_at = "idle"
  /\ IF place = 0
       THEN UNCHANGED <<table, entries>>
       ELSE /\ table' = [table EXCEPT ![b] = RemoveAt(@, place)]
            /\ entries' = entries - 1
  /\ answer' = Answer("remove", k, place # 0)
  /\ UNCHANGED <<old_table, prime_index, call, table_at>>

TableNext ==
  \/ \E k \in Keys : EnlargeFails(k) \/ TableLookup(k) \/ TableRemove(k)
                       \/ \E v \in Values : InsertBegins(k, v) \/ EnlargeBegins(k, v)
  \/ Relink \/ EnlargeEnds \/ Overwrite \/ LinkEntry \/ LinkFails

TableSpec == TableInit /\ [][TableNext]_tableVars

-----------------------------------------------------------------------------
TableTypeOK ==
  /\ table \in [DOMAIN table -> Seq(Entry)] /\ table_size \in Nat \ {0}
  /\ prime_index \in Nat /\ entries \in Nat
  /\ call \in Entry \cup {<<>>} /\ table_at \in {"idle", "enlarge", "link"}

EntriesOf(t) == UNION {ToSet(t[b]) : b \in DOMAIN t}

\* The entries of both tables.
Contents == EntriesOf(table) \cup EntriesOf(old_table)

KeysHeld == {e.key : e \in Contents}

Map == [k \in KeysHeld |-> (CHOOSE e \in Contents : e.key = k).value]

Store == INSTANCE KeyedStore WITH store <- Map, count <- entries, reply <- answer

\* The chains, however keys collide and whenever the table is enlarged or cannot be, are the map
\* the header describes: a lookup finds what was put last, an overwrite replaces it, a removal
\* takes one key away, and no step of an enlargement changes what is stored.
ImplementsStore == Store!Spec
=============================================================================
