------------------------------- MODULE MCServer -------------------------------
(* What the server keeps besides its connections: the hash table, the world  *)
(* that uses it, the entity ids, the packing of a chunk's blocks, and the    *)
(* life of the process with its clock.  A behaviour is one of a single       *)
(* component, the subject; the others stay where they begin.                 *)
EXTENDS ChunkPacking, HashTable, World, Lifecycle

CONSTANTS t1, t2, k1, k2, k3, k4, c1, c2

VARIABLE subject

\* Every bit is set in one kind of block and clear in another.
SomeKinds == {{0}, {1, 2}}

\* Two primes and then ten places an entry; keys that collide in both tables, in one or in none.
SmallPrimes == <<3, 7>>
Hashes == (k1 :> 1) @@ (k2 :> 4) @@ (k3 :> 8) @@ (k4 :> 22)

\* Two columns of one bucket.
ColumnBuckets == (c1 :> 1) @@ (c2 :> 1)

FarBelow == -3

\* What is packed in the behaviours of the others: blocks of one kind.
OneKind == [j \in 0 .. Blocks - 1 |-> CHOOSE kind \in Kinds : TRUE]

ServerInit ==
  /\ \/ subject = "packing"
     \/ subject \in {"table", "ids", "world", "life"} /\ section = OneKind
  /\ Init /\ TableInit /\ IdsInit /\ WorldInit /\ LifeInit

ServerNext ==
  /\ UNCHANGED subject
  /\ \/ subject = "packing" /\ Next /\ UNCHANGED <<tableVars, idVars, worldVars, lifeVars>>
     \/ subject = "table" /\ TableNext /\ UNCHANGED <<vars, idVars, worldVars, lifeVars>>
     \/ subject = "ids" /\ IdsNext /\ UNCHANGED <<vars, tableVars, worldVars, lifeVars>>
     \/ subject = "world" /\ WorldNext /\ UNCHANGED <<vars, tableVars, idVars, lifeVars>>
     \/ subject = "life" /\ LifeNext /\ UNCHANGED <<vars, tableVars, idVars, worldVars>>

ServerSpec ==
  ServerInit /\ [][ServerNext]_<<subject, vars, tableVars, idVars, worldVars, lifeVars>>

ServerTypeOK == TypeOK /\ TableTypeOK /\ IdsTypeOK /\ WorldTypeOK /\ LifeTypeOK
=============================================================================
