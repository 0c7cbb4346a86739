------------------------------- MODULE EntityIds -------------------------------
(***************************************************************************)
(* generate_new_entity_id of world/world.c, which create_player calls when *)
(* a login succeeds, on any thread of the pool: ++entity_id_counter is a   *)
(* read and a write, between a lock and an unlock.                         *)
(***************************************************************************)
EXTENDS Integers, Sequences

CONSTANTS
  Threads,
  Nobody,       \* holds the mutex when it is free
  FirstId,      \* INT32_MIN
  IdCount,      \* 2^32: what there are of ids, after which the counter wraps round
  MaxJoins      \* bounds the runs

ASSUME NobodyAssumption == Nobody \notin Threads
ASSUME IdsAssumption == FirstId \in Int /\ IdCount \in Nat \ {0} /\ MaxJoins \in Nat

VARIABLES
  id_at,        \* where each thread is
  entity_id_counter,
  entity_id_counter_mutex,
  tmp,          \* what each thread makes of the counter
  ids           \* the ids of the players, in the order they got them

idVars == <<id_at, entity_id_counter, entity_id_counter_mutex, tmp, ids>>

IdsInit ==
  /\ id_at = [t \in Threads |-> "idle"]
  /\ entity_id_counter = FirstId /\ entity_id_counter_mutex = Nobody
  /\ tmp = [t \in Threads |-> FirstId]
  /\ ids = <<>>

\* Variant: the counter is not protected.
MutexFree_Always == TRUE

MutexFree == entity_id_counter_mutex = Nobody

Moves(t, from, to) == id_at[t] = from /\ id_at' = [id_at EXCEPT ![t] = to]

LockIds(t) ==
  /\ Moves(t, "idle", "read") /\ Len(ids) < MaxJoins
  /\ MutexFree /\ entity_id_counter_mutex' = t
  /\ UNCHANGED <<entity_id_counter, tmp, ids>>

ReadCounter(t) ==
  /\ Moves(t, "read", "write")
  /\ tmp' = [tmp EXCEPT ![t] = FirstId + ((entity_id_counter + 1 - FirstId) % IdCount)]
  /\ UNCHANGED <<entity_id_counter, entity_id_counter_mutex, ids>>

WriteCounter(t) ==
  /\ Moves(t, "write", "unlock")
  /\ entity_id_counter' = tmp[t]
  /\ UNCHANGED <<entity_id_counter_mutex, tmp, ids>>

UnlockIds(t) ==
  /\ Moves(t, "unlock", "idle")
  /\ entity_id_counter_mutex' = Nobody
  /\ ids' = Append(ids, tmp[t])
  /\ UNCHANGED <<entity_id_counter, tmp>>

IdsNext == \E t \in Threads : LockIds(t) \/ ReadCounter(t) \/ WriteCounter(t) \/ UnlockIds(t)

IdsSpec == IdsInit /\ [][IdsNext]_idVars

-----------------------------------------------------------------------------
IdsTypeOK ==
  /\ id_at \in [Threads -> {"idle", "read", "write", "unlock"}]
  /\ entity_id_counter \in Int /\ entity_id_counter_mutex \in Threads \cup {Nobody}
  /\ tmp \in [Threads -> Int] /\ ids \in Seq(Int)

\* Among any IdCount players in a row no two have one id, however the threads that let them join
\* interleave.
IdsDistinct ==
  \A j, k \in DOMAIN ids : j < k /\ k < j + IdCount => ids[j] # ids[k]
=============================================================================
