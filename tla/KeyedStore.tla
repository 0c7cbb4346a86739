------------------------------ MODULE KeyedStore ------------------------------
(***************************************************************************)
(* What lib/algo/hash-table.h promises: a map from keys to values that     *)
(* says what was put there last, counts its keys, and may refuse a new     *)
(* value for want of memory.  There are no chains, no primes and nothing   *)
(* is ever moved here; HashTable implements this module.                   *)
(***************************************************************************)
EXTENDS FiniteSets

CONSTANTS Keys, Values, NoValue

VARIABLES store,    \* a function from the keys that are present
          count,    \* hash_table_num_entries
          reply     \* what the last call returned

svars == <<store, count, reply>>

Reply(op, key, result) == [op |-> op, key |-> key, result |-> result]

Init ==
  /\ store = [k \in {} |-> NoValue]
  /\ count = 0
  /\ reply = Reply("new", NoValue, NoValue)

Counted == count' = Cardinality(DOMAIN store')

Insert(k, v) ==
  /\ store' = [x \in DOMAIN store \cup {k} |-> IF x = k THEN v ELSE store[x]]
  /\ Counted /\ reply' = Reply("insert", k, TRUE)

InsertFails(k) ==
  /\ UNCHANGED <<store, count>>
  /\ reply' = Reply("insert", k, FALSE)

Lookup(k) ==
  /\ UNCHANGED <<store, count>>
  /\ reply' = Reply("lookup", k, IF k \in DOMAIN store THEN store[k] ELSE NoValue)

Remove(k) ==
  /\ store' = [x \in DOMAIN store \ {k} |-> store[x]]
  /\ Counted /\ reply' = Reply("remove", k, k \in DOMAIN store)

Next == \E k \in Keys : InsertFails(k) \/ Lookup(k) \/ Remove(k) \/ \E v \in Values : Insert(k, v)

Spec == Init /\ [][Next]_svars
=============================================================================
