------------------------------- MODULE VmLru --------------------------------
(* The LruCache both tiers of the reference machine's cache keep: entries   *)
(* [key, val], the most recently used first.                                *)
EXTENDS Naturals, SequencesExt

At(lru, k) == {i \in DOMAIN lru : lru[i].key = k}

Has(lru, k) == At(lru, k) # {}

\* Where a key the map holds stands.
Place(lru, k) == CHOOSE i \in At(lru, k) : TRUE

Without(lru, k) == IF Has(lru, k) THEN RemoveAt(lru, Place(lru, k)) ELSE lru

Find(lru, k) == lru[Place(lru, k)]

\* put replaces the value of a key it holds, and otherwise pushes the least
\* recently used entry out of a full map.
Put(lru, e, room) ==
    LET all == <<e>> \o Without(lru, e.key)
    IN IF Len(all) > room THEN Front(all) ELSE all

\* get makes the entry it finds the most recent one.
Touch(lru, k) ==
    IF Has(lru, k) THEN <<Find(lru, k)>> \o Without(lru, k) ELSE lru

=============================================================================
